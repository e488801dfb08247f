-------------------------- MODULE AppGatewayProofs --------------------------
(***************************************************************************)
(* What is proved of AppGateway, for any number of callers, sessions and   *)
(* failures: its types, and that no watcher ever switches a session that   *)
(* is being closed, overlapping calls included; and, as long as no         *)
(* StartGateway has run beside another call, that what is up is one        *)
(* session's, that capture is watched and that no server outlives the      *)
(* network it serves.                                                      *)
(***************************************************************************)
EXTENDS AppGateway, TLAPS

-----------------------------------------------------------------------------
(* The inductive invariant follows a session from hand to hand: the        *)
(* StartGateway that brought it up, the gateway, the StopGateway that took *)
(* it.  It has one owner at a time and is open until the last one closes   *)
(* it; of those a watcher may share it with the gateway, and with a        *)
(* StopGateway that has not yet got past the watchers.  A second           *)
(* StartGateway at once may make the gateway forget a session: then it has *)
(* no owner, and stays open.                                               *)

\* A call of StopGateway that has session i to close.
Holds(c, i) == pc[c] \in StopPcs \ {"undoing"} /\ took[c].session = i

Brings(c, i) == pc[c] = "publishing" /\ mine[c] = i

\* An owned session is open.
OwnedIsOpen ==
    \A i \in Ids :
        \/ gw.session = i
        \/ \E c \in Callers : Holds(c, i) \/ Brings(c, i)
        => platform[i] = "open"

\* No session has two owners.
OneOwner ==
    \A i \in Ids :
        /\ gw.session = i => \A c \in Callers : ~Holds(c, i) /\ ~Brings(c, i)
        /\ \A c, d \in Callers :
              /\ Holds(c, i) => ~Brings(d, i)
              /\ c # d => ~(Holds(c, i) /\ Holds(d, i)) /\ ~(Brings(c, i) /\ Brings(d, i))

\* A call past the platform's Start has a session, a call that undoes one too,
\* and that session is not open any more.
CallsHaveSessions ==
    \A c \in Callers :
        /\ pc[c] \in StartPcs \ {"starting"} => mine[c] \in Ids
        /\ pc[c] = "undoing" => /\ took[c].session \in Ids
                                /\ platform[took[c].session] \in {"closing", "closed"}
        /\ pc[c] \in {"shuttingDown", "draining"} => took[c].dhcp \in Ids

\* A watcher's session is open, and a StopGateway that has it still waits.
WatchersWaitedFor ==
    \A i \in Ids : watcher[i].pc \in {"check", "withdraw"} =>
        /\ watcher[i].session \in Ids
        /\ platform[watcher[i].session] = "open"
        /\ \A c \in Callers :
              /\ ~Brings(c, watcher[i].session)
              /\ Holds(c, watcher[i].session) => pc[c] \in {"closingStop", "waiting"}

\* The invariant of the sessions.
Ownership == OwnedIsOpen /\ OneOwner /\ CallsHaveSessions /\ WatchersWaitedFor

Inv == TypeOK /\ Ownership

-----------------------------------------------------------------------------
(* Types. *)

\* Every step keeps the types; that a call past the platform's Start has a
\* session is needed where it indexes with it.
LEMMA TypeStep == ASSUME TypeOK, CallsHaveSessions, [Next]_vars PROVE TypeOK'
<1>1. ASSUME NEW c \in Callers, NEW s \in [managed : BOOLEAN, capture : BOOLEAN],
             StartCall(c, s)
      PROVE TypeOK'
  BY <1>1 DEF TypeOK, StartPcs, StartCall, GoTo, sessions, sockets
<1>2. ASSUME NEW c \in Callers, StopCall(c) PROVE TypeOK'
  BY <1>2 DEF TypeOK, Gateway, Nothing, StopPcs, StopCall, GoTo, sessions, sockets, Take
<1>3. ASSUME NEW c \in Callers, StartRefused(c) PROVE TypeOK'
  BY <1>3
  DEF TypeOK, Gateway, Nothing, StartRefused, GoTo, sessions, sockets, Return, NoWish
<1>4. ASSUME NEW c \in Callers, PlatformStart(c) PROVE TypeOK'
  BY <1>4 DEF TypeOK, StartPcs, PlatformStart, GoTo, sockets
<1>5. ASSUME NEW c \in Callers, Publish(c) PROVE TypeOK'
  BY <1>5 DEF TypeOK, Gateway, StartPcs, Publish, GoTo, sessions, sockets
<1>6. ASSUME NEW c \in Callers, Listen(c) PROVE TypeOK'
  BY <1>6 DEF TypeOK, StartPcs, Listen, GoTo, sessions
<1>7. ASSUME NEW c \in Callers, ListenFails(c) PROVE TypeOK'
  BY <1>7
  DEF TypeOK, Gateway, Nothing, StopPcs, ListenFails, GoTo, sessions, sockets, Take
<1>8. ASSUME NEW c \in Callers, PublishDHCP(c) PROVE TypeOK'
  BY <1>8
  DEF TypeOK, CallsHaveSessions, Gateway, Nothing, StartPcs, PublishDHCP, GoTo, calls,
      sessions
<1>9. ASSUME NEW c \in Callers, CheckResolver(c) PROVE TypeOK'
  BY <1>9 DEF TypeOK, StartPcs, CheckResolver, GoTo, sessions, sockets
<1>10. ASSUME NEW c \in Callers, SwitchOn(c) PROVE TypeOK'
  <2>1. mine[c] \in Ids
    BY <1>10 DEF CallsHaveSessions, SwitchOn, StartPcs
  <2>2. faults' \in 0..MaxFaults
    BY <1>10, GatewayAssumption DEF TypeOK, SwitchOn, Fail
  <2>3. capture' \subseteq Ids
    BY <1>10, <2>1 DEF TypeOK, SwitchOn
  <2>. QED
    BY <1>10, <2>2, <2>3 DEF TypeOK, SwitchOn, GoTo, StartPcs, sockets
<1>11. ASSUME NEW c \in Callers, ReadStop(c) PROVE TypeOK'
  BY <1>11 DEF TypeOK, Gateway, Nothing, StartPcs, ReadStop, GoTo, sessions, sockets
<1>12. ASSUME NEW c \in Callers, Spawn(c) PROVE TypeOK'
  <2> DEFINE w == [WatcherAt("select") EXCEPT !.stop = took[c].stop]
  <2>1. w \in Watcher
    BY DEF TypeOK, Gateway, Watcher, WatcherAt, Ids, None
  <2>2. watcher' \in [Ids -> Watcher]
    BY <1>12, <2>1 DEF Spawn, TypeOK
  <2>3. Nothing \in Gateway /\ NoWish \in [managed : BOOLEAN, capture : BOOLEAN]
    BY DEF Nothing, NoWish, Gateway, Ids, None
  <2>. QED
    BY <1>12, <2>2, <2>3 DEF TypeOK, Spawn, Return, GoTo, sessions, sockets
<1>13. ASSUME NEW c \in Callers, CloseStop(c) PROVE TypeOK'
  <2>1. took[c].stop \in Ids \cup {None}
    BY DEF TypeOK, Gateway
  <2>. QED
    BY <1>13, <2>1 DEF TypeOK, CloseStop, GoTo, StopPcs, sessions, sockets
<1>14. ASSUME NEW c \in Callers, WaitForWatchers(c) PROVE TypeOK'
  BY <1>14 DEF TypeOK, Gateway, StopPcs, WaitForWatchers, GoTo, sessions, sockets
<1>15. ASSUME NEW c \in Callers, TellServer(c) PROVE TypeOK'
  BY <1>15 DEF TypeOK, CallsHaveSessions, StopPcs, TellServer, GoTo, sessions
<1>16. ASSUME NEW c \in Callers, Drained(c) PROVE TypeOK'
  BY <1>16 DEF TypeOK, CallsHaveSessions, StopPcs, Drained, GoTo, sessions, CloseSocket
<1>17. ASSUME NEW c \in Callers, ShutdownExpires(c) PROVE TypeOK'
  BY <1>17
  DEF TypeOK, CallsHaveSessions, Gateway, StopPcs, ShutdownExpires, GoTo, sessions,
      CloseSocket
<1>18. ASSUME NEW c \in Callers, BeginClose(c) PROVE TypeOK'
  BY <1>18 DEF TypeOK, StopPcs, BeginClose, GoTo, sockets
<1>19. ASSUME NEW c \in Callers, EndClose(c) PROVE TypeOK'
  BY <1>19 DEF TypeOK, Gateway, Nothing, EndClose, GoTo, sockets, Return, NoWish
<1>20. ASSUME NEW c \in Callers, NothingToClose(c) PROVE TypeOK'
  BY <1>20
  DEF TypeOK, Gateway, Nothing, NothingToClose, GoTo, sessions, sockets, Return, NoWish
<1>21. ASSUME NEW i \in Ids, WatcherStops(i) PROVE TypeOK'
  <2> DEFINE w == WatcherAt("done")
  <2>1. watcher[i] \in Watcher
    BY DEF TypeOK
  <2>2. w \in Watcher
    BY <1>21, <2>1 DEF TypeOK, Gateway, Watcher, WatcherAt, Selecting, WatcherStops
  <2>3. watcher' = [watcher EXCEPT ![i] = w]
    BY <1>21, <2>1 DEF WatcherStops, WatcherAt, Selecting, Watcher
  <2>4. watcher' \in [Ids -> Watcher]
    BY <2>2, <2>3 DEF TypeOK
  <2>. QED
    BY <1>21, <2>4
    DEF TypeOK, WatcherStops, WatcherAt, Selecting, unwatched, calls, sockets
<1>22. ASSUME NEW i \in Ids, WatcherTicks(i) PROVE TypeOK'
  <2> DEFINE w == [watcher[i] EXCEPT !.pc = "check", !.session = gw.session]
  <2>1. watcher[i] \in Watcher
    BY DEF TypeOK
  <2>2. w \in Watcher
    BY <1>22, <2>1 DEF TypeOK, Gateway, Watcher, WatcherAt, Selecting, WatcherTicks
  <2>3. watcher' = [watcher EXCEPT ![i] = w]
    BY <1>22, <2>1 DEF WatcherTicks, WatcherAt, Selecting, Watcher
  <2>4. watcher' \in [Ids -> Watcher]
    BY <2>2, <2>3 DEF TypeOK
  <2>. QED
    BY <1>22, <2>4
    DEF TypeOK, WatcherTicks, WatcherAt, Selecting, unwatched, calls, sockets
<1>23. ASSUME NEW i \in Ids, WatcherChecks(i) PROVE TypeOK'
  <2>1. watcher[i] \in Watcher
    BY DEF TypeOK
  <2>2. \A n \in 0..1 : Selecting(watcher[i], n) \in Watcher
    BY <2>1 DEF Selecting, Watcher
  <2>3. [watcher[i] EXCEPT !.pc = "withdraw", !.failures = 0] \in Watcher
    <3>1. [watcher[i] EXCEPT !.pc = "withdraw"] \in Watcher
      BY <2>1 DEF Watcher
    <3>2. \A w \in Watcher : [w EXCEPT !.failures = 0] \in Watcher
      BY DEF Watcher
    <3>. QED
      BY <3>1, <3>2
  <2>4. watcher' \in [Ids -> Watcher]
    BY <1>23, <2>2, <2>3 DEF WatcherChecks, TypeOK
  <2>. QED
    BY <1>23, <2>4 DEF TypeOK, WatcherChecks, unwatched, calls, sockets
<1>24. ASSUME NEW i \in Ids, WatcherWithdraws(i) PROVE TypeOK'
  <2> DEFINE w == Selecting(watcher[i], watcher[i].failures)
  <2>1. watcher[i] \in Watcher
    BY DEF TypeOK
  <2>2. w \in Watcher
    BY <1>24, <2>1 DEF TypeOK, Gateway, Watcher, WatcherAt, Selecting, WatcherWithdraws
  <2>3. watcher' = [watcher EXCEPT ![i] = w]
    BY <1>24, <2>1 DEF WatcherWithdraws, WatcherAt, Selecting, Watcher
  <2>4. watcher' \in [Ids -> Watcher]
    BY <2>2, <2>3 DEF TypeOK
  <2>. QED
    BY <1>24, <2>4, GatewayAssumption
    DEF TypeOK, WatcherWithdraws, WatcherAt, Selecting, unwatched, calls, sockets, Fail
<1>25. ASSUME NEW i \in Ids, ServeBegins(i) PROVE TypeOK'
  BY <1>25 DEF TypeOK, ServeBegins, Serving, calls, sessions
<1>26. ASSUME NEW i \in Ids, ServeRefused(i) PROVE TypeOK'
  BY <1>26 DEF TypeOK, ServeRefused, Serving, calls, sessions
<1>27. ASSUME NEW i \in Ids, Receive(i) PROVE TypeOK'
  BY <1>27 DEF TypeOK, Receive, Serving, calls, sessions
<1>28. ASSUME NEW i \in Ids, Handled(i) PROVE TypeOK'
  BY <1>28 DEF TypeOK, Handled, Serving, calls, sessions
<1>29. ASSUME NEW i \in Ids, ServeEnds(i) PROVE TypeOK'
  BY <1>29 DEF TypeOK, ServeEnds, Serving, calls, sessions
<1>30. ASSUME NEW i \in Ids, ReadFails(i) PROVE TypeOK'
  BY <1>30 DEF TypeOK, ReadFails, Serving, calls, sessions
<1>31. ASSUME ResolverChanges PROVE TypeOK'
  BY <1>31 DEF TypeOK, ResolverChanges, calls, sessions, sockets
<1>32. ASSUME UNCHANGED vars PROVE TypeOK'
  BY <1>32 DEF TypeOK, vars, calls, sessions, sockets
<1>33. QED
  BY <1>1, <1>2, <1>3, <1>4, <1>5, <1>6, <1>7, <1>8, <1>9, <1>10, <1>11, <1>12, <1>13,
     <1>14, <1>15, <1>16, <1>17, <1>18, <1>19, <1>20, <1>21, <1>22, <1>23, <1>24, <1>25,
     <1>26, <1>27, <1>28, <1>29, <1>30, <1>31, <1>32
  DEF Next, StartStep, StopStep, WatcherStep

-----------------------------------------------------------------------------
(* Ownership. *)

\* Who owns what is told by the calls, the gateway's session, the platform and
\* the watchers alone.
LEMMA Frame ==
  ASSUME Ownership, UNCHANGED <<gw.session, calls, platform, watcher>>
  PROVE  Ownership'
BY DEF Ownership, OwnedIsOpen, OneOwner, CallsHaveSessions, WatchersWaitedFor,
       Holds, Brings, calls

\* A call that goes on within its StartGateway, or its StopGateway, neither gets
\* nor gives a session.
LEMMA Moves ==
  ASSUME TypeOK, Ownership, NEW c \in Callers, NEW at, GoTo(c, at),
         UNCHANGED <<gw.session, platform, watcher, took>>,
         \/ pc[c] = "idle" /\ at = "starting"
         \/ pc[c] = "closingStop" /\ at = "waiting"
         \/ pc[c] = "shuttingDown" /\ at = "draining"
         \/ pc[c] \in {"shuttingDown", "draining"} /\ at = "closing"
         \/ {pc[c], at} \subseteq StartPcs \ {"starting", "publishing"},
         UNCHANGED mine
  PROVE  Ownership'
<1>types. pc \in [Callers -> {"idle"} \cup StartPcs \cup StopPcs]
  BY DEF TypeOK
<1>1. \A d \in Callers : \A i : (Holds(d, i))' <=> Holds(d, i)
  BY <1>types DEF GoTo, Holds, StartPcs, StopPcs
<1>2. \A d \in Callers : \A i : (Brings(d, i))' <=> Brings(d, i)
  BY <1>types DEF GoTo, Brings
<1>3. OwnedIsOpen' /\ OneOwner'
  BY <1>1, <1>2 DEF Ownership, OwnedIsOpen, OneOwner
<1>4. CallsHaveSessions'
  BY <1>types DEF Ownership, CallsHaveSessions, GoTo, StartPcs
<1>5. WatchersWaitedFor'
  BY <1>1, <1>2, <1>types DEF Ownership, WatchersWaitedFor, GoTo, Holds, StartPcs
<1>. QED
  BY <1>3, <1>4, <1>5 DEF Ownership
\* Every step hands sessions on as the invariant says: Publish to the gateway,
\* Take to a StopGateway, BeginClose to nobody.
LEMMA OwnershipStep == ASSUME TypeOK, Ownership, [Next]_vars PROVE Ownership'
<1>types. /\ pc \in [Callers -> {"idle"} \cup StartPcs \cup StopPcs]
          /\ mine \in [Callers -> Ids \cup {None}]
          /\ took \in [Callers -> Gateway]
          /\ platform \in [Ids -> {"none", "open", "closing", "closed"}]
          /\ watcher \in [Ids -> Watcher]
          /\ gw \in Gateway /\ None \notin Ids
          /\ OwnedIsOpen /\ OneOwner /\ CallsHaveSessions /\ WatchersWaitedFor
  BY DEF TypeOK, Ownership, None, Ids
<1>1. ASSUME NEW c \in Callers, NEW s \in [managed : BOOLEAN, capture : BOOLEAN],
             StartCall(c, s)
      PROVE Ownership'
  BY <1>1, <1>types, Moves DEF StartCall, sessions
<1>2. ASSUME NEW c \in Callers, StopCall(c) PROVE Ownership'
  <2>1. OwnedIsOpen'
    BY <1>2, <1>types
    DEF OwnedIsOpen, Holds, Brings, StopCall, GoTo, sessions, Take, Nothing
  <2>2. OneOwner'
    BY <1>2, <1>types DEF OneOwner, Holds, Brings, StopCall, GoTo, Take, Nothing
  <2>3. CallsHaveSessions'
    BY <1>2, <1>types
    DEF CallsHaveSessions, StopCall, GoTo, sessions, StartPcs, Take, Nothing
  <2>4. WatchersWaitedFor'
    BY <1>2, <1>types
    DEF WatchersWaitedFor, Holds, Brings, StopCall, GoTo, sessions, Take, Nothing
  <2>. QED
    BY <2>1, <2>2, <2>3, <2>4 DEF Ownership
<1>3. ASSUME NEW c \in Callers, StartRefused(c) PROVE Ownership'
  <2>1. OwnedIsOpen'
    BY <1>3, <1>types
    DEF OwnedIsOpen, Holds, Brings, StartRefused, GoTo, sessions, Return, Nothing
  <2>2. OneOwner'
    BY <1>3, <1>types DEF OneOwner, Holds, Brings, StartRefused, GoTo, Return, Nothing
  <2>3. CallsHaveSessions'
    BY <1>3, <1>types
    DEF CallsHaveSessions, StartRefused, GoTo, sessions, StartPcs, Return, Nothing
  <2>4. WatchersWaitedFor'
    BY <1>3, <1>types
    DEF WatchersWaitedFor, Holds, Brings, StartRefused, GoTo, sessions, Return, Nothing
  <2>. QED
    BY <2>1, <2>2, <2>3, <2>4 DEF Ownership
<1>4. ASSUME NEW c \in Callers, PlatformStart(c) PROVE Ownership'
  <2>1. OwnedIsOpen'
    BY <1>4, <1>types DEF OwnedIsOpen, Holds, Brings, PlatformStart, GoTo, StopPcs
  <2>2. OneOwner'
    BY <1>4, <1>types
    DEF OneOwner, OwnedIsOpen, Holds, Brings, PlatformStart, GoTo, StopPcs
  <2>3. CallsHaveSessions'
    BY <1>4, <1>types DEF CallsHaveSessions, PlatformStart, GoTo
  <2>4. WatchersWaitedFor'
    BY <1>4, <1>types DEF WatchersWaitedFor, Holds, Brings, PlatformStart, GoTo, StopPcs
  <2>. QED
    BY <2>1, <2>2, <2>3, <2>4 DEF Ownership
<1>5. ASSUME NEW c \in Callers, Publish(c) PROVE Ownership'
  <2>1. OwnedIsOpen'
    BY <1>5, <1>types DEF OwnedIsOpen, Holds, Brings, Publish, GoTo, sessions, StopPcs
  <2>2. OneOwner'
    BY <1>5, <1>types DEF OneOwner, Holds, Brings, Publish, GoTo, StopPcs
  <2>3. CallsHaveSessions'
    BY <1>5, <1>types DEF CallsHaveSessions, Publish, GoTo, sessions, StartPcs
  <2>4. WatchersWaitedFor'
    BY <1>5, <1>types
    DEF WatchersWaitedFor, Holds, Brings, Publish, GoTo, sessions, StopPcs
  <2>. QED
    BY <2>1, <2>2, <2>3, <2>4 DEF Ownership
<1>6. ASSUME NEW c \in Callers, Listen(c) PROVE Ownership'
  BY <1>6, <1>types, Moves DEF Listen, StartPcs, sessions
<1>7. ASSUME NEW c \in Callers, ListenFails(c) PROVE Ownership'
  <2>1. OwnedIsOpen'
    BY <1>7, <1>types
    DEF OwnedIsOpen, Holds, Brings, ListenFails, GoTo, sessions, Take, Nothing
  <2>2. OneOwner'
    BY <1>7, <1>types DEF OneOwner, Holds, Brings, ListenFails, GoTo, Take, Nothing
  <2>3. CallsHaveSessions'
    BY <1>7, <1>types
    DEF CallsHaveSessions, ListenFails, GoTo, sessions, StartPcs, Take, Nothing
  <2>4. WatchersWaitedFor'
    BY <1>7, <1>types
    DEF WatchersWaitedFor, Holds, Brings, ListenFails, GoTo, sessions, Take, Nothing
  <2>. QED
    BY <2>1, <2>2, <2>3, <2>4 DEF Ownership
<1>8. ASSUME NEW c \in Callers, PublishDHCP(c) PROVE Ownership'
  BY <1>8, <1>types, Moves DEF Gateway, PublishDHCP, StartPcs, sessions
<1>9. ASSUME NEW c \in Callers, CheckResolver(c) PROVE Ownership'
  BY <1>9, <1>types, Moves DEF CheckResolver, StartPcs, sessions
<1>10. ASSUME NEW c \in Callers, SwitchOn(c) PROVE Ownership'
  BY <1>10, <1>types, Moves DEF SwitchOn, StartPcs
<1>11. ASSUME NEW c \in Callers, ReadStop(c) PROVE Ownership'
  <2>1. OwnedIsOpen'
    BY <1>11, <1>types DEF OwnedIsOpen, Holds, Brings, ReadStop, GoTo, sessions, Nothing
  <2>2. OneOwner'
    BY <1>11, <1>types DEF OneOwner, Holds, Brings, ReadStop, GoTo, Nothing
  <2>3. CallsHaveSessions'
    BY <1>11, <1>types DEF CallsHaveSessions, ReadStop, GoTo, sessions, StartPcs, Nothing
  <2>4. WatchersWaitedFor'
    BY <1>11, <1>types
    DEF WatchersWaitedFor, Holds, Brings, ReadStop, GoTo, sessions, Nothing
  <2>. QED
    BY <2>1, <2>2, <2>3, <2>4 DEF Ownership
<1>12. ASSUME NEW c \in Callers, Spawn(c) PROVE Ownership'
  <2>1. OwnedIsOpen'
    BY <1>12, <1>types
    DEF OwnedIsOpen, Holds, Brings, Spawn, GoTo, sessions, Return, Nothing, WatcherAt
  <2>2. OneOwner'
    BY <1>12, <1>types
    DEF OneOwner, Holds, Brings, Spawn, GoTo, Return, Nothing, WatcherAt
  <2>3. CallsHaveSessions'
    BY <1>12, <1>types
    DEF CallsHaveSessions, Spawn, GoTo, sessions, StartPcs, Return, Nothing, WatcherAt
  <2>4. WatchersWaitedFor'
    BY <1>12, <1>types
    DEF WatchersWaitedFor, Holds, Brings, Spawn, GoTo, sessions, Return, Nothing,
        WatcherAt
  <2>. QED
    BY <2>1, <2>2, <2>3, <2>4 DEF Ownership
<1>13. ASSUME NEW c \in Callers, CloseStop(c) PROVE Ownership'
  BY <1>13, <1>types, Moves DEF CloseStop, sessions
<1>14. ASSUME NEW c \in Callers, WaitForWatchers(c) PROVE Ownership'
  <2>1. OwnedIsOpen'
    BY <1>14, <1>types
    DEF OwnedIsOpen, Holds, Brings, WaitForWatchers, GoTo, sessions, StartPcs, Running,
        Gateway
  <2>2. OneOwner'
    BY <1>14, <1>types
    DEF OneOwner, OwnedIsOpen, Holds, Brings, WaitForWatchers, GoTo, StartPcs, Running,
        Gateway
  <2>3. CallsHaveSessions'
    BY <1>14, <1>types
    DEF CallsHaveSessions, WaitForWatchers, GoTo, sessions, StartPcs, Running, Gateway
  <2>4. WatchersWaitedFor'
    BY <1>14, <1>types
    DEF WatchersWaitedFor, Holds, WaitForWatchers, GoTo, Running, Gateway
  <2>. QED
    BY <2>1, <2>2, <2>3, <2>4 DEF Ownership
<1>15. ASSUME NEW c \in Callers, TellServer(c) PROVE Ownership'
  BY <1>15, <1>types, Moves DEF TellServer, sessions
<1>16. ASSUME NEW c \in Callers, Drained(c) PROVE Ownership'
  BY <1>16, <1>types, Moves DEF Drained, CloseSocket, sessions
<1>17. ASSUME NEW c \in Callers, ShutdownExpires(c) PROVE Ownership'
  BY <1>17, <1>types, Moves DEF ShutdownExpires, CloseSocket, sessions
<1>18. ASSUME NEW c \in Callers, BeginClose(c) PROVE Ownership'
  <2>1. OwnedIsOpen'
    BY <1>18, <1>types, SMTT(20)
    DEF OwnedIsOpen, OneOwner, Holds, Brings, BeginClose, GoTo, StartPcs, Gateway
  <2>2. OneOwner'
    BY <1>18, <1>types DEF OneOwner, Holds, Brings, BeginClose, GoTo, Gateway
  <2>3. CallsHaveSessions'
    BY <1>18, <1>types DEF CallsHaveSessions, BeginClose, GoTo, StartPcs, Gateway
  <2>4. WatchersWaitedFor'
    BY <1>18, <1>types
    DEF WatchersWaitedFor, Holds, Brings, BeginClose, GoTo, StartPcs, Gateway
  <2>. QED
    BY <2>1, <2>2, <2>3, <2>4 DEF Ownership
<1>19. ASSUME NEW c \in Callers, EndClose(c) PROVE Ownership'
  <2>1. OwnedIsOpen'
    BY <1>19, <1>types
    DEF OwnedIsOpen, CallsHaveSessions, Holds, Brings, EndClose, GoTo, Return, Nothing
  <2>2. OneOwner'
    BY <1>19, <1>types DEF OneOwner, Holds, Brings, EndClose, GoTo, Return, Nothing
  <2>3. CallsHaveSessions'
    BY <1>19, <1>types DEF CallsHaveSessions, EndClose, GoTo, StartPcs, Return, Nothing
  <2>4. WatchersWaitedFor'
    BY <1>19, <1>types
    DEF WatchersWaitedFor, CallsHaveSessions, Holds, Brings, EndClose, GoTo, Return,
        Nothing
  <2>. QED
    BY <2>1, <2>2, <2>3, <2>4 DEF Ownership
<1>20. ASSUME NEW c \in Callers, NothingToClose(c) PROVE Ownership'
  <2>1. OwnedIsOpen'
    BY <1>20, <1>types
    DEF OwnedIsOpen, Holds, Brings, NothingToClose, GoTo, sessions, Return, Nothing
  <2>2. OneOwner'
    BY <1>20, <1>types DEF OneOwner, Holds, Brings, NothingToClose, GoTo, Return, Nothing
  <2>3. CallsHaveSessions'
    BY <1>20, <1>types
    DEF CallsHaveSessions, NothingToClose, GoTo, sessions, StartPcs, Return, Nothing
  <2>4. WatchersWaitedFor'
    BY <1>20, <1>types
    DEF WatchersWaitedFor, Holds, Brings, NothingToClose, GoTo, sessions, Return, Nothing
  <2>. QED
    BY <2>1, <2>2, <2>3, <2>4 DEF Ownership
<1>21. ASSUME NEW i \in Ids, WatcherStops(i) PROVE Ownership'
  <2>1. OwnedIsOpen'
    BY <1>21, <1>types
    DEF OwnedIsOpen, Holds, Brings, WatcherStops, unwatched, calls, WatcherAt, Selecting
  <2>2. OneOwner'
    BY <1>21, <1>types
    DEF OneOwner, Holds, Brings, WatcherStops, unwatched, calls, WatcherAt, Selecting
  <2>3. CallsHaveSessions'
    BY <1>21, <1>types
    DEF CallsHaveSessions, WatcherStops, unwatched, calls, WatcherAt, Selecting
  <2>4. WatchersWaitedFor'
    BY <1>21, <1>types
    DEF WatchersWaitedFor, Holds, Brings, WatcherStops, unwatched, calls, WatcherAt,
        Selecting
  <2>. QED
    BY <2>1, <2>2, <2>3, <2>4 DEF Ownership
<1>22. ASSUME NEW i \in Ids, WatcherTicks(i) PROVE Ownership'
  <2>1. OwnedIsOpen'
    BY <1>22, <1>types
    DEF OwnedIsOpen, Holds, Brings, WatcherTicks, unwatched, calls, WatcherAt, Selecting,
        Gateway
  <2>2. OneOwner'
    BY <1>22, <1>types
    DEF OneOwner, Holds, Brings, WatcherTicks, unwatched, calls, WatcherAt, Selecting,
        Gateway
  <2>3. CallsHaveSessions'
    BY <1>22, <1>types
    DEF CallsHaveSessions, WatcherTicks, unwatched, calls, WatcherAt, Selecting, Gateway
  <2>4. WatchersWaitedFor'
    BY <1>22, <1>types
    DEF WatchersWaitedFor, OneOwner, OwnedIsOpen, Holds, Brings, WatcherTicks, unwatched,
        calls, WatcherAt, Selecting, Gateway
  <2>. QED
    BY <2>1, <2>2, <2>3, <2>4 DEF Ownership
<1>23. ASSUME NEW i \in Ids, WatcherChecks(i) PROVE Ownership'
  <2>1. OwnedIsOpen'
    BY <1>23, <1>types
    DEF OwnedIsOpen, Holds, Brings, WatcherChecks, unwatched, calls, WatcherAt, Selecting
  <2>2. OneOwner'
    BY <1>23, <1>types
    DEF OneOwner, Holds, Brings, WatcherChecks, unwatched, calls, WatcherAt, Selecting
  <2>3. CallsHaveSessions'
    BY <1>23, <1>types
    DEF CallsHaveSessions, WatcherChecks, unwatched, calls, WatcherAt, Selecting
  <2>4. WatchersWaitedFor'
    <3>1. ASSUME NEW j \in Ids, watcher'[j].pc \in {"check", "withdraw"}
          PROVE /\ watcher[j].pc \in {"check", "withdraw"}
                /\ watcher'[j].session = watcher[j].session
      <4>1. CASE j # i
        BY <1>23, <3>1, <4>1, <1>types DEF WatcherChecks
      <4>2. CASE j = i
        <5>1. \A n : Selecting(watcher[i], n).pc = "select"
          BY DEF Selecting
        <5>2. watcher'[i] = [watcher[i] EXCEPT !.pc = "withdraw", !.failures = 0]
          BY <1>23, <3>1, <4>2, <5>1, <1>types DEF WatcherChecks
        <5>3. watcher[i] \in Watcher
          BY <1>types
        <5>4. watcher'[i].session = watcher[i].session
          BY <5>2, <5>3 DEF Watcher
        <5>. QED
          BY <1>23, <4>2, <5>4 DEF WatcherChecks
      <4>. QED
        BY <4>1, <4>2
    <3>. QED
      BY <1>23, <3>1, <1>types
      DEF WatchersWaitedFor, Holds, Brings, WatcherChecks, unwatched, calls
  <2>. QED
    BY <2>1, <2>2, <2>3, <2>4 DEF Ownership
<1>24. ASSUME NEW i \in Ids, WatcherWithdraws(i) PROVE Ownership'
  <2>1. OwnedIsOpen'
    BY <1>24, <1>types
    DEF OwnedIsOpen, Holds, Brings, WatcherWithdraws, unwatched, calls, WatcherAt,
        Selecting
  <2>2. OneOwner'
    BY <1>24, <1>types
    DEF OneOwner, Holds, Brings, WatcherWithdraws, unwatched, calls, WatcherAt, Selecting
  <2>3. CallsHaveSessions'
    BY <1>24, <1>types
    DEF CallsHaveSessions, WatcherWithdraws, unwatched, calls, WatcherAt, Selecting
  <2>4. WatchersWaitedFor'
    BY <1>24, <1>types
    DEF WatchersWaitedFor, Holds, Brings, WatcherWithdraws, unwatched, calls, WatcherAt,
        Selecting
  <2>. QED
    BY <2>1, <2>2, <2>3, <2>4 DEF Ownership
<1>25. ASSUME NEW i \in Ids, ServeBegins(i) PROVE Ownership'
  BY <1>25, Frame DEF ServeBegins, Serving, calls, sessions
<1>26. ASSUME NEW i \in Ids, ServeRefused(i) PROVE Ownership'
  BY <1>26, Frame DEF ServeRefused, Serving, calls, sessions
<1>27. ASSUME NEW i \in Ids, Receive(i) PROVE Ownership'
  BY <1>27, Frame DEF Receive, Serving, calls, sessions
<1>28. ASSUME NEW i \in Ids, Handled(i) PROVE Ownership'
  BY <1>28, Frame DEF Handled, Serving, calls, sessions
<1>29. ASSUME NEW i \in Ids, ServeEnds(i) PROVE Ownership'
  BY <1>29, Frame DEF ServeEnds, Serving, calls, sessions
<1>30. ASSUME NEW i \in Ids, ReadFails(i) PROVE Ownership'
  BY <1>30, Frame DEF ReadFails, Serving, calls, sessions
<1>31. ASSUME ResolverChanges PROVE Ownership'
  BY <1>31, Frame DEF ResolverChanges, calls, sessions
<1>32. ASSUME UNCHANGED vars PROVE Ownership'
  BY <1>32, Frame DEF vars, calls, sessions
<1>. QED
  BY <1>1, <1>2, <1>3, <1>4, <1>5, <1>6, <1>7, <1>8, <1>9, <1>10, <1>11, <1>12, <1>13,
     <1>14, <1>15, <1>16, <1>17, <1>18, <1>19, <1>20, <1>21, <1>22, <1>23, <1>24, <1>25,
     <1>26, <1>27, <1>28, <1>29, <1>30, <1>31, <1>32
  DEF Next, StartStep, StopStep, WatcherStep
-----------------------------------------------------------------------------
(* The theorems. *)

\* At the start there is no session, and no call under way.
LEMMA InvInit == Init => Inv
<1>. SUFFICES ASSUME Init PROVE Inv
  OBVIOUS
<1>1. TypeOK
  <2>1. WatcherAt("none") \in Watcher
    BY DEF Watcher, WatcherAt, Ids, None
  <2>2. Nothing \in Gateway /\ NoWish \in [managed : BOOLEAN, capture : BOOLEAN]
    BY DEF Nothing, NoWish, Gateway, Ids, None
  <2>3. faults \in 0..MaxFaults
    BY GatewayAssumption DEF Init
  <2>4. watcher \in [Ids -> Watcher] /\ took \in [Callers -> Gateway]
    BY <2>1, <2>2 DEF Init
  <2>5. want \in [Callers -> [managed : BOOLEAN, capture : BOOLEAN]]
    BY <2>2 DEF Init
  <2>. QED
    BY <2>2, <2>3, <2>4, <2>5 DEF Init, TypeOK
<1>2. Ownership
  BY DEF Init, Ownership, OwnedIsOpen, OneOwner, CallsHaveSessions, WatchersWaitedFor,
         Holds, Brings, Nothing, WatcherAt, Ids, None, StartPcs, StopPcs
<1>. QED
  BY <1>1, <1>2 DEF Inv
\* The invariant: sessions have one owner at a time, an owned one is open, and a
\* watcher's is open and not yet in the hands of a StopGateway that no longer waits.
THEOREM GatewayInvariant == Spec => []Inv
<1>1. Inv /\ [Next]_vars => Inv'
  BY TypeStep, OwnershipStep DEF Inv, Ownership
<1>. QED
  BY InvInit, <1>1, PTL DEF Spec
\* Type correctness of the gateway's state, its calls and its goroutines.
THEOREM GatewayTypes == Spec => []TypeOK
<1>1. Inv => TypeOK
  BY DEF Inv
<1>. QED
  BY GatewayInvariant, <1>1, PTL

\* StopGateway closes a session only when no watcher is about to switch it, in
\* whatever order the handlers' calls and the watchers' ticks come.
THEOREM WatchersTouchLiveSessions == Spec => []WatcherTouchesLive
<1>1. Inv => WatcherTouchesLive
  BY DEF Inv, Ownership, WatchersWaitedFor, WatcherTouchesLive
<1>. QED
  BY GatewayInvariant, <1>1, PTL

-----------------------------------------------------------------------------
(* Calls that do not overlap.  As long as no StartGateway runs beside another  *)
(* call, what the gateway, the calls and the goroutines have is one session's. *)

\* A StartGateway under way is the only call.
Alone ==
    \A c \in Callers : pc[c] \in StartPcs =>
        \A d \in Callers \ {c} : pc[d] = "idle"

\* The session a call has to itself.
InHand(c) == IF pc[c] = "publishing" THEN mine[c] ELSE took[c].session

\* Of the gateway and the calls at most one has a session; one that starts
\* shares its with the gateway once it is published.
OneHand ==
    \A c \in Callers :
        /\ InHand(c) # None =>
              /\ gw.session = None
              /\ \A d \in Callers \ {c} : InHand(d) = None
        /\ pc[c] \in {"starting", "publishing"} => gw.session = None
        /\ pc[c] \in StartPcs \ {"starting", "publishing"} => gw.session = mine[c]

\* What is read under the lock belongs to one session.
Matching(g) == g.stop = g.session /\ g.dhcp \in {None, g.session}

\* So do the gateway, the copy a StopGateway has of it, and the settings of a
\* StartGateway that has published them.
Shapes ==
    /\ Matching(gw)
    /\ \A c \in Callers :
          /\ pc[c] \in StopPcs => Matching(took[c])
          /\ pc[c] \notin StopPcs => took[c].session = None /\ took[c].dhcp = None
          /\ pc[c] = "spawning" => took[c].stop = gw.stop
          /\ pc[c] \in StartPcs \ {"starting", "publishing"} => gw.capturing = want[c].capture
          /\ pc[c] \in {"checking", "capturing"} => want[c].capture

\* A session is up exactly as long as somebody has it.
UpInHand ==
    \A i \in Ids :
        platform[i] \in {"open", "closing"} <=>
            gw.session = i \/ \E c \in Callers : InHand(c) = i

\* A session that is published and past its StartGateway has its watcher, which
\* hears a channel nobody has closed; other watchers are those a StopGateway
\* waits for.
Watching ==
    \A i \in Ids :
        /\ i \in Running =>
              /\ watcher[i].stop = i
              /\ \/ gw.session = i /\ \A c \in Callers : pc[c] \notin StartPcs
                 \/ \E c \in Callers : pc[c] \in {"closingStop", "waiting"} /\ InHand(c) = i
        /\ gw.session = i /\ (\A c \in Callers : pc[c] \notin StartPcs) => i \in Running
        /\ i \in closed =>
              /\ platform[i] # "none" /\ gw.session # i
              /\ \A c \in Callers : pc[c] = "publishing" => mine[c] # i

\* Where a StopGateway has not yet closed the DHCP server's socket.
Undrained == {"closingStop", "waiting", "shuttingDown", "draining"}

\* The port is held for the server of the gateway, of a call that is about to
\* hand it to the gateway, or of one that is about to close it.
PortHeld ==
    /\ gw.dhcp # None => port = gw.dhcp
    /\ port # None =>
          \/ gw.dhcp = port
          \/ \E c \in Callers :
                \/ pc[c] \in Undrained /\ took[c].dhcp = port
                \/ pc[c] = "serving" /\ mine[c] = port
    /\ \A c \in Callers :
          /\ pc[c] = "serving" => port = mine[c]
          /\ pc[c] \in {"listening", "serving"} => gw.dhcp = None

\* The server of session i reads no more, unless its Shutdown ran out of time.
Silenced(i) ==
    \/ i \in expired
    \/ server[i] = "none"
    \/ i \in told /\ server[i] \notin {"reading", "handling"}

\* A session without a server has none anywhere, and the server of one that is
\* closed or about to be is silent.
Silence ==
    /\ gw.dhcp = None => \A i \in Ids : gw.session = i => server[i] = "none"
    /\ \A i \in Ids :
          /\ platform[i] = "none" => server[i] = "none"
          /\ platform[i] \in {"closing", "closed"} => Silenced(i)
          /\ \A c \in Callers : InHand(c) = i =>
                /\ pc[c] = "publishing" => server[i] = "none"
                /\ pc[c] \in StopPcs /\ took[c].dhcp = None => server[i] = "none"
                /\ pc[c] = "draining" => i \in told
                /\ pc[c] \in {"closing", "undoing"} => Silenced(i)

\* Where DNS is captured somebody knows it.
CaptureKnown ==
    \A i \in capture :
        \/ gw.session = i /\ gw.capturing
        \/ \E c \in Callers : pc[c] \in StopPcs /\ InHand(c) = i

Order ==
    /\ Alone /\ OneHand /\ Shapes /\ UpInHand /\ Watching
    /\ PortHeld /\ Silence /\ CaptureKnown

\* The invariant with what holds of calls that have not overlapped.
SerialInv == Inv /\ (~overlapped => Order)

\* A call's step keeps the order.
LEMMA OrderCalls ==
  ASSUME Inv, Order, ~overlapped', NEW c \in Callers,
         \/ \E s \in [managed : BOOLEAN, capture : BOOLEAN] : StartCall(c, s)
         \/ StopCall(c) \/ StartStep(c) \/ StopStep(c)
  PROVE  Order'
<1>types. /\ pc \in [Callers -> {"idle"} \cup StartPcs \cup StopPcs]
          /\ mine \in [Callers -> Ids \cup {None}]
          /\ took \in [Callers -> Gateway]
          /\ want \in [Callers -> [managed : BOOLEAN, capture : BOOLEAN]]
          /\ platform \in [Ids -> {"none", "open", "closing", "closed"}]
          /\ watcher \in [Ids -> Watcher]
          /\ server \in [Ids -> {"none", "spawned", "reading", "handling", "ended"}]
          /\ capture \subseteq Ids /\ port \in Ids \cup {None}
          /\ gw \in Gateway /\ None \notin Ids
          /\ OwnedIsOpen /\ CallsHaveSessions
          /\ Alone /\ OneHand /\ Shapes /\ UpInHand
          /\ Watching /\ PortHeld /\ Silence /\ CaptureKnown
  BY DEF Inv, TypeOK, Ownership, None, Ids, Order
<1>1. ASSUME NEW s \in [managed : BOOLEAN, capture : BOOLEAN], StartCall(c, s)
      PROVE  Order'
  <2>1. \A d \in Callers \ {c} : pc[d] = "idle"
    BY <1>1, Zenon DEF StartCall
  <2>2. \A d \in Callers : InHand(d)' = InHand(d)
    BY <1>1, <2>1, <1>types
    DEF Shapes, InHand, StartCall, GoTo, Nothing, StartPcs, StopPcs, Gateway
  <2>3. Alone' /\ OneHand' /\ Shapes'
    BY <1>1, <2>1, <1>types
    DEF Alone, OneHand, Shapes, InHand, CallsHaveSessions, StartCall, GoTo,
        StopPcs
  <2>4. UpInHand'
    BY <1>1, <2>2, <1>types DEF UpInHand, StartCall, GoTo, sessions, StopPcs
  <2>5. CaptureKnown'
    BY <1>1, <2>2, <1>types DEF CaptureKnown, StartCall, GoTo, sessions, StopPcs
  <2>6. Watching'
    BY <1>1, <2>2, <1>types DEF Watching, Running, StartCall, GoTo, sessions
  <2>7. PortHeld' /\ Silence'
    BY <1>1, <2>1, <1>types
    DEF Alone, OneHand, Shapes, Matching, PortHeld, Undrained, Silence, Silenced,
        InHand, CallsHaveSessions, StartCall, GoTo, sessions, sockets, StartPcs,
        StopPcs
  <2>. QED
    BY <2>3, <2>4, <2>5, <2>6, <2>7 DEF Order
<1>2. CASE StopCall(c)
  <2>1. \A d \in Callers : pc[d] \notin StartPcs
    BY <1>2, Zenon DEF StopCall
  <2>2. /\ \A d \in Callers : InHand(d)' = IF d = c THEN gw.session ELSE InHand(d)
        /\ InHand(c) = None /\ gw'.session = None
    BY <1>2, <2>1, <1>types
    DEF Shapes, InHand, StopCall, Take, GoTo, Nothing, StartPcs, StopPcs, Gateway
  <2>3. Alone' /\ OneHand' /\ Shapes'
    BY <1>2, <2>1, <1>types
    DEF Alone, OneHand, Shapes, Matching, InHand, StopCall, GoTo, Take, Nothing,
        StartPcs, StopPcs
  <2>4. UpInHand'
    BY <1>2, <2>1, <2>2, <1>types
    DEF Alone, OneHand, Shapes, UpInHand, StopCall, GoTo, sessions, Take, Nothing,
        StartPcs, StopPcs, Gateway
  <2>5. CaptureKnown'
    BY <1>2, <2>1, <2>2, <1>types, SMTT(30)
    DEF Alone, OneHand, Shapes, CaptureKnown, StopCall, GoTo, sessions, Take,
        Nothing, StartPcs, StopPcs, Gateway
  <2>6. Watching'
    BY <1>2, <2>2, <1>types DEF Watching, Running, StopCall, GoTo, sessions, Take, Nothing
  <2>7. PortHeld' /\ Silence'
    BY <1>2, <2>1, <1>types
    DEF PortHeld, Silence, InHand, Undrained, Silenced, StopCall, GoTo, sessions,
        sockets, Take, Nothing
  <2>. QED
    BY <2>3, <2>4, <2>5, <2>6, <2>7 DEF Order
<1>3. CASE StartRefused(c)
  <2>1. \A d \in Callers : InHand(d)' = InHand(d)
    BY <1>3, <1>types
    DEF Shapes, InHand, StartRefused, Return, GoTo, Nothing, StartPcs, StopPcs,
        Gateway
  <2>2. Alone' /\ OneHand' /\ Shapes'
    BY <1>3, <1>types
    DEF Alone, OneHand, Shapes, Matching, InHand, StartRefused, GoTo, Return,
        Nothing, StartPcs
  <2>3. UpInHand'
    BY <1>3, <2>1, <1>types
    DEF Alone, OneHand, Shapes, UpInHand, StartRefused, Return, GoTo, sessions,
        Nothing, StartPcs, StopPcs
  <2>4. CaptureKnown'
    BY <1>3, <2>1, <1>types
    DEF Alone, OneHand, Shapes, CaptureKnown, StartRefused, Return, GoTo,
        sessions, Nothing, StartPcs, StopPcs
  <2>5. Watching'
    BY <1>3, <2>1, <1>types
    DEF Alone, OneHand, Watching, Running, StartRefused, GoTo, sessions, Return,
        StopPcs
  <2>6. PortHeld' /\ Silence'
    BY <1>3, <1>types
    DEF Shapes, PortHeld, Silence, InHand, Silenced, StartRefused, GoTo, sessions,
        sockets, Return, StopPcs
  <2>. QED
    BY <2>2, <2>3, <2>4, <2>5, <2>6 DEF Order
<1>4. CASE PlatformStart(c)
  <2>1. /\ \A d \in Callers : InHand(d)' = IF d = c THEN mine'[c] ELSE InHand(d)
        /\ InHand(c) = None /\ UNCHANGED gw
    BY <1>4, <1>types
    DEF Shapes, InHand, PlatformStart, GoTo, Nothing, StartPcs, StopPcs, Gateway
  <2>2. Alone' /\ OneHand' /\ Shapes'
    BY <1>4, <1>types DEF Alone, OneHand, Shapes, InHand, PlatformStart, GoTo, StopPcs
  <2>3. UpInHand'
    BY <1>4, <2>1, <1>types
    DEF Alone, Shapes, UpInHand, CallsHaveSessions, PlatformStart, GoTo, StopPcs
  <2>4. CaptureKnown'
    BY <1>4, <2>1, <1>types
    DEF Alone, Shapes, CaptureKnown, CallsHaveSessions, PlatformStart, GoTo,
        StopPcs
  <2>5. Watching'
    BY <1>4, <2>1, <1>types DEF Alone, Watching, Running, PlatformStart, GoTo, StartPcs
  <2>6. PortHeld' /\ Silence'
    BY <1>4, <1>types
    DEF Shapes, PortHeld, Silence, InHand, Silenced, PlatformStart, GoTo, sockets,
        StopPcs
  <2>. QED
    BY <2>2, <2>3, <2>4, <2>5, <2>6 DEF Order
<1>5. CASE Publish(c)
  <2>1. /\ \A d \in Callers : InHand(d)' = IF d = c THEN None ELSE InHand(d)
        /\ InHand(c) = mine[c] /\ gw'.session = mine[c]
    BY <1>5, <1>types
    DEF Shapes, InHand, Publish, GoTo, Nothing, StartPcs, StopPcs, Gateway
  <2>2. Alone' /\ OneHand' /\ Shapes'
    BY <1>5, <1>types DEF Alone, OneHand, Shapes, Matching, InHand, Publish, GoTo, StopPcs
  <2>3. UpInHand'
    BY <1>5, <2>1, <1>types
    DEF Alone, OneHand, Shapes, UpInHand, CallsHaveSessions, Publish, GoTo,
        sessions, StopPcs
  <2>4. CaptureKnown'
    BY <1>5, <2>1, <1>types
    DEF Alone, OneHand, Shapes, CaptureKnown, CallsHaveSessions, Publish, GoTo,
        sessions, StopPcs
  <2>5. Watching'
    BY <1>5, <2>1, <1>types
    DEF Alone, Watching, Running, Publish, GoTo, sessions, StartPcs
  <2>6. PortHeld' /\ Silence'
    BY <1>5, <1>types
    DEF OneHand, Shapes, PortHeld, Silence, Matching, InHand, Silenced, Publish,
        GoTo, sessions, sockets, StopPcs
  <2>. QED
    BY <2>2, <2>3, <2>4, <2>5, <2>6 DEF Order
<1>6. CASE Listen(c)
  <2>1. \A d \in Callers : InHand(d)' = InHand(d)
    BY <1>6, <1>types
    DEF Shapes, InHand, Listen, GoTo, Nothing, StartPcs, StopPcs, Gateway
  <2>2. Alone' /\ OneHand' /\ Shapes'
    BY <1>6, <1>types DEF Alone, OneHand, Shapes, InHand, Listen, GoTo, StopPcs
  <2>3. UpInHand'
    BY <1>6, <2>1, <1>types DEF Alone, UpInHand, Listen, GoTo, sessions, StartPcs, StopPcs
  <2>4. CaptureKnown'
    BY <1>6, <2>1, <1>types
    DEF Alone, CaptureKnown, Listen, GoTo, sessions, StartPcs, StopPcs
  <2>5. Watching'
    BY <1>6, <2>1, <1>types
    DEF OneHand, Watching, Running, CallsHaveSessions, Listen, GoTo, sessions,
        StartPcs
  <2>6. PortHeld'
    BY <1>6, <1>types
    DEF PortHeld, InHand, CallsHaveSessions, Listen, GoTo, sessions, StopPcs
  <2>7. Silence'
    BY <1>6, <1>types
    DEF Silence, InHand, Silenced, CallsHaveSessions, Listen, GoTo, sessions,
        StopPcs
  <2>. QED
    BY <2>2, <2>3, <2>4, <2>5, <2>6, <2>7 DEF Order
<1>7. CASE ListenFails(c)
  <2>1. /\ \A d \in Callers : InHand(d)' = IF d = c THEN gw.session ELSE InHand(d)
        /\ InHand(c) = None /\ gw'.session = None
    BY <1>7, <1>types
    DEF Shapes, InHand, ListenFails, Take, GoTo, Nothing, StartPcs, StopPcs,
        Gateway
  <2>2. Alone' /\ OneHand' /\ Shapes'
    BY <1>7, <1>types
    DEF Alone, OneHand, Shapes, Matching, InHand, ListenFails, GoTo, Take,
        Nothing, StartPcs, StopPcs
  <2>3. UpInHand'
    BY <1>7, <2>1, <1>types
    DEF OneHand, UpInHand, CallsHaveSessions, ListenFails, GoTo, sessions, Take,
        Nothing, StopPcs
  <2>4. CaptureKnown'
    BY <1>7, <2>1, <1>types
    DEF OneHand, CaptureKnown, CallsHaveSessions, ListenFails, GoTo, sessions,
        Take, Nothing, StopPcs
  <2>5. Watching'
    BY <1>7, <2>1, <1>types
    DEF OneHand, Watching, Running, CallsHaveSessions, ListenFails, GoTo,
        sessions, Take, Nothing, StopPcs
  <2>6. PortHeld' /\ Silence'
    BY <1>7, <1>types
    DEF Shapes, PortHeld, Silence, InHand, Silenced, ListenFails, GoTo, sessions,
        sockets, Take, Nothing, StopPcs
  <2>. QED
    BY <2>2, <2>3, <2>4, <2>5, <2>6 DEF Order
<1>8. CASE PublishDHCP(c)
  <2>1. \A d \in Callers : InHand(d)' = InHand(d)
    BY <1>8, <1>types
    DEF Shapes, InHand, PublishDHCP, GoTo, Nothing, StartPcs, StopPcs, Gateway
  <2>2. Alone' /\ OneHand' /\ Shapes'
    BY <1>8, <1>types
    DEF Alone, OneHand, Shapes, Matching, InHand, PublishDHCP, GoTo, StopPcs
  <2>3. UpInHand'
    BY <1>8, <2>1, <1>types
    DEF Alone, OneHand, UpInHand, PublishDHCP, GoTo, sessions, StopPcs
  <2>4. CaptureKnown'
    BY <1>8, <2>1, <1>types
    DEF Alone, OneHand, CaptureKnown, PublishDHCP, GoTo, sessions, StopPcs
  <2>5. Watching'
    BY <1>8, <2>1, <1>types
    DEF OneHand, Watching, Running, CallsHaveSessions, PublishDHCP, GoTo,
        sessions, StartPcs
  <2>6. PortHeld'
    BY <1>8, <1>types
    DEF Alone, OneHand, PortHeld, OwnedIsOpen, PublishDHCP, GoTo, sessions,
        StopPcs
  <2>7. Silence'
    BY <1>8, <1>types
    DEF Alone, OneHand, Silence, Silenced, OwnedIsOpen, PublishDHCP, GoTo,
        sessions, StopPcs
  <2>. QED
    BY <2>2, <2>3, <2>4, <2>5, <2>6, <2>7 DEF Order
<1>9. CASE CheckResolver(c)
  <2>1. \A d \in Callers : InHand(d)' = InHand(d)
    BY <1>9, <1>types
    DEF Shapes, InHand, CheckResolver, GoTo, Nothing, StartPcs, StopPcs, Gateway
  <2>2. Alone' /\ OneHand' /\ Shapes'
    BY <1>9, <1>types DEF Alone, OneHand, Shapes, InHand, CheckResolver, GoTo, StopPcs
  <2>3. UpInHand'
    BY <1>9, <2>1, <1>types DEF UpInHand, CheckResolver, GoTo, sessions, sockets, StopPcs
  <2>4. CaptureKnown'
    BY <1>9, <2>1, <1>types
    DEF CaptureKnown, CheckResolver, GoTo, sessions, sockets, StopPcs
  <2>5. Watching'
    BY <1>9, <2>1, <1>types
    DEF OneHand, Watching, Running, CallsHaveSessions, CheckResolver, GoTo,
        sessions, StartPcs
  <2>6. PortHeld' /\ Silence'
    BY <1>9, <1>types
    DEF Shapes, PortHeld, Silence, InHand, Silenced, CheckResolver, GoTo,
        sessions, sockets, StopPcs
  <2>. QED
    BY <2>2, <2>3, <2>4, <2>5, <2>6 DEF Order
<1>10. CASE SwitchOn(c)
  <2>1. \A d \in Callers : InHand(d)' = InHand(d)
    BY <1>10, <1>types
    DEF Shapes, InHand, SwitchOn, GoTo, Nothing, StartPcs, StopPcs, Gateway
  <2>2. Alone' /\ OneHand' /\ Shapes'
    BY <1>10, <1>types DEF Alone, OneHand, Shapes, InHand, SwitchOn, GoTo, StopPcs
  <2>3. UpInHand'
    BY <1>10, <2>1, <1>types DEF OneHand, Shapes, UpInHand, SwitchOn, GoTo, StopPcs
  <2>4. CaptureKnown'
    BY <1>10, <2>1, <1>types DEF OneHand, Shapes, CaptureKnown, SwitchOn, GoTo, StopPcs
  <2>5. Watching'
    BY <1>10, <2>1, <1>types
    DEF OneHand, Watching, Running, CallsHaveSessions, SwitchOn, GoTo, StartPcs
  <2>6. PortHeld' /\ Silence'
    BY <1>10, <1>types
    DEF Shapes, PortHeld, Silence, InHand, Silenced, SwitchOn, GoTo, sockets,
        StopPcs
  <2>. QED
    BY <2>2, <2>3, <2>4, <2>5, <2>6 DEF Order
<1>11. CASE ReadStop(c)
  <2>1. \A d \in Callers : InHand(d)' = InHand(d)
    BY <1>11, <1>types
    DEF Shapes, InHand, ReadStop, GoTo, Nothing, StartPcs, StopPcs, Gateway
  <2>2. Alone' /\ OneHand' /\ Shapes'
    BY <1>11, <1>types
    DEF Alone, OneHand, Shapes, InHand, ReadStop, GoTo, Nothing, StopPcs
  <2>3. UpInHand'
    BY <1>11, <2>1, <1>types
    DEF OneHand, Shapes, UpInHand, ReadStop, GoTo, sessions, Nothing, StopPcs
  <2>4. CaptureKnown'
    BY <1>11, <2>1, <1>types
    DEF OneHand, Shapes, CaptureKnown, ReadStop, GoTo, sessions, Nothing, StopPcs
  <2>5. Watching'
    BY <1>11, <2>1, <1>types
    DEF OneHand, Watching, Running, CallsHaveSessions, ReadStop, GoTo, sessions,
        StartPcs
  <2>6. PortHeld' /\ Silence'
    BY <1>11, <1>types
    DEF Shapes, PortHeld, Silence, InHand, Silenced, ReadStop, GoTo, sessions,
        sockets, StopPcs
  <2>. QED
    BY <2>2, <2>3, <2>4, <2>5, <2>6 DEF Order
<1>12. CASE Spawn(c)
  <2>1. \A d \in Callers : InHand(d)' = InHand(d)
    BY <1>12, <1>types
    DEF Shapes, InHand, Spawn, Return, GoTo, Nothing, StartPcs, StopPcs, Gateway
  <2>2. Alone' /\ OneHand' /\ Shapes'
    BY <1>12, <1>types
    DEF Alone, OneHand, Shapes, Matching, InHand, Spawn, Return, GoTo, Nothing,
        StartPcs
  <2>3. UpInHand'
    BY <1>12, <2>1, <1>types
    DEF OneHand, UpInHand, CallsHaveSessions, Spawn, Return, GoTo, sessions,
        Nothing, StopPcs
  <2>4. CaptureKnown'
    BY <1>12, <2>1, <1>types
    DEF OneHand, CaptureKnown, CallsHaveSessions, Spawn, Return, GoTo, sessions,
        Nothing, StopPcs
  <2>5. Watching'
    BY <1>12, <2>1, <1>types
    DEF Alone, OneHand, Shapes, Watching, Matching, Running, Spawn, Return, GoTo,
        sessions, WatcherAt, StartPcs
  <2>6. PortHeld' /\ Silence'
    BY <1>12, <1>types
    DEF Shapes, PortHeld, Silence, InHand, Silenced, Spawn, Return, GoTo,
        sessions, sockets, StopPcs
  <2>. QED
    BY <2>2, <2>3, <2>4, <2>5, <2>6 DEF Order
<1>13. CASE CloseStop(c)
  <2>1. /\ \A d \in Callers : InHand(d)' = InHand(d)
        /\ pc[c] = "closingStop" /\ pc' = [pc EXCEPT ![c] = "waiting"]
    BY <1>13, <1>types
    DEF Shapes, InHand, CloseStop, GoTo, Nothing, StartPcs, StopPcs, Gateway
  <2>2. Alone' /\ OneHand' /\ Shapes'
    BY <1>13, <1>types
    DEF Alone, OneHand, Shapes, InHand, CloseStop, GoTo, StartPcs, StopPcs
  <2>3. UpInHand'
    BY <1>13, <2>1, <1>types DEF UpInHand, CloseStop, GoTo, sessions, StopPcs
  <2>4. CaptureKnown'
    BY <1>13, <2>1, <1>types DEF CaptureKnown, CloseStop, GoTo, sessions, StopPcs
  <2>5. Watching'
    <3>0. \A i \in Ids :
               /\ i \in Running =>
                     /\ watcher[i].stop = i
                     /\ \/ gw.session = i /\ \A d \in Callers : pc[d] \notin StartPcs
                        \/ \E d \in Callers : pc[d] \in {"closingStop", "waiting"} /\ InHand(d) = i
               /\ gw.session = i /\ (\A d \in Callers : pc[d] \notin StartPcs) => i \in Running
               /\ i \in closed =>
                     /\ platform[i] # "none" /\ gw.session # i
                     /\ \A d \in Callers : pc[d] = "publishing" => mine[d] # i
      BY <1>types DEF Watching
    <3>1. \A i \in Ids : i = took[c].stop => InHand(c) = i
      BY <1>13, <2>1, <1>types DEF Shapes, Matching, InHand, CloseStop, StopPcs
    <3>2. /\ UNCHANGED <<gw, mine, watcher, platform>>
          /\ closed' = closed \cup ({took[c].stop} \ {None})
      BY <1>13 DEF CloseStop, sessions
    <3>3. \A i \in Ids : (\E d \in Callers : pc[d] \in {"closingStop", "waiting"} /\ InHand(d) = i) =>
             \E d \in Callers : pc'[d] \in {"closingStop", "waiting"} /\ InHand(d)' = i
      BY <2>1, <1>types
    <3>4. \A d \in Callers :
             /\ pc'[d] \in StartPcs <=> pc[d] \in StartPcs
             /\ pc'[d] = "publishing" => pc[d] = "publishing" /\ d # c
      BY <2>1, <1>types DEF StartPcs
    <3>5. \A i \in Ids : InHand(c) = i =>
             /\ platform[i] # "none" /\ gw.session # i
             /\ \A d \in Callers : pc[d] = "publishing" => mine[d] # i
      BY <2>1, <1>types DEF OneHand, UpInHand, InHand
    <3>6. Running' = Running
      BY <3>2 DEF Running
    <3>7. ASSUME NEW i \in Ids, i \in Running
          PROVE  /\ watcher'[i].stop = i
                 /\ \/ gw'.session = i /\ \A d \in Callers : pc'[d] \notin StartPcs
                    \/ \E d \in Callers : pc'[d] \in {"closingStop", "waiting"} /\ InHand(d)' = i
      BY <3>0, <3>2, <3>3, <3>4, <3>7
    <3>8. ASSUME NEW i \in Ids, gw.session = i, \A d \in Callers : pc'[d] \notin StartPcs
          PROVE  i \in Running
      BY <3>0, <3>4, <3>8
    <3>9. ASSUME NEW i \in closed', i \in Ids
          PROVE  /\ platform[i] # "none" /\ gw.session # i
                 /\ \A d \in Callers : pc'[d] = "publishing" => mine[d] # i
      BY <3>0, <3>1, <3>2, <3>4, <3>5, <3>9
    <3>. QED
      BY <3>2, <3>6, <3>7, <3>8, <3>9 DEF Watching
  <2>6. PortHeld' /\ Silence'
    BY <1>13, <1>types
    DEF PortHeld, Silence, InHand, Undrained, Silenced, CloseStop, GoTo, sessions,
        sockets, StopPcs
  <2>. QED
    BY <2>2, <2>3, <2>4, <2>5, <2>6 DEF Order
<1>14. CASE WaitForWatchers(c)
  <2>1. \A d \in Callers : InHand(d)' = InHand(d)
    BY <1>14, <1>types
    DEF Shapes, InHand, WaitForWatchers, GoTo, Nothing, StartPcs, StopPcs, Gateway
  <2>2. Alone' /\ OneHand' /\ Shapes'
    BY <1>14, <1>types
    DEF Alone, OneHand, Shapes, InHand, WaitForWatchers, GoTo, StartPcs, StopPcs
  <2>3. UpInHand'
    BY <1>14, <2>1, <1>types
    DEF UpInHand, CallsHaveSessions, WaitForWatchers, GoTo, sessions, StopPcs
  <2>4. CaptureKnown'
    BY <1>14, <2>1, <1>types
    DEF CaptureKnown, CallsHaveSessions, WaitForWatchers, GoTo, sessions, StopPcs
  <2>5. Watching'
    BY <1>14, <2>1, <1>types
    DEF Watching, Running, WaitForWatchers, GoTo, sessions, StartPcs
  <2>6. PortHeld' /\ Silence'
    BY <1>14, <1>types
    DEF PortHeld, Silence, InHand, Undrained, Silenced, WaitForWatchers, GoTo,
        sessions, sockets, StopPcs
  <2>. QED
    BY <2>2, <2>3, <2>4, <2>5, <2>6 DEF Order
<1>15. CASE TellServer(c)
  <2>1. \A d \in Callers : InHand(d)' = InHand(d)
    BY <1>15, <1>types
    DEF Shapes, InHand, TellServer, GoTo, Nothing, StartPcs, StopPcs, Gateway
  <2>2. Alone' /\ OneHand' /\ Shapes'
    BY <1>15, <1>types
    DEF Alone, OneHand, Shapes, InHand, TellServer, GoTo, StartPcs, StopPcs
  <2>3. UpInHand'
    BY <1>15, <2>1, <1>types DEF UpInHand, TellServer, GoTo, sessions, StopPcs
  <2>4. CaptureKnown'
    BY <1>15, <2>1, <1>types DEF CaptureKnown, TellServer, GoTo, sessions, StopPcs
  <2>5. Watching'
    BY <1>15, <2>1, <1>types DEF Watching, Running, TellServer, GoTo, sessions, StartPcs
  <2>6. PortHeld' /\ Silence'
    BY <1>15, <1>types
    DEF Shapes, PortHeld, Silence, Matching, InHand, Undrained, Silenced,
        CallsHaveSessions, TellServer, GoTo, sessions
  <2>. QED
    BY <2>2, <2>3, <2>4, <2>5, <2>6 DEF Order
<1>16. CASE Drained(c)
  <2>1. \A d \in Callers : InHand(d)' = InHand(d)
    BY <1>16, <1>types
    DEF Shapes, InHand, Drained, CloseSocket, GoTo, Nothing, StartPcs, StopPcs,
        Gateway
  <2>2. Alone' /\ OneHand' /\ Shapes'
    BY <1>16, <1>types
    DEF Alone, OneHand, Shapes, InHand, Drained, CloseSocket, GoTo, StartPcs,
        StopPcs
  <2>3. UpInHand'
    BY <1>16, <2>1, <1>types DEF UpInHand, Drained, CloseSocket, GoTo, sessions, StopPcs
  <2>4. CaptureKnown'
    BY <1>16, <2>1, <1>types
    DEF CaptureKnown, Drained, CloseSocket, GoTo, sessions, StopPcs
  <2>5. Watching'
    BY <1>16, <2>1, <1>types
    DEF Watching, Running, Drained, CloseSocket, GoTo, sessions, StartPcs
  <2>6. PortHeld' /\ Silence'
    BY <1>16, <1>types
    DEF OneHand, Shapes, PortHeld, Silence, Matching, InHand, Silenced, Drained,
        CloseSocket, GoTo, sessions, StartPcs
  <2>. QED
    BY <2>2, <2>3, <2>4, <2>5, <2>6 DEF Order
<1>17. CASE ShutdownExpires(c)
  <2>1. \A d \in Callers : InHand(d)' = InHand(d)
    BY <1>17, <1>types
    DEF Shapes, InHand, ShutdownExpires, CloseSocket, GoTo, Nothing, StartPcs,
        StopPcs, Gateway
  <2>2. Alone' /\ OneHand' /\ Shapes'
    BY <1>17, <1>types
    DEF Alone, OneHand, Shapes, InHand, ShutdownExpires, CloseSocket, GoTo,
        StartPcs, StopPcs
  <2>3. UpInHand'
    BY <1>17, <2>1, <1>types
    DEF Alone, UpInHand, ShutdownExpires, CloseSocket, GoTo, sessions, StartPcs,
        StopPcs
  <2>4. CaptureKnown'
    BY <1>17, <2>1, <1>types
    DEF Alone, CaptureKnown, ShutdownExpires, CloseSocket, GoTo, sessions,
        StartPcs, StopPcs
  <2>5. Watching'
    BY <1>17, <2>1, <1>types
    DEF Watching, Running, ShutdownExpires, CloseSocket, GoTo, sessions, StartPcs
  <2>6. PortHeld' /\ Silence'
    BY <1>17, <1>types
    DEF OneHand, Shapes, PortHeld, Silence, Matching, InHand, Silenced,
        ShutdownExpires, CloseSocket, GoTo, sessions, StartPcs
  <2>. QED
    BY <2>2, <2>3, <2>4, <2>5, <2>6 DEF Order
<1>18. CASE BeginClose(c)
  <2>1. /\ \A d \in Callers : InHand(d)' = InHand(d)
        /\ InHand(c) = took[c].session /\ UNCHANGED gw
    BY <1>18, <1>types
    DEF Shapes, InHand, BeginClose, GoTo, Nothing, StartPcs, StopPcs, Gateway
  <2>2. Alone' /\ OneHand' /\ Shapes'
    BY <1>18, <1>types
    DEF Alone, OneHand, Shapes, InHand, BeginClose, GoTo, StartPcs, StopPcs
  <2>3. UpInHand'
    BY <1>18, <2>1, <1>types DEF Alone, UpInHand, BeginClose, GoTo, StartPcs, StopPcs
  <2>4. CaptureKnown'
    BY <1>18, <2>1, <1>types DEF Alone, CaptureKnown, BeginClose, GoTo, StartPcs, StopPcs
  <2>5. Watching'
    BY <1>18, <2>1, <1>types DEF Watching, Running, BeginClose, GoTo, StartPcs
  <2>6. PortHeld' /\ Silence'
    BY <1>18, <1>types
    DEF PortHeld, Silence, InHand, Undrained, Silenced, BeginClose, GoTo, sockets,
        StopPcs
  <2>. QED
    BY <2>2, <2>3, <2>4, <2>5, <2>6 DEF Order
<1>19. CASE EndClose(c)
  <2>1. /\ \A d \in Callers : InHand(d)' = IF d = c THEN None ELSE InHand(d)
        /\ InHand(c) = took[c].session /\ UNCHANGED gw
    BY <1>19, <1>types
    DEF Shapes, InHand, EndClose, Return, GoTo, Nothing, StartPcs, StopPcs,
        Gateway
  <2>2. Alone' /\ OneHand' /\ Shapes'
    BY <1>19, <1>types
    DEF Alone, OneHand, Shapes, Matching, InHand, EndClose, Return, GoTo, Nothing,
        StartPcs
  <2>3. UpInHand'
    BY <1>19, <2>1, <1>types
    DEF OneHand, UpInHand, EndClose, Return, GoTo, sockets, Nothing, StopPcs
  <2>4. CaptureKnown'
    BY <1>19, <2>1, <1>types
    DEF OneHand, CaptureKnown, EndClose, Return, GoTo, sockets, Nothing, StopPcs
  <2>5. Watching'
    <3>1. UNCHANGED <<gw, closed, watcher>> /\ pc[c] = "undoing" /\ pc' = [pc EXCEPT ![c] = "idle"]
      BY <1>19 DEF EndClose, Return, GoTo
    <3>2. \A i \in Ids : platform[i] # "none" => platform'[i] # "none"
      BY <1>19, <1>types DEF EndClose
    <3>3. \A d \in Callers :
             /\ pc'[d] \in StartPcs <=> pc[d] \in StartPcs
             /\ pc'[d] = "publishing" => pc[d] = "publishing" /\ mine'[d] = mine[d]
             /\ pc[d] \in {"closingStop", "waiting"} =>
                   /\ pc'[d] \in {"closingStop", "waiting"}
                   /\ InHand(d)' = InHand(d)
      BY <1>19, <2>1, <3>1, <1>types DEF EndClose, Return, StartPcs
    <3>4. Running' = Running
      BY <3>1 DEF Running
    <3>. QED
      BY <3>1, <3>2, <3>3, <3>4, <1>types DEF Watching
  <2>6. PortHeld' /\ Silence'
    BY <1>19, <1>types
    DEF PortHeld, Silence, InHand, Undrained, Silenced, EndClose, Return, GoTo,
        sockets, StopPcs
  <2>. QED
    BY <2>2, <2>3, <2>4, <2>5, <2>6 DEF Order
<1>20. CASE NothingToClose(c)
  <2>1. /\ \A d \in Callers : InHand(d)' = InHand(d)
        /\ InHand(c) = None
    BY <1>20, <1>types
    DEF Shapes, InHand, NothingToClose, Return, GoTo, Nothing, StartPcs, StopPcs,
        Gateway
  <2>2. Alone' /\ OneHand' /\ Shapes'
    BY <1>20, <1>types
    DEF Alone, OneHand, Shapes, Matching, InHand, NothingToClose, Return, GoTo,
        Nothing, StartPcs
  <2>3. UpInHand'
    BY <1>20, <2>1, <1>types
    DEF OneHand, UpInHand, NothingToClose, Return, GoTo, sessions, sockets,
        Nothing, StartPcs
  <2>4. CaptureKnown'
    BY <1>20, <2>1, <1>types
    DEF OneHand, CaptureKnown, NothingToClose, Return, GoTo, sessions, sockets,
        Nothing, StartPcs
  <2>5. Watching'
    BY <1>20, <2>1, <1>types
    DEF OneHand, Watching, Running, NothingToClose, Return, GoTo, sessions,
        sockets, NoWish, StartPcs
  <2>6. PortHeld' /\ Silence'
    BY <1>20, <1>types
    DEF Shapes, PortHeld, Silence, Matching, InHand, Silenced, NothingToClose,
        Return, GoTo, sessions, sockets, StopPcs
  <2>. QED
    BY <2>2, <2>3, <2>4, <2>5, <2>6 DEF Order
<1>. QED
  BY <1>1, <1>2, <1>3, <1>4, <1>5, <1>6, <1>7, <1>8, <1>9, <1>10, <1>11, <1>12, <1>13,
      <1>14, <1>15, <1>16, <1>17, <1>18, <1>19, <1>20
  DEF StartStep, StopStep

\* A watcher looks after the session it was started for until its channel is
\* closed, and only ever takes capture away.
LEMMA OrderWatchers ==
  ASSUME Inv, Order, NEW i \in Ids, WatcherStops(i) \/ WatcherStep(i)
  PROVE  Order'
<1>types. /\ watcher \in [Ids -> Watcher] /\ None \notin Ids
          /\ Alone /\ OneHand /\ Shapes /\ UpInHand
          /\ Watching /\ PortHeld /\ Silence /\ CaptureKnown
  BY DEF Inv, TypeOK, None, Ids, Order
<1>1. /\ UNCHANGED <<gw, calls, platform, closed, sockets, healthy, overlapped>>
      /\ capture' \subseteq capture
  BY DEF WatcherStep, WatcherStops, WatcherTicks, WatcherChecks, WatcherWithdraws, unwatched
<1>2. Alone' /\ OneHand' /\ Shapes' /\ UpInHand'
  BY <1>1, <1>types DEF Alone, OneHand, Shapes, Matching, UpInHand, InHand, calls
<1>3. PortHeld' /\ Silence' /\ CaptureKnown'
  BY <1>1, <1>types
  DEF PortHeld, Silence, Silenced, CaptureKnown, InHand, calls, sockets
<1>4. /\ \A j \in Ids \ {i} : watcher'[j] = watcher[j]
      /\ watcher'[i].pc \notin {"none", "done"} =>
            i \in Running /\ watcher'[i].stop = watcher[i].stop
      /\ watcher'[i].pc \in {"none", "done"} => watcher[i].stop \in closed
  <2>0. watcher[i] \in Watcher
    BY <1>types
  <2>1. CASE WatcherStops(i)
    BY <1>types, <2>1 DEF WatcherStops, WatcherAt
  <2>2. CASE WatcherTicks(i)
    BY <1>types, <2>0, <2>2 DEF WatcherTicks, Running, Watcher
  <2>3. CASE WatcherChecks(i)
    <3>1. watcher'[i].pc \in {"select", "withdraw"} /\ watcher'[i].stop = watcher[i].stop
      <4>1. \A f \in 0..1 : watcher' = [watcher EXCEPT ![i] = Selecting(@, f)] =>
               watcher'[i].pc = "select" /\ watcher'[i].stop = watcher[i].stop
        BY <1>types DEF Selecting
      <4>2. watcher' = [watcher EXCEPT ![i] = [@ EXCEPT !.pc = "withdraw", !.failures = 0]] =>
               watcher'[i].pc = "withdraw" /\ watcher'[i].stop = watcher[i].stop
        BY <1>types, <2>0 DEF Watcher
      <4>. QED
        BY <2>3, <4>1, <4>2 DEF WatcherChecks
    <3>2. watcher[i].pc = "check" /\ \A j \in Ids \ {i} : watcher'[j] = watcher[j]
      BY <1>types, <2>3 DEF WatcherChecks
    <3>. QED
      BY <3>1, <3>2 DEF Running
  <2>4. CASE WatcherWithdraws(i)
    BY <1>types, <2>4 DEF WatcherWithdraws, Selecting, Running
  <2>. QED
    BY <2>1, <2>2, <2>3, <2>4 DEF WatcherStep
<1>5. Watching'
  <2>1. i \in Running /\ watcher[i].stop \in closed => gw.session # i
    BY <1>types DEF Watching
  <2>2. \A j \in Ids : j \in Running' => j \in Running /\ watcher'[j].stop = watcher[j].stop
    BY <1>4 DEF Running
  <2>3. \A j \in Ids : j \in Running /\ gw.session = j => j \in Running'
    BY <1>4, <2>1 DEF Running
  <2>. QED
    BY <1>1, <1>types, <2>2, <2>3 DEF Watching, InHand, calls
<1>. QED
  BY <1>2, <1>3, <1>5 DEF Order

\* A server that has been told to stop does not begin to read.
LEMMA OrderServers ==
  ASSUME Inv, Order, NEW i \in Ids,
         \/ ServeBegins(i) \/ ServeRefused(i) \/ Receive(i) \/ Handled(i)
         \/ ServeEnds(i) \/ ReadFails(i)
  PROVE  Order'
<1>types. /\ server \in [Ids -> {"none", "spawned", "reading", "handling", "ended"}]
          /\ Alone /\ OneHand /\ Shapes /\ UpInHand
          /\ Watching /\ PortHeld /\ Silence /\ CaptureKnown
  BY DEF Inv, TypeOK, Order
<1>1. /\ UNCHANGED <<gw, calls, sessions, closed, watcher, port, told, expired>>
      /\ \A j \in Ids : server[j] = "none" <=> server'[j] = "none"
      /\ \A j \in Ids : Silenced(j) => Silenced(j)'
  BY <1>types
  DEF ServeBegins, ServeRefused, Receive, Handled, ServeEnds, ReadFails, Serving, Silenced
<1>2. Alone' /\ OneHand' /\ Shapes' /\ UpInHand' /\ Watching' /\ PortHeld' /\ CaptureKnown'
  BY <1>1, <1>types
  DEF Alone, OneHand, Shapes, Matching, UpInHand, Watching, Running, PortHeld,
      CaptureKnown, InHand, calls, sessions
<1>3. Silence'
  BY <1>1, <1>types DEF Silence, InHand, calls, sessions
<1>. QED
  BY <1>2, <1>3 DEF Order

\* Every step keeps the order, or overlaps.
LEMMA OrderStep == ASSUME SerialInv, [Next]_vars PROVE ~overlapped' => Order'
<1>. SUFFICES ASSUME ~overlapped' PROVE Order'
  OBVIOUS
<1>1. CASE \E c \in Callers :
              \/ \E s \in [managed : BOOLEAN, capture : BOOLEAN] : StartCall(c, s)
              \/ StopCall(c) \/ StartStep(c) \/ StopStep(c)
  <2>. PICK c \in Callers :
            \/ \E s \in [managed : BOOLEAN, capture : BOOLEAN] : StartCall(c, s)
            \/ StopCall(c) \/ StartStep(c) \/ StopStep(c)
    BY <1>1
  <2>1. ~overlapped
    <3>1. ASSUME NEW s \in [managed : BOOLEAN, capture : BOOLEAN], StartCall(c, s)
          PROVE  ~overlapped
      BY <3>1, Zenon DEF StartCall
    <3>2. CASE StopCall(c)
      BY <3>2, Zenon DEF StopCall
    <3>3. CASE StartStep(c)
      <4>1. overlapped' = overlapped
        BY <3>3
        DEF StartStep, StartRefused, PlatformStart, Publish, Listen, ListenFails,
            PublishDHCP, CheckResolver, SwitchOn, ReadStop, Spawn
      <4>. QED
        BY <4>1, Zenon
    <3>4. CASE StopStep(c)
      <4>1. overlapped' = overlapped
        BY <3>4
        DEF StopStep, CloseStop, WaitForWatchers, TellServer, Drained, ShutdownExpires,
            CloseSocket, BeginClose, EndClose, NothingToClose
      <4>. QED
        BY <4>1, Zenon
    <3>. QED
      BY <3>1, <3>2, <3>3, <3>4
  <2>. QED
    BY <2>1, OrderCalls, Zenon DEF SerialInv
<1>2. CASE \E i \in Ids : WatcherStops(i) \/ WatcherStep(i)
  <2>1. ~overlapped
    BY <1>2, Zenon
    DEF WatcherStops, WatcherStep, WatcherTicks, WatcherChecks, WatcherWithdraws, unwatched
  <2>. QED
    BY <1>2, <2>1, OrderWatchers DEF SerialInv
<1>3. CASE \E i \in Ids :
              \/ ServeBegins(i) \/ ServeRefused(i) \/ Receive(i) \/ Handled(i)
              \/ ServeEnds(i) \/ ReadFails(i)
  <2>1. ~overlapped
    BY <1>3, Zenon
    DEF ServeBegins, ServeRefused, Receive, Handled, ServeEnds, ReadFails, Serving
  <2>. QED
    BY <1>3, <2>1, OrderServers DEF SerialInv
<1>4. CASE ResolverChanges \/ UNCHANGED vars
  <2>1. UNCHANGED <<gw, calls, sessions, closed, watcher, sockets, overlapped>>
    BY <1>4 DEF ResolverChanges, vars
  <2>2. Order
    BY <2>1, Zenon DEF SerialInv
  <2>. QED
    BY <2>1, <2>2
    DEF Order, Alone, OneHand, Shapes, Matching, UpInHand, Watching, Running, PortHeld,
        Silence, Silenced, CaptureKnown, InHand, calls, sessions, sockets
<1>. QED
  BY <1>1, <1>2, <1>3, <1>4 DEF Next

\* Sessions that nobody overlaps are in order for ever.
THEOREM SerialInvariant == Spec => []SerialInv
<1>1. Init => SerialInv
  <2>1. Init => Order
    BY DEF Init, Order, Alone, OneHand, Shapes, Matching, UpInHand, Watching, Running,
           PortHeld, Silence, Silenced, CaptureKnown, InHand, Nothing, WatcherAt, Ids,
           None, StartPcs, StopPcs
  <2>. QED
    BY <2>1, InvInit DEF SerialInv
<1>2. SerialInv /\ [Next]_vars => SerialInv'
  <2>1. Inv /\ [Next]_vars => Inv'
    BY TypeStep, OwnershipStep DEF Inv, Ownership
  <2>. QED
    BY <2>1, OrderStep DEF SerialInv
<1>. QED
  BY <1>1, <1>2, PTL DEF Spec

\* When all calls have returned, everything that is up is one session's, and
\* without a session nothing is.
THEOREM NothingIsLeft == Spec => []NothingLeft
<1>1. SerialInv => NothingLeft
  <2>. SUFFICES ASSUME SerialInv, ~overlapped, \A c \in Callers : pc[c] = "idle"
                PROVE  NothingLeft
    BY DEF NothingLeft
  <2>1. Order /\ TypeOK
    BY DEF SerialInv, Inv
  <2>2. \A c \in Callers : pc[c] \notin StartPcs \cup StopPcs /\ InHand(c) = None
    BY <2>1 DEF Order, Shapes, InHand, StartPcs, StopPcs
  <2>3. \A i \in Ids : platform[i] \in {"open", "closing"} <=> i = gw.session
    BY <2>1, <2>2 DEF Order, UpInHand, Ids, None
  <2>4. \A i \in Ids : /\ i \in Running <=> i = gw.session
                       /\ i \in Running => watcher[i].stop = i
    BY <2>1, <2>2 DEF Order, Watching, StopPcs
  <2>5. Running \subseteq Ids /\ gw.session \in Ids \cup {None} /\ None \notin Ids
    BY <2>1 DEF TypeOK, Gateway, Running, Ids, None
  <2>6. gw.stop = gw.session /\ gw.dhcp \in {None, gw.session} /\ gw.stop \notin closed
    BY <2>1, <2>5 DEF Order, Shapes, Matching, Watching, TypeOK
  <2>7. port = gw.dhcp
    BY <2>1, <2>2 DEF Order, PortHeld, Undrained, StartPcs, StopPcs
  <2>8. Running = {gw.session} \ {None}
    BY <2>4, <2>5
  <2>. QED
    BY <2>3, <2>4, <2>5, <2>6, <2>7, <2>8 DEF NothingLeft
<1>. QED
  BY SerialInvariant, <1>1, PTL

\* Where DNS is captured, a watcher watches, is about to be started, or a
\* StopGateway has the session.
THEOREM CaptureIsWatched == Spec => []CaptureWatched
<1>1. SerialInv => CaptureWatched
  <2>. SUFFICES ASSUME SerialInv, ~overlapped, NEW i \in capture
                PROVE  \/ /\ gw.session = i /\ gw.capturing
                          /\ \/ i \in Running
                             \/ \E c \in Callers : mine[c] = i /\ pc[c] \in StartPcs
                       \/ \E c \in Callers : took[c].session = i /\ pc[c] \in StopPcs
    BY DEF CaptureWatched
  <2>1. Order /\ i \in Ids /\ None \notin Ids
    BY DEF SerialInv, Inv, TypeOK, Ids, None
  <2>2. CASE gw.session = i /\ gw.capturing
    BY <2>1, <2>2 DEF Order, OneHand, Watching
  <2>3. CASE \E c \in Callers : pc[c] \in StopPcs /\ InHand(c) = i
    BY <2>3 DEF InHand, StopPcs
  <2>. QED
    BY <2>1, <2>2, <2>3 DEF Order, CaptureKnown
<1>. QED
  BY SerialInvariant, <1>1, PTL

\* Nobody is served on a network that is being taken down.
THEOREM ServersAreSilent == Spec => []SilentBeforeClosed
<1>1. SerialInv => SilentBeforeClosed
  BY DEF SerialInv, Order, Silence, Silenced, SilentBeforeClosed
<1>. QED
  BY SerialInvariant, <1>1, PTL

-----------------------------------------------------------------------------
(* Waiting.  StopGateway waits for the watchers, and Server.Close for the      *)
(* read loop; everything else goes on by itself.                               *)

\* A StopGateway that waits for the watchers has closed the channel it took, and
\* one that waits for the read loop has told it.
Signalled ==
    \A c \in Callers :
        /\ pc[c] = "waiting" => took[c].stop \in closed \cup {None}
        /\ pc[c] = "draining" => took[c].dhcp \in told

\* From the moment a StopGateway takes what the gateway has, until it returns,
\* the gateway has no session.
Emptied == \A c \in Callers : pc[c] \in StopPcs => gw.session = None

\* Who is waited for need not wait: every watcher hears a channel that is closed,
\* or that another StopGateway, which waits for nobody yet, closes next; no other
\* watcher will be started meanwhile; and the read loop has been told to end.
WaitsEnd ==
    \A c \in Callers :
        /\ pc[c] = "waiting" /\ ~overlapped =>
              /\ gw.session = None /\ \A d \in Callers : pc[d] \notin StartPcs
              /\ \A i \in Running :
                    \/ watcher[i].stop \in closed
                    \/ \E d \in Callers :
                          pc[d] = "closingStop" /\ took[d].stop = watcher[i].stop
        /\ pc[c] = "draining" => took[c].dhcp \in told

WaitInv == SerialInv /\ Signalled /\ (~overlapped => Emptied)

\* Signals are given before they are waited for, and never taken back.
LEMMA SignalledStep == ASSUME TypeOK, Signalled, [Next]_vars PROVE Signalled'
<1>types. pc \in [Callers -> {"idle"} \cup StartPcs \cup StopPcs] /\ took \in [Callers -> Gateway]
  BY DEF TypeOK
<1>0. ASSUME NEW c \in Callers, closed \subseteq closed', told \subseteq told',
             \A d \in Callers \ {c} : pc'[d] = pc[d] /\ took'[d] = took[d],
             pc'[c] = "waiting" => took'[c].stop \in closed' \cup {None},
             pc'[c] = "draining" => took'[c].dhcp \in told'
      PROVE  Signalled'
  BY <1>0 DEF Signalled
<1>1. ASSUME NEW c \in Callers, NEW s \in [managed : BOOLEAN, capture : BOOLEAN],
             StartCall(c, s)
      PROVE  Signalled'
  BY <1>0, <1>1, <1>types DEF StartCall, GoTo, sockets
<1>2. ASSUME NEW c \in Callers, StopCall(c) \/ ListenFails(c) PROVE Signalled'
  BY <1>0, <1>2, <1>types DEF StopCall, ListenFails, Take, GoTo, sockets
<1>3. ASSUME NEW c \in Callers, StartRefused(c) \/ Spawn(c) PROVE Signalled'
  BY <1>0, <1>3, <1>types DEF StartRefused, Spawn, Return, GoTo, sockets
<1>4. ASSUME NEW c \in Callers, Publish(c) \/ PlatformStart(c) \/ CheckResolver(c) \/ SwitchOn(c)
      PROVE  Signalled'
  BY <1>0, <1>4, <1>types DEF Publish, PlatformStart, CheckResolver, SwitchOn, GoTo, sockets
<1>5. ASSUME NEW c \in Callers, Listen(c) \/ PublishDHCP(c) \/ ReadStop(c) PROVE Signalled'
  BY <1>0, <1>5, <1>types DEF Listen, PublishDHCP, ReadStop, GoTo, sockets
<1>6. ASSUME NEW c \in Callers, CloseStop(c) PROVE Signalled'
  BY <1>0, <1>6, <1>types DEF CloseStop, GoTo, sockets
<1>7. ASSUME NEW c \in Callers, TellServer(c) PROVE Signalled'
  BY <1>0, <1>7, <1>types DEF TellServer, GoTo
<1>8. ASSUME NEW c \in Callers, WaitForWatchers(c) PROVE Signalled'
  BY <1>0, <1>8, <1>types DEF WaitForWatchers, GoTo, sockets
<1>9. ASSUME NEW c \in Callers, Drained(c) \/ ShutdownExpires(c) PROVE Signalled'
  BY <1>0, <1>9, <1>types DEF Drained, ShutdownExpires, CloseSocket, GoTo
<1>10. ASSUME NEW c \in Callers, BeginClose(c) PROVE Signalled'
  BY <1>0, <1>10, <1>types DEF BeginClose, GoTo, sockets
<1>11. ASSUME NEW c \in Callers, EndClose(c) \/ NothingToClose(c) PROVE Signalled'
  BY <1>0, <1>11, <1>types DEF EndClose, NothingToClose, Return, GoTo, sockets
<1>12. ASSUME \/ \E i \in Ids : WatcherStops(i) \/ WatcherStep(i)
              \/ \E i \in Ids : \/ ServeBegins(i) \/ ServeRefused(i) \/ Receive(i)
                                \/ Handled(i) \/ ServeEnds(i) \/ ReadFails(i)
              \/ ResolverChanges \/ UNCHANGED vars
       PROVE  Signalled'
  <2>1. UNCHANGED <<pc, took, closed, told>>
    BY <1>12
    DEF WatcherStops, WatcherStep, WatcherTicks, WatcherChecks, WatcherWithdraws, unwatched,
        ServeBegins, ServeRefused, Receive, Handled, ServeEnds, ReadFails, Serving,
        ResolverChanges, vars, calls, sockets
  <2>. QED
    BY <2>1 DEF Signalled
<1>. QED
  BY <1>1, <1>2, <1>3, <1>4, <1>5, <1>6, <1>7, <1>8, <1>9, <1>10, <1>11, <1>12
  DEF Next, StartStep, StopStep

\* Nobody publishes a session beside a StopGateway, unless calls overlap.
LEMMA EmptiedStep ==
    ASSUME WaitInv, [Next]_vars, ~overlapped'
    PROVE  Emptied'
<1>types. pc \in [Callers -> {"idle"} \cup StartPcs \cup StopPcs] /\ gw \in Gateway
  BY DEF WaitInv, SerialInv, Inv, TypeOK
<1>1. CASE \E c \in Callers :
              \/ \E s \in [managed : BOOLEAN, capture : BOOLEAN] : StartCall(c, s)
              \/ StopCall(c) \/ StartStep(c) \/ StopStep(c)
  <2>. PICK c \in Callers :
            \/ \E s \in [managed : BOOLEAN, capture : BOOLEAN] : StartCall(c, s)
            \/ StopCall(c) \/ StartStep(c) \/ StopStep(c)
    BY <1>1
  <2>1. CASE StopCall(c) \/ ListenFails(c)
    <3>1. gw'.session = None
      BY <2>1 DEF StopCall, ListenFails, Take, Nothing
    <3>. QED
      BY <3>1 DEF Emptied
  <2>2. ASSUME NEW s \in [managed : BOOLEAN, capture : BOOLEAN], StartCall(c, s)
        PROVE  Emptied'
    <3>1. pc'[c] = "starting" /\ \A d \in Callers \ {c} : pc'[d] = "idle"
      BY <2>2, <1>types DEF StartCall, GoTo
    <3>. QED
      BY <3>1 DEF Emptied, StopPcs
  <2>3. CASE StartStep(c) /\ ~ListenFails(c)
    <3>1. /\ overlapped' = overlapped /\ pc[c] \in StartPcs
          /\ \A d \in Callers \ {c} : pc'[d] = pc[d]
          /\ pc'[c] \in StartPcs \cup {"idle"}
      BY <2>3, <1>types
      DEF StartStep, StartRefused, PlatformStart, Publish, Listen, PublishDHCP, CheckResolver,
          SwitchOn, ReadStop, Spawn, Return, GoTo, StartPcs
    <3>2. Alone
      BY <3>1 DEF WaitInv, SerialInv, Order
    <3>. QED
      BY <3>1, <3>2 DEF Alone, Emptied, StopPcs, StartPcs
  <2>4. CASE StopStep(c)
    <3>1. /\ overlapped' = overlapped /\ pc[c] \in StopPcs /\ gw' = gw
          /\ \A d \in Callers \ {c} : pc'[d] = pc[d]
      BY <2>4, <1>types
      DEF StopStep, CloseStop, WaitForWatchers, TellServer, Drained, ShutdownExpires, CloseSocket,
          BeginClose, EndClose, NothingToClose, Return, GoTo, StopPcs
    <3>. QED
      BY <3>1 DEF WaitInv, Emptied
  <2>. QED
    BY <2>1, <2>2, <2>3, <2>4 DEF StartStep
<1>2. CASE \/ \E i \in Ids : WatcherStops(i) \/ WatcherStep(i)
           \/ \E i \in Ids : \/ ServeBegins(i) \/ ServeRefused(i) \/ Receive(i)
                             \/ Handled(i) \/ ServeEnds(i) \/ ReadFails(i)
           \/ ResolverChanges \/ UNCHANGED vars
  <2>1. UNCHANGED <<pc, gw, overlapped>>
    BY <1>2
    DEF WatcherStops, WatcherStep, WatcherTicks, WatcherChecks, WatcherWithdraws, unwatched,
        ServeBegins, ServeRefused, Receive, Handled, ServeEnds, ReadFails, Serving,
        ResolverChanges, vars, calls
  <2>. QED
    BY <2>1 DEF WaitInv, Emptied
<1>. QED
  BY <1>1, <1>2 DEF Next

\* The safety half of StopEndsAlone, for any number of callers and sessions: nobody a
\* StopGateway waits for waits for anything but its own next step (app/gateway.go:
\* close of the stop channel and wg.Wait, dhcp/server.go: Close).
THEOREM StopsWaitForTheTold == Spec => []WaitsEnd
<1>1. Init => Signalled /\ Emptied
  BY DEF Init, Signalled, Emptied, StopPcs
<1>2. WaitInv /\ [Next]_vars /\ SerialInv' => WaitInv'
  BY SignalledStep, EmptiedStep DEF WaitInv, SerialInv, Inv
<1>3. WaitInv => WaitsEnd
  <2>. SUFFICES ASSUME WaitInv, NEW c \in Callers, pc[c] = "waiting", ~overlapped
                PROVE  /\ gw.session = None /\ \A d \in Callers : pc[d] \notin StartPcs
                       /\ \A i \in Running :
                             \/ watcher[i].stop \in closed
                             \/ \E d \in Callers :
                                   pc[d] = "closingStop" /\ took[d].stop = watcher[i].stop
    BY DEF WaitsEnd, WaitInv, Signalled
  <2>1. gw.session = None
    BY DEF WaitInv, Emptied, StopPcs
  <2>2. ASSUME NEW d \in Callers, pc[d] \in StartPcs PROVE FALSE
    BY <2>2 DEF WaitInv, SerialInv, Order, Alone, StartPcs
  <2>3. ASSUME NEW i \in Running
        PROVE  \/ watcher[i].stop \in closed
               \/ \E d \in Callers : pc[d] = "closingStop" /\ took[d].stop = watcher[i].stop
    <3>1. i \in Ids /\ i # None
      BY <2>3 DEF Running, Ids, None
    <3>2. /\ watcher[i].stop = i
          /\ \E d \in Callers : pc[d] \in {"closingStop", "waiting"} /\ InHand(d) = i
      BY <2>1, <2>3, <3>1 DEF WaitInv, SerialInv, Order, Watching
    <3>3. PICK d \in Callers : pc[d] \in {"closingStop", "waiting"} /\ InHand(d) = i
      BY <3>2
    <3>4. took[d].stop = i
      BY <3>3 DEF WaitInv, SerialInv, Order, Shapes, Matching, InHand, StopPcs
    <3>. QED
      BY <3>1, <3>2, <3>3, <3>4 DEF WaitInv, Signalled
  <2>. QED
    BY <2>1, <2>2, <2>3
<1>. QED
  BY <1>1, <1>2, <1>3, SerialInvariant, PTL DEF Spec, WaitInv

=============================================================================
