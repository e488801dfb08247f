----------------------------- MODULE AppGateway -----------------------------
(***************************************************************************)
(* The application's own handling of the gateway (internal/app/gateway.go) *)
(* with the part of the DHCP server that starts and stops                  *)
(* (internal/dhcp/server.go): StartGateway, StopGateway, the watcher that  *)
(* withdraws DNS capture, and the server's read loop.                      *)
(*                                                                         *)
(* The interface's handlers run concurrently and nothing serialises them,  *)
(* so a call is split where it takes or leaves the lock, starts or waits   *)
(* for a goroutine, or calls the platform.  The n-th session the platform  *)
(* brings up is n; the stop channel made when it is published, its DHCP    *)
(* server and the watcher its StartGateway starts bear the same number.    *)
(* None stands for nil.  What a session does to the machine is             *)
(* LinuxSession's subject: here it is open or not, captures or not, and    *)
(* closing it succeeds.                                                    *)
(***************************************************************************)
EXTENDS Naturals

CONSTANTS
    Callers,     \* goroutines that call StartGateway, StopGateway or Close
    MaxStarts,   \* bound on the sessions the platform brings up
    MaxFaults    \* bound on the calls of SetDNSCapture that fail

ASSUME GatewayAssumption == MaxStarts \in Nat /\ MaxFaults \in Nat

Ids == 1..MaxStarts
None == 0

VARIABLES
    gw,         \* gatewayState: session, capturing (settings.CaptureDNS), dhcp, stop
    pc,         \* where each caller is
    want,       \* the settings of a caller's StartGateway
    mine,       \* the session a caller's StartGateway has brought up
    took,       \* what a caller last read under the lock
    platform,   \* each session: "none", "open", "closing" or "closed"
    capture,    \* the sessions with DNS capture in force
    closed,     \* the stop channels that are closed
    watcher,    \* each watchResolver goroutine
    port,       \* the server whose socket has the DHCP port, or None
    server,     \* each server's Serve: "none", "spawned", "reading", "handling", "ended"
    told,       \* the servers Close has told to stop
    healthy,    \* whether this machine's resolver answers
    faults,     \* calls of SetDNSCapture that have failed
    overlapped, \* auxiliary: a StartGateway has run beside another call
    expired     \* auxiliary: the servers whose Shutdown ran out of time

calls == <<pc, want, mine, took>>
sessions == <<platform, capture>>
sockets == <<port, server, told, expired>>
vars == <<gw, calls, sessions, closed, watcher, sockets, healthy, faults, overlapped>>

StartPcs == {"starting", "publishing", "listening", "serving",
             "checking", "capturing", "reading", "spawning"}
StopPcs == {"closingStop", "waiting", "shuttingDown", "draining", "closing", "undoing"}

Gateway == [session : Ids \cup {None}, capturing : BOOLEAN,
            dhcp : Ids \cup {None}, stop : Ids \cup {None}]
Watcher == [pc : {"none", "select", "check", "withdraw", "done"},
            stop : Ids \cup {None}, session : Ids \cup {None}, failures : 0..1]

TypeOK ==
    /\ gw \in Gateway
    /\ pc \in [Callers -> {"idle"} \cup StartPcs \cup StopPcs]
    /\ want \in [Callers -> [managed : BOOLEAN, capture : BOOLEAN]]
    /\ mine \in [Callers -> Ids \cup {None}]
    /\ took \in [Callers -> Gateway]
    /\ platform \in [Ids -> {"none", "open", "closing", "closed"}]
    /\ capture \subseteq Ids /\ closed \subseteq Ids /\ told \subseteq Ids /\ expired \subseteq Ids
    /\ watcher \in [Ids -> Watcher]
    /\ port \in Ids \cup {None}
    /\ server \in [Ids -> {"none", "spawned", "reading", "handling", "ended"}]
    /\ healthy \in BOOLEAN /\ overlapped \in BOOLEAN
    /\ faults \in 0..MaxFaults

Nothing == [session |-> None, capturing |-> FALSE, dhcp |-> None, stop |-> None]
NoWish == [managed |-> FALSE, capture |-> FALSE]
WatcherAt(at) == [pc |-> at, stop |-> None, session |-> None, failures |-> 0]

Init ==
    /\ gw = Nothing
    /\ pc = [c \in Callers |-> "idle"]
    /\ want = [c \in Callers |-> NoWish]
    /\ mine = [c \in Callers |-> None]
    /\ took = [c \in Callers |-> Nothing]
    /\ platform = [i \in Ids |-> "none"]
    /\ capture = {} /\ closed = {} /\ told = {} /\ expired = {}
    /\ watcher = [i \in Ids |-> WatcherAt("none")]
    /\ port = None
    /\ server = [i \in Ids |-> "none"]
    /\ healthy = TRUE /\ overlapped = FALSE /\ faults = 0

GoTo(c, at) == pc' = [pc EXCEPT ![c] = at]

\* A call returns, and its locals with it.
Return(c) ==
    /\ GoTo(c, "idle")
    /\ want' = [want EXCEPT ![c] = NoWish]
    /\ mine' = [mine EXCEPT ![c] = None]
    /\ took' = [took EXCEPT ![c] = Nothing]

\* The watchers the WaitGroup counts.
Running == {i \in Ids : watcher[i].pc \notin {"none", "done"}}

-----------------------------------------------------------------------------
(* StartGateway. *)

\* The check, under the lock.  A call that finds a session returns at once.
StartCall(c, s) ==
    /\ pc[c] = "idle" /\ gw.session = None
    /\ \E i \in Ids : platform[i] = "none"
    /\ GoTo(c, "starting")
    /\ want' = [want EXCEPT ![c] = s]
    /\ overlapped' = (overlapped \/ \E d \in Callers \ {c} : pc[d] # "idle")
    /\ UNCHANGED <<gw, mine, took, sessions, closed, watcher, sockets, healthy, faults>>

\* The settings are no good, or the platform refuses.
StartRefused(c) ==
    /\ pc[c] = "starting"
    /\ Return(c)
    /\ UNCHANGED <<gw, sessions, closed, watcher, sockets, healthy, faults, overlapped>>

PlatformStart(c) ==
    /\ pc[c] = "starting"
    /\ \E i \in Ids :
          /\ platform[i] = "none" /\ \A j \in Ids : j < i => platform[j] # "none"
          /\ platform' = [platform EXCEPT ![i] = "open"]
          /\ mine' = [mine EXCEPT ![c] = i]
    /\ GoTo(c, "publishing")
    /\ UNCHANGED <<gw, want, took, capture, closed, watcher, sockets, healthy, faults, overlapped>>

\* Faulty variant of Publish: the settings stay those of the last session.
OldSettings(c) ==
    /\ pc[c] = "publishing"
    /\ gw' = [gw EXCEPT !.session = mine[c], !.stop = mine[c]]
    /\ GoTo(c, IF want[c].managed THEN "listening"
               ELSE IF want[c].capture THEN "checking" ELSE "reading")
    /\ UNCHANGED <<want, mine, took, sessions, closed, watcher, sockets, healthy, faults, overlapped>>

Publish(c) ==
    /\ pc[c] = "publishing"
    /\ gw' = [gw EXCEPT !.session = mine[c], !.capturing = want[c].capture, !.stop = mine[c]]
    /\ GoTo(c, IF want[c].managed THEN "listening"
               ELSE IF want[c].capture THEN "checking" ELSE "reading")
    /\ UNCHANGED <<want, mine, took, sessions, closed, watcher, sockets, healthy, faults, overlapped>>

\* startDHCP up to its socket; another socket of this process on the port, or
\* another program's, makes it fail, and StartGateway calls StopGateway.
Listen(c) ==
    /\ pc[c] = "listening" /\ port = None
    /\ port' = mine[c]
    /\ GoTo(c, "serving")
    /\ UNCHANGED <<gw, want, mine, took, sessions, closed, watcher, server, told, expired,
                   healthy, faults, overlapped>>

PublishDHCP(c) ==
    /\ pc[c] = "serving"
    /\ gw' = [gw EXCEPT !.dhcp = mine[c]]
    /\ server' = [server EXCEPT ![mine[c]] = "spawned"]
    /\ GoTo(c, IF want[c].capture THEN "checking" ELSE "reading")
    /\ UNCHANGED <<want, mine, took, sessions, closed, watcher, port, told, expired,
                   healthy, faults, overlapped>>

\* captureWhenHealthy: ask first, then switch capture on.
CheckResolver(c) ==
    /\ pc[c] = "checking"
    /\ GoTo(c, IF healthy THEN "capturing" ELSE "reading")
    /\ UNCHANGED <<gw, want, mine, took, sessions, closed, watcher, sockets, healthy, faults, overlapped>>

Fail == faults < MaxFaults /\ faults' = faults + 1

SwitchOn(c) ==
    /\ pc[c] = "capturing"
    /\ \/ /\ platform[mine[c]] # "closed"
          /\ capture' = capture \cup {mine[c]} /\ UNCHANGED faults
       \/ platform[mine[c]] = "closed" /\ UNCHANGED <<capture, faults>>
       \/ Fail /\ UNCHANGED capture
    /\ GoTo(c, "reading")
    /\ UNCHANGED <<gw, want, mine, took, platform, closed, watcher, sockets, healthy, overlapped>>

\* The stop channel is read under the lock a second time...
ReadStop(c) ==
    /\ pc[c] = "reading"
    /\ took' = [took EXCEPT ![c] = [Nothing EXCEPT !.stop = gw.stop]]
    /\ GoTo(c, "spawning")
    /\ UNCHANGED <<gw, want, mine, sessions, closed, watcher, sockets, healthy, faults, overlapped>>

\* ... and given to the watcher.
Spawn(c) ==
    /\ pc[c] = "spawning"
    /\ watcher' = [watcher EXCEPT ![mine[c]] =
                      [WatcherAt("select") EXCEPT !.stop = took[c].stop]]
    /\ Return(c)
    /\ UNCHANGED <<gw, sessions, closed, sockets, healthy, faults, overlapped>>

-----------------------------------------------------------------------------
(* StopGateway, which App.Close and a StartGateway that fails call too. *)

Take(c) ==
    /\ took' = [took EXCEPT ![c] = gw]
    /\ gw' = [Nothing EXCEPT !.capturing = gw.capturing]
    /\ GoTo(c, "closingStop")
    /\ UNCHANGED <<want, mine, sessions, closed, watcher, sockets, healthy, faults>>

StopCall(c) ==
    /\ pc[c] = "idle"
    /\ overlapped' = (overlapped \/ \E d \in Callers : pc[d] \in StartPcs)
    /\ Take(c)

ListenFails(c) ==
    /\ pc[c] = "listening"
    /\ UNCHANGED overlapped
    /\ Take(c)

\* Faulty variant of CloseStop: the channel is dropped without being closed.
StopDropped(c) ==
    /\ pc[c] = "closingStop"
    /\ GoTo(c, "waiting")
    /\ UNCHANGED <<gw, want, mine, took, sessions, closed, watcher, sockets, healthy, faults, overlapped>>

CloseStop(c) ==
    /\ pc[c] = "closingStop"
    /\ closed' = closed \cup ({took[c].stop} \ {None})
    /\ GoTo(c, "waiting")
    /\ UNCHANGED <<gw, want, mine, took, sessions, watcher, sockets, healthy, faults, overlapped>>

\* Faulty variant of WaitForWatchers: the goroutines are not waited for.
NoWait(c) ==
    /\ pc[c] = "waiting"
    /\ GoTo(c, IF took[c].dhcp = None THEN "closing" ELSE "shuttingDown")
    /\ UNCHANGED <<gw, want, mine, took, sessions, closed, watcher, sockets, healthy, faults, overlapped>>

WaitForWatchers(c) ==
    /\ pc[c] = "waiting" /\ Running = {}
    /\ GoTo(c, IF took[c].dhcp = None THEN "closing" ELSE "shuttingDown")
    /\ UNCHANGED <<gw, want, mine, took, sessions, closed, watcher, sockets, healthy, faults, overlapped>>

\* Server.Close: closed is set and every read it knows of is interrupted.
TellServer(c) ==
    /\ pc[c] = "shuttingDown"
    /\ told' = told \cup {took[c].dhcp}
    /\ GoTo(c, "draining")
    /\ UNCHANGED <<gw, want, mine, took, sessions, closed, watcher, port, server, expired,
                   healthy, faults, overlapped>>

\* Faulty variant of CloseSocket: the socket is left to the collector.
SocketLeftOpen(c) ==
    /\ GoTo(c, "closing")
    /\ UNCHANGED <<gw, want, mine, took, sessions, closed, watcher, port, server, told,
                   healthy, faults, overlapped>>

CloseSocket(c) ==
    /\ port' = IF port = took[c].dhcp THEN None ELSE port
    /\ GoTo(c, "closing")
    /\ UNCHANGED <<gw, want, mine, took, sessions, closed, watcher, server, told,
                   healthy, faults, overlapped>>

\* Faulty variant of Drained: Close does not wait for the read loops.
NotDrained(c) ==
    /\ pc[c] = "draining"
    /\ CloseSocket(c)
    /\ UNCHANGED expired

Drained(c) ==
    /\ pc[c] = "draining" /\ server[took[c].dhcp] \notin {"reading", "handling"}
    /\ CloseSocket(c)
    /\ UNCHANGED expired

\* Shutdown gives up with its context, before or after Close got to run.
ShutdownExpires(c) ==
    /\ pc[c] \in {"shuttingDown", "draining"}
    /\ CloseSocket(c)
    /\ expired' = expired \cup {took[c].dhcp}

\* Session.Close: capture off first, then the rest.
BeginClose(c) ==
    /\ pc[c] = "closing" /\ took[c].session # None
    /\ platform' = [platform EXCEPT ![took[c].session] = "closing"]
    /\ capture' = capture \ {took[c].session}
    /\ GoTo(c, "undoing")
    /\ UNCHANGED <<gw, want, mine, took, closed, watcher, sockets, healthy, faults, overlapped>>

EndClose(c) ==
    /\ pc[c] = "undoing"
    /\ platform' = [platform EXCEPT ![took[c].session] = "closed"]
    /\ capture' = capture \ {took[c].session}
    /\ Return(c)
    /\ UNCHANGED <<gw, closed, watcher, sockets, healthy, faults, overlapped>>

NothingToClose(c) ==
    /\ pc[c] = "closing" /\ took[c].session = None
    /\ Return(c)
    /\ UNCHANGED <<gw, sessions, closed, watcher, sockets, healthy, faults, overlapped>>

-----------------------------------------------------------------------------
(* watchResolver. *)

\* Back to the select; a session is only looked at between two of them.
Selecting(w, failures) == [pc |-> "select", stop |-> w.stop, session |-> None, failures |-> failures]

unwatched == <<gw, calls, platform, closed, sockets, healthy, overlapped>>

WatcherStops(i) ==
    /\ watcher[i].pc = "select" /\ watcher[i].stop \in closed
    /\ watcher' = [watcher EXCEPT ![i] = WatcherAt("done")]
    /\ UNCHANGED <<unwatched, capture, faults>>

\* The ticker fires; session and setting are read under the lock.
WatcherTicks(i) ==
    /\ watcher[i].pc = "select"
    /\ gw.session # None /\ gw.capturing
    /\ watcher' = [watcher EXCEPT ![i].pc = "check", ![i].session = gw.session]
    /\ UNCHANGED <<unwatched, capture, faults>>

\* Faulty variant of WatcherChecks: a second failure is never reached.
ForgetfulCheck(i) ==
    /\ watcher[i].pc = "check"
    /\ watcher' = [watcher EXCEPT ![i] = Selecting(@, 0)]
    /\ UNCHANGED <<unwatched, capture, faults>>

\* Faulty variant of WatcherChecks: failures are counted and nothing is done.
OnlyCounts(i) ==
    /\ watcher[i].pc = "check"
    /\ watcher' = [watcher EXCEPT ![i] = Selecting(@, IF healthy THEN 0 ELSE @.failures + 1)]
    /\ UNCHANGED <<unwatched, capture, faults>>

\* The resolver is asked; the second failure in a row leads to withdrawal.
WatcherChecks(i) ==
    /\ watcher[i].pc = "check"
    /\ \/ healthy /\ watcher' = [watcher EXCEPT ![i] = Selecting(@, 0)]
       \/ /\ ~healthy /\ watcher[i].failures = 0
          /\ watcher' = [watcher EXCEPT ![i] = Selecting(@, 1)]
       \/ /\ ~healthy /\ watcher[i].failures = 1
          /\ watcher' = [watcher EXCEPT ![i] = [@ EXCEPT !.pc = "withdraw", !.failures = 0]]
    /\ UNCHANGED <<unwatched, capture, faults>>

\* A withdrawal that fails is logged, and counting begins anew.
WatcherWithdraws(i) ==
    /\ watcher[i].pc = "withdraw"
    /\ \/ capture' = capture \ {watcher[i].session} /\ UNCHANGED faults
       \/ Fail /\ UNCHANGED capture
    /\ watcher' = [watcher EXCEPT ![i] = Selecting(@, @.failures)]
    /\ UNCHANGED unwatched

-----------------------------------------------------------------------------
(* Serve, the read loop of a DHCP server, and the resolver. *)

Serving(i, from, to) ==
    /\ server[i] = from
    /\ server' = [server EXCEPT ![i] = to]
    /\ UNCHANGED <<gw, calls, sessions, closed, watcher, port, told, expired, healthy, faults, overlapped>>

ServeBegins(i) == i \notin told /\ Serving(i, "spawned", "reading")
ServeRefused(i) == i \in told /\ Serving(i, "spawned", "ended")
Receive(i) == port = i /\ i \notin told /\ Serving(i, "reading", "handling")
Handled(i) == Serving(i, "handling", "reading")
ServeEnds(i) == (i \in told \/ port # i) /\ Serving(i, "reading", "ended")

\* Any other error of the socket ends the loop too, and nobody is told.
ReadFails(i) == Serving(i, "reading", "ended")

ResolverChanges ==
    /\ healthy' = ~healthy
    /\ UNCHANGED <<gw, calls, sessions, closed, watcher, sockets, faults, overlapped>>

-----------------------------------------------------------------------------
StartStep(c) ==
    \/ StartRefused(c) \/ PlatformStart(c) \/ Publish(c) \/ Listen(c) \/ ListenFails(c)
    \/ PublishDHCP(c) \/ CheckResolver(c) \/ SwitchOn(c) \/ ReadStop(c) \/ Spawn(c)

StopStep(c) ==
    \/ CloseStop(c) \/ WaitForWatchers(c) \/ TellServer(c) \/ Drained(c) \/ ShutdownExpires(c)
    \/ BeginClose(c) \/ EndClose(c) \/ NothingToClose(c)

WatcherStep(i) == WatcherTicks(i) \/ WatcherChecks(i) \/ WatcherWithdraws(i)

Next ==
    \/ \E c \in Callers :
          \/ \E managed, capturing \in BOOLEAN :
                StartCall(c, [managed |-> managed, capture |-> capturing])
          \/ StopCall(c) \/ StartStep(c) \/ StopStep(c)
    \/ \E i \in Ids : WatcherStops(i) \/ WatcherStep(i)
    \/ \E i \in Ids :
          \/ ServeBegins(i) \/ ServeRefused(i) \/ Receive(i) \/ Handled(i)
          \/ ServeEnds(i) \/ ReadFails(i)
    \/ ResolverChanges

Spec == Init /\ [][Next]_vars

\* Every goroutine that can go on does: the scheduler runs it, the ticker ticks,
\* every call of the platform and every question to the resolver has a time
\* limit.  Nobody has to call, no message has to arrive, and the resolver need
\* not change.
FairSpec ==
    /\ Spec
    /\ \A c \in Callers : WF_vars(StartStep(c)) /\ WF_vars(StopStep(c))
    /\ \A i \in Ids :
          /\ WF_vars(WatcherStops(i)) /\ WF_vars(WatcherStep(i))
          /\ WF_vars(ServeBegins(i) \/ ServeRefused(i))
          /\ WF_vars(Handled(i)) /\ WF_vars(ServeEnds(i))

-----------------------------------------------------------------------------
(* Properties. *)

\* A watcher never switches a session that is being closed or has been:
\* StopGateway waits for the watchers before it closes what it took, and that
\* is enough even when calls overlap, since a watcher got its session while the
\* gateway still had it.
WatcherTouchesLive ==
    \A i \in Ids : watcher[i].pc \in {"check", "withdraw"} =>
        platform[watcher[i].session] = "open"

\* When every call has returned nothing is left over: with a session there is
\* that session only and the one watcher, which will hear its stop channel;
\* with none no session is open, nobody watches and the DHCP port is free.
\* Holds of any sequence of calls in which no StartGateway ran beside another
\* call, failed ones and stops beside stops included.
NothingLeft ==
    ~overlapped /\ (\A c \in Callers : pc[c] = "idle") =>
        /\ \A i \in Ids : platform[i] \in {"open", "closing"} <=> i = gw.session
        /\ Running = {gw.session} \ {None}
        /\ gw.stop = gw.session /\ gw.stop \notin closed
        /\ \A i \in Running : watcher[i].stop = i
        /\ port = gw.dhcp /\ gw.dhcp \in {None, gw.session}

\* The rule that hurts is always looked after: where DNS is captured the
\* gateway knows the session and that it captures, and its watcher runs or its
\* StartGateway, about to start one, has not returned, or a StopGateway that
\* is about to close it has the session.
CaptureWatched ==
    ~overlapped => \A i \in capture :
        \/ /\ gw.session = i /\ gw.capturing
           /\ i \in Running \/ \E c \in Callers : mine[c] = i /\ pc[c] \in StartPcs
        \/ \E c \in Callers : took[c].session = i /\ pc[c] \in StopPcs

\* The DHCP server is silent before the session it serves is touched, unless
\* its shutdown ran out of time: no device is given an address on a network that
\* is being taken down.
SilentBeforeClosed ==
    ~overlapped => \A i \in Ids :
        platform[i] \in {"closing", "closed"} /\ i \notin expired =>
            server[i] \notin {"reading", "handling"}

\* Stopping ends: a StopGateway that waits for the watchers gets past them, in
\* every history in which no StartGateway runs beside another call.
StopEndsAlone ==
    \A c \in Callers : pc[c] \in StopPcs ~> pc[c] = "idle" \/ overlapped

\* If the resolver dies and stays dead, no session keeps capturing DNS.
CaptureWithdrawn ==
    \A i \in Ids : <>[]~healthy => (i \in capture ~> i \notin capture \/ overlapped)

-----------------------------------------------------------------------------
(* What the source says of the gateway and the gateway does not do. *)

\* gateway.go:219-223: taking the stop channel when the goroutine is started
\* removes the race entirely: StopGateway's wait for the watchers returns.
StopEnds == \A c \in Callers : pc[c] = "waiting" ~> pc[c] # "waiting"

=============================================================================
