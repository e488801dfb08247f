----------------------------- MODULE DhcpServer -----------------------------
(***************************************************************************)
(* The DHCP server (internal/dhcp/server.go) between its pool and clients  *)
(* that reach it over a network which loses, doubles and reorders          *)
(* datagrams.                                                              *)
(*                                                                         *)
(* One read loop handles one datagram after the other.  Handling one makes *)
(* one call of the pool, and is one action; only a REQUEST for another     *)
(* server makes two, and the clock, the administrator and the clients run  *)
(* between them.  A datagram that was sent may be handled at any later     *)
(* time, more than once, or never.  A reply is of use only to the exchange *)
(* it answers, so replies to older ones are left out.                      *)
(*                                                                         *)
(* The clients are not part of the program.  They follow RFC 2131: they    *)
(* count their lease from the moment they sent the REQUEST, and believe    *)
(* in an address until that lease has run out.  A relay writes its own     *)
(* address (giaddr) into what its clients broadcast, and never sees what   *)
(* they send to the server's address: every RELEASE, a REQUEST that renews *)
(* in time and, if the client likes, an INFORM.                            *)
(***************************************************************************)
EXTENDS DhcpPool

CONSTANTS
    Relayed,        \* clients that reach the server through a relay
    Broadcasting,   \* clients that set the broadcast flag
    Elsewhere,      \* an address outside the pool's subnet
    Us, Them,       \* server identifiers: ours and another server's
    Relay, Broadcast,   \* where a reply may go besides a client's address
    Came,           \* Came[k]: the address k holds from another server, or None
    MaxDoubles,     \* bound on the datagrams the network delivers twice
    MaxXid          \* MaxXid[k]: bound on the exchanges of client k

ASSUME ServerAssumption ==
    /\ Relayed \subseteq Clients /\ Broadcasting \subseteq Clients
    /\ Elsewhere \notin Addrs \cup {None}
    /\ Us # Them /\ None \notin {Us, Them}
    /\ Relay # Broadcast
    /\ {Relay, Broadcast} \cap (Addrs \cup {None, Elsewhere}) = {}
    /\ Came \in [Clients -> {None, Elsewhere}]
    /\ MaxXid \in [Clients -> Nat] /\ MaxDoubles \in Nat

VARIABLES
    client,     \* what each client is doing and which address it believes in
    requests,   \* datagrams of clients the network may still deliver
    doubled,    \* how many it has delivered more than once
    replies,    \* replies to the clients' current exchanges
    dropping,   \* the offer Lookup found and Release is to give up, or None
    told,       \* told[a]: the client OnBound last reported at the address
    crossed     \* auxiliary: clients whose lease a stray message has undone

serverVars == <<client, requests, doubled, replies, dropping, told, crossed>>
allVars == <<now, entries, byKey, forgotten,
             client, requests, doubled, replies, dropping, told, crossed>>

Phases == {"init", "selecting", "requesting", "bound", "renewing", "informing"}

Request == [type : {"DISCOVER", "REQUEST", "DECLINE", "RELEASE", "INFORM"},
            who : Clients, xid : Nat, ci : Addrs \cup {None, Elsewhere},
            req : Addrs \cup {None, Elsewhere}, sid : {None, Us, Them},
            gi : BOOLEAN]

Reply == [type : {"OFFER", "ACK", "NAK"}, who : Clients, xid : Nat,
          yi : Addrs \cup {None}, gi : BOOLEAN,
          to : Addrs \cup {Relay, Broadcast, Elsewhere}]

ServerTypeOK ==
    /\ TypeOK
    /\ client \in [Clients -> [phase : Phases, xid : Nat,
                               addr : Addrs \cup {None, Elsewhere},
                               since : 0..MaxTime, until : Nat]]
    /\ requests \subseteq Request /\ doubled \in 0..MaxDoubles
    /\ replies \subseteq Reply
    /\ dropping \in {None} \cup [who : Clients, addr : Addrs]
    /\ told \in [Addrs -> Clients \cup {None}]
    /\ crossed \subseteq Clients

-----------------------------------------------------------------------------
(* The kinds of message and where an answer goes (RFC 2131, 4.1 and 4.3.2). *)
(* m.gi says whether this datagram has a relay's address in giaddr.         *)

RequestKind(m) ==
    IF m.type # "REQUEST" THEN "unknown"
    ELSE IF m.sid # None /\ m.req # None THEN "selecting"
    ELSE IF m.sid = None /\ m.req # None THEN "init-reboot"
    ELSE IF m.sid = None /\ m.ci # None THEN "renewing"
    ELSE "unknown"

\* Faulty variant of destination: that the client has an address is not checked.
destinationUnchecked(m, yi) ==
    IF m.gi THEN Relay
    ELSE IF m.who \in Broadcasting THEN Broadcast
    ELSE m.ci

\* Faulty variant of destination: a client without an address is answered at
\* the address it is being given.
destinationAtOnce(m, yi) ==
    IF m.gi THEN Relay
    ELSE IF m.who \in Broadcasting \/ (m.ci = None /\ yi = None) THEN Broadcast
    ELSE IF m.ci # None THEN m.ci ELSE yi

destination(m, yi) ==
    IF m.gi THEN Relay
    ELSE IF m.who \in Broadcasting \/ m.ci = None THEN Broadcast
    ELSE m.ci

nakDestination(m) == IF m.gi THEN Relay ELSE Broadcast

informDestination(m) ==
    IF m.gi THEN Relay
    ELSE IF m.ci # None THEN m.ci ELSE Broadcast

Answer(m, type, yi, to) ==
    [type |-> type, who |-> m.who, xid |-> m.xid, yi |-> yi, gi |-> m.gi, to |-> to]

\* A reply to an exchange the client has left is ignored by it.
Awaited(r) == client[r.who].xid = r.xid /\ client[r.who].phase # "init"
Send(r) == replies' = IF Awaited(r) THEN replies \cup {r} ELSE replies

-----------------------------------------------------------------------------
(* The messages that undo a lease the pool still counts as running.        *)

\* The address a REQUEST is for.
Wanted(m) == IF RequestKind(m) = "renewing" THEN m.ci ELSE m.req

LeasedTo(k, a) == Swept[a].state = "leased" /\ Swept[a].key = k

\* Whoever leases the address the index gives for k.
AtIndexOf(k) == {j \in Clients : byKey[k] # None /\ LeasedTo(j, byKey[k])}

\* A DISCOVER, and a REQUEST for another address, work on the entry the index
\* gives for their sender, whoever leases it by now; a DISCOVER of a sender the
\* index has forgotten on the address it asks for, when that is its own.  A
\* RELEASE or a DECLINE ends a lease of its sender only.
Undone(m) ==
    CASE m.type = "DISCOVER" ->
            AtIndexOf(m.who) \cup
            {j \in {m.who} : /\ byKey[j] = None /\ m.req \in Addrs /\ Swept[m.req].key = j
                            /\ Swept[m.req].state \in {"leased", "reserved"}}
      [] m.type = "REQUEST" -> IF byKey[m.who] = Wanted(m) THEN {} ELSE AtIndexOf(m.who)
      [] m.type = "RELEASE" -> {j \in {m.who} : m.ci \in Addrs /\ LeasedTo(j, m.ci)}
      [] m.type = "DECLINE" -> {j \in {m.who} : m.req \in Addrs /\ LeasedTo(j, m.req)}
      [] OTHER -> {}

\* The clients that hold a lease or are about to, by what they last sent.
Resting == {k \in Clients : client[k].phase \in {"requesting", "bound", "renewing"}}

Cross(m) == crossed' = crossed \cup (Undone(m) \cap Resting)

-----------------------------------------------------------------------------
(* The server's handlers. *)

HandleDiscover(m) ==
    LET k == m.who
        req == IF m.req \in Addrs THEN m.req ELSE None IN
    /\ m.type = "DISCOVER"
    /\ \/ /\ OfferRemembered(k) \/ OfferRequested(k, req) \/ OfferOldest(k, req)
          /\ Send(Answer(m, "OFFER", byKey'[k], destination(m, byKey'[k])))
       \/ OfferExhausted(k, req) /\ UNCHANGED replies
    /\ Cross(m)
    /\ UNCHANGED <<client, dropping, told>>

\* Faulty variant of Dropped: whatever the client holds here is given up.
DroppedAny(k) == {a \in Addrs : byKey[k] = a /\ Swept[a].state \in LiveStates}

\* What a client that has chosen another server gives up: only an offer.
Dropped(k) == {a \in Addrs : byKey[k] = a /\ Swept[a].state = "offered"}

\* SELECTING that names another server: Lookup, which sweeps.
HandleOther(m) ==
    LET k == m.who IN
    /\ RequestKind(m) = "selecting" /\ m.sid # Us
    /\ Look
    /\ dropping' = IF Dropped(k) = {} THEN None ELSE [who |-> k, addr |-> byKey[k]]
    /\ UNCHANGED <<client, replies, told, crossed>>

MayRelease(k, a) == a \in Addrs /\ entries[a].key = k /\ entries[a].state # "reserved"

MayDecline(k, a) ==
    a \in Addrs /\ entries[a].state # "reserved" /\ entries[a].key \in {None, k}

\* The Release that follows it, before the next datagram is read.
DropOffer ==
    /\ dropping # None
    /\ IF MayRelease(dropping.who, dropping.addr)
       THEN Release(dropping.who, dropping.addr) ELSE UNCHANGED vars
    /\ dropping' = None
    /\ UNCHANGED <<client, requests, doubled, replies, told, crossed>>

Served(m) ==
    \/ RequestKind(m) \in {"renewing", "init-reboot"}
    \/ RequestKind(m) = "selecting" /\ m.sid = Us

\* Faulty variant of Reported: only a client that had no address is reported.
ReportedOnce(k, a) == IF told[a] = None THEN [told EXCEPT ![a] = k] ELSE told

\* OnBound.
Reported(k, a) == [told EXCEPT ![a] = k]

HandleGranted(m) ==
    LET k == m.who  a == Wanted(m) IN
    /\ Served(m) /\ a \in Addrs
    /\ CommitGranted(k, a)
    /\ told' = Reported(k, a)
    /\ Send(Answer(m, "ACK", a, destination(m, a)))
    /\ Cross(m)
    /\ UNCHANGED <<client, dropping>>

HandleRefused(m) ==
    /\ Served(m) /\ Wanted(m) \in Addrs
    /\ CommitRefused(m.who, Wanted(m))
    /\ Send(Answer(m, "NAK", None, nakDestination(m)))
    /\ UNCHANGED <<client, dropping, told, crossed>>

\* Faulty variant of SpeaksForOthers: every address is refused in the open.
SpeaksAlways(m) == TRUE

\* Of an address outside the subnet a renewing client is told nothing: it may
\* be another server's.
SpeaksForOthers(m) == RequestKind(m) # "renewing"

HandleNotOurs(m) ==
    /\ Served(m) /\ Wanted(m) \notin Addrs
    /\ Look
    /\ IF SpeaksForOthers(m)
       THEN Send(Answer(m, "NAK", None, nakDestination(m)))
       ELSE UNCHANGED replies
    /\ UNCHANGED <<client, dropping, told, crossed>>

\* A REQUEST that is none of the three shapes is answered with silence.
HandleUnknown(m) ==
    /\ m.type = "REQUEST" /\ RequestKind(m) = "unknown"
    /\ UNCHANGED <<now, entries, byKey, forgotten, client, dropping, replies, told, crossed>>

HandleDecline(m) ==
    /\ m.type = "DECLINE"
    /\ IF MayDecline(m.who, m.req) THEN Decline(m.who, m.req) ELSE UNCHANGED vars
    /\ Cross(m)
    /\ UNCHANGED <<client, dropping, replies, told>>

HandleRelease(m) ==
    /\ m.type = "RELEASE"
    /\ IF MayRelease(m.who, m.ci) THEN Release(m.who, m.ci) ELSE UNCHANGED vars
    /\ Cross(m)
    /\ UNCHANGED <<client, dropping, replies, told>>

\* Configuration and no lease: an ACK without an address.
HandleInform(m) ==
    /\ m.type = "INFORM"
    /\ Send(Answer(m, "ACK", None, informDestination(m)))
    /\ UNCHANGED <<now, entries, byKey, forgotten, client, dropping, told, crossed>>

\* The network has delivered a datagram, for the last time or not.
Deliver(m) ==
    \/ requests' = requests \ {m} /\ UNCHANGED doubled
    \/ doubled < MaxDoubles /\ doubled' = doubled + 1 /\ UNCHANGED requests

Handle(m) ==
    /\ dropping = None
    /\ Deliver(m)
    /\ \/ HandleDiscover(m)
       \/ HandleOther(m)
       \/ HandleGranted(m)
       \/ HandleRefused(m)
       \/ HandleNotOurs(m)
       \/ HandleUnknown(m)
       \/ HandleDecline(m)
       \/ HandleRelease(m)
       \/ HandleInform(m)

-----------------------------------------------------------------------------
(* The clients. *)

Ask(k, gi, type, ci, req, sid, xid) ==
    requests' = requests \cup {[type |-> type, who |-> k, xid |-> xid, gi |-> gi,
                                ci |-> ci, req |-> req, sid |-> sid]}

\* giaddr in what k broadcasts, and in what it may send either way.
Via(k) == k \in Relayed
EitherWay(k) == {gi \in BOOLEAN : gi => Via(k)}

\* A client takes up a phase.  One that rests on nothing has nothing left that
\* could be undone, and a new exchange makes the old replies useless.
Becomes(k, c) ==
    /\ client' = [client EXCEPT ![k] = c]
    /\ crossed' = IF c.phase \in {"requesting", "bound", "renewing"}
                  THEN crossed ELSE crossed \ {k}
    /\ replies' = {r \in replies : r.who = k => r.xid = c.xid /\ c.phase # "init"}
    /\ UNCHANGED <<now, entries, byKey, forgotten, told, doubled, dropping>>

Starts(k) == client[k].phase = "init" /\ client[k].xid < MaxXid[k]

Being(phase, xid, addr, since, until) ==
    [phase |-> phase, xid |-> xid, addr |-> addr, since |-> since, until |-> until]

Idle(k, addr) == Being("init", client[k].xid, addr, 0, 0)

Discover(k) ==
    LET c == client[k] IN
    /\ Starts(k)
    /\ Ask(k, Via(k), "DISCOVER", None, c.addr, None, c.xid + 1)
    /\ Becomes(k, Being("selecting", c.xid + 1, c.addr, 0, 0))

\* INIT-REBOOT; with no address to ask for the message has none of the shapes.
Reboot(k) ==
    LET c == client[k] IN
    /\ Starts(k)
    /\ Ask(k, Via(k), "REQUEST", None, c.addr, None, c.xid + 1)
    /\ Becomes(k, Being("requesting", c.xid + 1, c.addr, now, 0))

\* To a server it knows, or to all.
Inform(k) ==
    LET c == client[k] IN
    /\ Starts(k) /\ c.addr = Elsewhere
    /\ \E gi \in EitherWay(k) : Ask(k, gi, "INFORM", Elsewhere, None, None, c.xid + 1)
    /\ Becomes(k, Being("informing", c.xid + 1, c.addr, 0, 0))

Hears(k, r) ==
    /\ r.who = k
    /\ \/ r.to = Relay /\ k \in Relayed
       \/ r.to = Broadcast /\ k \notin Relayed
       \/ r.to = client[k].addr /\ client[k].phase \in {"bound", "renewing", "informing"}

TakeOffer(k) ==
    LET c == client[k] IN
    /\ c.phase = "selecting"
    /\ \E r \in replies :
          /\ Hears(k, r) /\ r.type = "OFFER"
          /\ Ask(k, Via(k), "REQUEST", None, r.yi, Us, c.xid)
          /\ Becomes(k, Being("requesting", c.xid, r.yi, now, 0))

\* The client prefers another server, and says so to both.
TakeOther(k) ==
    /\ client[k].phase = "selecting"
    /\ Ask(k, Via(k), "REQUEST", None, Elsewhere, Them, client[k].xid)
    /\ Becomes(k, Idle(k, Elsewhere))

TakeAck(k) ==
    LET c == client[k] IN
    /\ \E r \in replies :
          /\ Hears(k, r) /\ r.type = "ACK"
          /\ IF c.phase = "informing" THEN Becomes(k, Idle(k, c.addr))
             ELSE /\ c.phase \in {"requesting", "renewing"}
                  /\ Becomes(k, Being("bound", c.xid, r.yi, 0, c.since + LeaseTime))
    /\ UNCHANGED requests

\* The client finds the address it was given in use.
Refuse(k) ==
    /\ client[k].phase = "requesting"
    /\ \E r \in replies :
          /\ Hears(k, r) /\ r.type = "ACK"
          /\ Ask(k, Via(k), "DECLINE", None, r.yi, Us, client[k].xid)
    /\ Becomes(k, Idle(k, None))

TakeNak(k) ==
    /\ client[k].phase \in {"requesting", "renewing"}
    /\ \E r \in replies : Hears(k, r) /\ r.type = "NAK"
    /\ Becomes(k, Idle(k, None))
    /\ UNCHANGED requests

\* In time, to the server the lease is from (RENEWING); towards the end, to all
\* (REBINDING).
Renew(k) ==
    LET c == client[k] IN
    /\ c.phase = "bound" /\ c.until > now /\ c.xid < MaxXid[k]
    /\ \E gi \in EitherWay(k) :
          /\ c.addr = Elsewhere => (gi <=> Via(k))
          /\ Ask(k, gi, "REQUEST", c.addr, None, None, c.xid + 1)
    /\ Becomes(k, Being("renewing", c.xid + 1, c.addr, now, c.until))

Leave(k) ==
    LET c == client[k] IN
    /\ c.phase = "bound" /\ c.until > now /\ c.addr \in Addrs
    /\ Ask(k, FALSE, "RELEASE", c.addr, None, Us, c.xid)
    /\ Becomes(k, Idle(k, c.addr))

\* No answer in time, a lease that has run out, a restart of the device.
GiveUp(k) ==
    /\ client[k].phase # "init"
    /\ Becomes(k, Idle(k, client[k].addr))
    /\ UNCHANGED requests

ClientStep(k) ==
    \/ Discover(k)
    \/ Reboot(k)
    \/ Inform(k)
    \/ TakeOffer(k)
    \/ TakeOther(k)
    \/ TakeAck(k)
    \/ Refuse(k)
    \/ TakeNak(k)
    \/ Renew(k)
    \/ Leave(k)
    \/ GiveUp(k)

-----------------------------------------------------------------------------
ServerInit ==
    /\ Init
    /\ client = [k \in Clients |->
                    [phase |-> IF Came[k] = None THEN "init" ELSE "bound", xid |-> 0,
                     addr |-> Came[k], since |-> 0,
                     until |-> IF Came[k] = None THEN 0 ELSE 1 + LeaseTime]]
    /\ requests = {} /\ replies = {} /\ doubled = 0
    /\ dropping = None
    /\ told = [a \in Addrs |-> None]
    /\ crossed = {}

\* The administrator and the clock work on the pool beside the server.
PoolStep ==
    /\ Tick \/ (\E a \in Addrs : Free(a))
    /\ UNCHANGED serverVars

ServerNext ==
    \/ \E m \in requests : Handle(m)
    \/ DropOffer
    \/ \E k \in Clients : ClientStep(k)
    \/ PoolStep

ServerSpec == ServerInit /\ [][ServerNext]_allVars

-----------------------------------------------------------------------------
(* Properties. *)

Believes(k) == client[k].phase \in {"bound", "renewing"} /\ client[k].until > now

BelievesIn(k, a) == Believes(k) /\ client[k].addr = a

\* A client that believes in an address has it in the pool for at least as
\* long, through every loss, delay, repetition and reordering of its own and
\* of all other messages: no REQUEST, RELEASE or DECLINE of another client, no
\* message for another server, no sweep and no refusal takes it away.  The one
\* exception are the messages Undone names: the client's own strays, and those
\* that work on an index entry another client leases by now (pool.go:352, 397).
BeliefBacked ==
    \A k \in Clients \ crossed, a \in Addrs : BelievesIn(k, a) =>
        /\ entries[a].key = k
        /\ \/ entries[a].state = "reserved"
           \/ entries[a].state = "leased" /\ entries[a].expires >= client[k].until

\* Whoever believes in an address is the device the address was last reported
\* for, so its queries are counted and filtered as its own (OnBound runs before
\* every ACK, renewals included).
BeliefReported ==
    \A k \in Clients \ crossed, a \in Addrs : BelievesIn(k, a) => told[a] = k

\* A client whose lease is running, here or at another server, and who asks to
\* go on with it is not sent away: no NAK is on its way to it.
GoodStandingKept ==
    \A k \in Clients \ crossed, r \in replies :
        Believes(k) /\ client[k].phase = "renewing" => ~(r.who = k /\ r.type = "NAK")

\* What a relayed client is told about a renewal it sent past its relay, by a
\* broadcast on the server's link.
PastRelay(k, r) ==
    /\ k \in Relayed /\ client[k].phase = "renewing" /\ ~r.gi
    /\ r.type = "NAK" \/ k \in Broadcasting

\* An answer somebody still waits for goes where that client can hear it: one
\* without an address is never answered by unicast, one that asked through a relay
\* never by a broadcast on the server's link, one that asked past it at its own
\* address (destination, nakDestination, informDestination).  The exception, and
\* the only one, is PastRelay: such an answer is not heard.
AnswersArrive ==
    \A k \in Clients, r \in replies :
        r.who = k /\ client[k].phase # "bound" => (Hears(k, r) <=> ~PastRelay(k, r))

-----------------------------------------------------------------------------
(* What the source says of the server and the server does not do. *)

\* server.go:466-469 and pool.go:369-372: a DISCOVER that arrives twice is
\* idempotent, and no two devices confidently use one address.
OneHolder ==
    \A j, k \in Clients, a \in Addrs : BelievesIn(j, a) /\ BelievesIn(k, a) => j = k

=============================================================================
