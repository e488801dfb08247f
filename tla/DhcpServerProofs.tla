--------------------------- MODULE DhcpServerProofs ---------------------------
(***************************************************************************)
(* Theorems about the DHCP server, its pool and the clients it serves, for *)
(* any clients, addresses, reservations and terms, and for any loss, delay,*)
(* repetition and reordering of datagrams.                                 *)
(*                                                                         *)
(* First, whatever the server, the administrator and the clock do is a     *)
(* step of the pool, so that everything proved of the pool holds of the    *)
(* server.  Then the invariant behind BeliefBacked and its companions: a   *)
(* client believes in an address because an ACK reached it, so what the    *)
(* pool owes it begins when the ACK is sent, and the invariant speaks of   *)
(* the ACKs and the NAKs under way and of the REQUESTs that may still      *)
(* cause one.                                                              *)
(***************************************************************************)
EXTENDS DhcpServer, DhcpPoolProofs

\* A message of the exchange its sender is in has the form that exchange is made
\* of, and a relay's address as far as it came through one; no message is of an
\* exchange to come.
Sent(m) ==
    LET c == client[m.who] IN
    /\ m.xid <= c.xid
    /\ m.gi => m.who \in Relayed
    /\ m.xid = c.xid =>
        /\ c.phase \in {"selecting", "requesting"} => (m.gi <=> m.who \in Relayed)
        /\ c.phase = "selecting" => m.type = "DISCOVER" /\ m.ci = None
        /\ c.phase = "requesting" => m.ci = None
        /\ c.phase = "renewing" => m.type = "REQUEST" /\ m.sid = None /\ m.req = None
                                   /\ m.ci = c.addr
        /\ c.phase = "bound" => m.ci \in {None, c.addr}
        /\ c.phase = "informing" => m.type = "INFORM" /\ m.ci = c.addr /\ m.ci # None

\* What is still waited for is heard, but for a refusal past the relay.
Arrives(r) ==
    client[r.who].phase # "bound" => (Hears(r.who, r) <=> ~PastRelay(r.who, r))

\* A reply is of the exchange its receiver is in, and goes where it should.
Pending(r) ==
    LET c == client[r.who] IN
    /\ r.xid = c.xid /\ c.phase # "init"
    /\ c.phase = "selecting" => r.type = "OFFER"
    /\ c.phase = "renewing" /\ r.type = "ACK" => r.yi = c.addr
    /\ Arrives(r)

\* A lease that is counted from the REQUEST ends no later than the pool's.
Timed(k) ==
    LET c == client[k] IN
    /\ c.phase \in {"requesting", "renewing"} => c.since <= now
    /\ c.phase \in {"bound", "renewing"} => c.until <= now + LeaseTime

\* The pool has the address for the client until u, and said so.
Stands(k, a, u) ==
    /\ entries[a].key = k /\ told[a] = k
    /\ \/ entries[a].state = "reserved"
       \/ entries[a].state = "leased" /\ entries[a].expires >= u

\* So it is with an address the client believes in, and with one that an ACK on
\* its way would make it believe in.
Relied(k) ==
    LET c == client[k] IN
    /\ c.phase \in {"bound", "renewing"} /\ c.addr \in Addrs /\ c.until > now
          => Stands(k, c.addr, c.until)
    /\ \A r \in replies :
          /\ c.phase \in {"requesting", "renewing"} /\ c.since + LeaseTime > now
          /\ r.who = k /\ r.type = "ACK" /\ r.yi \in Addrs
          => Stands(k, r.yi, c.since + LeaseTime)

\* No NAK is on its way to a client that renews a running lease.
Welcome(k) ==
    LET c == client[k] IN
    c.phase = "renewing" /\ c.until > now
        => \A r \in replies : r.who = k => r.type # "NAK"

\* What Release is about to be called for is an offer still.
OnlyAnOffer == dropping # None => entries[dropping.addr].state = "offered"

Messages == \A m \in requests : Sent(m)
Answers == \A r \in replies : Pending(r)
Times == \A k \in Clients : Timed(k)
Trust == \A k \in Clients \ crossed : Relied(k) /\ Welcome(k)

SInv ==
    /\ IInv /\ ServerTypeOK
    /\ OnlyAnOffer /\ Messages /\ Answers /\ Times /\ Trust

ClientState == [phase : Phases, xid : Nat, addr : Addrs \cup {None, Elsewhere},
                since : 0..MaxTime, until : Nat]

\* What the clients and the server have besides the pool.
Around ==
    /\ client \in [Clients -> ClientState]
    /\ requests \subseteq Request /\ doubled \in 0..MaxDoubles
    /\ replies \subseteq Reply
    /\ dropping \in {None} \cup [who : Clients, addr : Addrs]
    /\ told \in [Addrs -> Clients \cup {None}]
    /\ crossed \subseteq Clients

\* The types of the server are those of the pool and of what is around it.
LEMMA TypesSplit == ServerTypeOK <=> TypeOK /\ Around
BY DEF ServerTypeOK, Around, ClientState

-----------------------------------------------------------------------------
(* Every step of the server is a step of the pool. *)

\* Handling a datagram makes at most one call of the pool.
LEMMA HandleIsPoolStep ==
    ASSUME ServerTypeOK, NEW m \in requests, Handle(m)
    PROVE  [Next]_vars
<1> USE PoolAssumption
<1>1. m.who \in Clients
  BY DEF ServerTypeOK, Request
<1>2. Look => Next
  BY DEF Next
<1>3. CASE HandleDiscover(m)
  <2> DEFINE k == m.who  req == IF m.req \in Addrs THEN m.req ELSE None
  <2>1. CASE OfferRemembered(k)
    <3>1. byKey[k] \in Addrs /\ Offer(k, None)
      BY <1>1, <2>1 DEF OfferRemembered, Offer, ServerTypeOK, TypeOK
    <3> QED
      BY <1>1, <3>1 DEF ClientAction, Next
  <2>2. CASE OfferRequested(k, req)
    <3>1. req \in Addrs /\ Offer(k, req)
      BY <2>2 DEF OfferRequested, Offer
    <3> QED
      BY <1>1, <3>1 DEF ClientAction, Next
  <2>3. CASE OfferOldest(k, req)
    <3>1. PICK a \in OldestFree(Swept) : TRUE
      BY <2>3 DEF OfferOldest
    <3>2. a \in Addrs
      BY <3>1 DEF OldestFree, PoolAssumption
    <3>3. Offer(k, req)
      BY <2>3 DEF Offer
    <3>4. CASE req = None
      BY <1>1, <3>2, <3>3, <3>4 DEF ClientAction, Next
    <3>5. CASE req \in Addrs
      BY <1>1, <3>3, <3>5 DEF ClientAction, Next
    <3> QED
      BY <3>4, <3>5
  <2>4. CASE OfferExhausted(k, req)
    BY <1>2, <2>4 DEF OfferExhausted, Look
  <2> QED
    BY <1>3, <2>1, <2>2, <2>3, <2>4 DEF HandleDiscover
<1>4. CASE HandleOther(m) \/ HandleNotOurs(m)
  BY <1>2, <1>4 DEF HandleOther, HandleNotOurs
<1>5. CASE HandleGranted(m)
  BY <1>1, <1>5 DEF HandleGranted, Commit, ClientAction, Next
<1>6. CASE HandleRefused(m)
  BY <1>1, <1>6 DEF HandleRefused, Commit, ClientAction, Next
<1>7. CASE HandleUnknown(m) \/ HandleInform(m)
  BY <1>7 DEF HandleUnknown, HandleInform, vars
<1>8. CASE HandleDecline(m)
  <2>1. CASE MayDecline(m.who, m.req)
    BY <1>1, <1>8, <2>1 DEF HandleDecline, MayDecline, ClientAction, Next
  <2>2. CASE ~MayDecline(m.who, m.req)
    BY <1>8, <2>2 DEF HandleDecline
  <2> QED
    BY <2>1, <2>2
<1>9. CASE HandleRelease(m)
  <2>1. CASE MayRelease(m.who, m.ci)
    BY <1>1, <1>9, <2>1 DEF HandleRelease, MayRelease, ClientAction, Next
  <2>2. CASE ~MayRelease(m.who, m.ci)
    BY <1>9, <2>2 DEF HandleRelease
  <2> QED
    BY <2>1, <2>2
<1> QED
  BY <1>3, <1>4, <1>5, <1>6, <1>7, <1>8, <1>9 DEF Handle

\* So does every other step.
LEMMA ServerStepsPool ==
    ASSUME ServerTypeOK, [ServerNext]_allVars
    PROVE  [Next]_vars
<1>1. CASE \E m \in requests : Handle(m)
  BY <1>1, HandleIsPoolStep
<1>2. CASE DropOffer
  <2>1. dropping.who \in Clients /\ dropping.addr \in Addrs
    BY <1>2 DEF DropOffer, ServerTypeOK
  <2>2. CASE MayRelease(dropping.who, dropping.addr)
    BY <1>2, <2>1, <2>2 DEF DropOffer, ClientAction, Next
  <2>3. CASE ~MayRelease(dropping.who, dropping.addr)
    BY <1>2, <2>3 DEF DropOffer
  <2> QED
    BY <2>2, <2>3
<1>3. CASE \E k \in Clients : ClientStep(k)
  <2>1. PICK k \in Clients : ClientStep(k)
    BY <1>3
  <2>2. \E c : Becomes(k, c)
    BY <2>1, Zenon DEF ClientStep, Discover, Reboot, Inform, TakeOffer, TakeOther, TakeAck, Refuse,
              TakeNak, Renew, Leave, GiveUp
  <2> QED
    BY <2>2 DEF Becomes, vars
<1>4. CASE PoolStep
  BY <1>4 DEF PoolStep, Next
<1>5. CASE UNCHANGED allVars
  BY <1>5 DEF allVars, vars
<1> QED
  BY <1>1, <1>2, <1>3, <1>4, <1>5 DEF ServerNext

-----------------------------------------------------------------------------
(* What a handler may do around the pool. *)

\* Why a request is refused: somebody else's address, or none of the pool's, and
\* not in a renewal.
Refusable(m) ==
    \/ Wanted(m) \in Addrs /\ ~Available(Swept[Wanted(m)], m.who)
    \/ RequestKind(m) # "renewing"

\* The replies that may be sent to a datagram.
Offered(m, r) == m.type = "DISCOVER" /\ r.type = "OFFER" /\ r.to = destination(m, r.yi)

Granted(m, r) ==
    /\ Served(m) /\ r.type = "ACK" /\ r.yi = Wanted(m) /\ r.yi \in Addrs
    /\ r.to = destination(m, r.yi)
    /\ CommitGranted(m.who, r.yi) /\ told' = Reported(m.who, r.yi)

Denied(m, r) == Served(m) /\ Refusable(m) /\ r.type = "NAK" /\ r.to = nakDestination(m)

Informed(m, r) ==
    m.type = "INFORM" /\ r.type = "ACK" /\ r.yi = None /\ r.to = informDestination(m)

Sending(m, r) ==
    /\ r \in Reply /\ Awaited(r) /\ r.who = m.who /\ r.xid = m.xid /\ r.gi = m.gi
    /\ Offered(m, r) \/ Granted(m, r) \/ Denied(m, r) \/ Informed(m, r)

\* Where an answer goes is somewhere an answer can go.
LEMMA DestinationType ==
    ASSUME NEW m \in Request, NEW yi
    PROVE  {destination(m, yi), nakDestination(m), informDestination(m)}
             \subseteq Addrs \cup {Relay, Broadcast, Elsewhere}
BY DEF Request, destination, nakDestination, informDestination

\* Sending adds the answer or does nothing.
LEMMA SendAdds ==
    ASSUME NEW x, Send(x), NEW r \in replies'
    PROVE  r \in replies \/ (r = x /\ Awaited(x))
BY DEF Send

\* The fields of an answer.
LEMMA AnswerFields ==
    ASSUME NEW m, NEW type, NEW yi, NEW to
    PROVE  LET r == Answer(m, type, yi, to) IN
           /\ r.type = type /\ r.who = m.who /\ r.xid = m.xid
           /\ r.yi = yi /\ r.to = to /\ r.gi = m.gi
BY DEF Answer

\* An answer has the type of a reply.
LEMMA AnswerType ==
    ASSUME NEW m \in Request, NEW type \in {"OFFER", "ACK", "NAK"},
           NEW yi \in Addrs \cup {None},
           NEW to \in {destination(m, yi), nakDestination(m), informDestination(m)}
    PROVE  Answer(m, type, yi, to) \in Reply
<1>1. to \in Addrs \cup {Relay, Broadcast, Elsewhere}
  BY DestinationType
<1>2. m.who \in Clients /\ m.xid \in Nat /\ m.gi \in BOOLEAN
  BY DEF Request
<1> QED
  BY <1>1, <1>2 DEF Answer, Reply

\* A handler leaves the clients alone and answers only its sender's exchange.
LEMMA HandleAnswers ==
    ASSUME ServerTypeOK, NEW m \in requests, Handle(m), NEW r \in replies'
    PROVE  r \in replies \/ Sending(m, r)
<1> USE PoolAssumption
<1>0. m \in Request
  BY DEF ServerTypeOK
<1>1. m.who \in Clients
  BY <1>0 DEF Request
<1>2. CASE HandleDiscover(m)
  <2>1. CASE UNCHANGED replies
    BY <2>1
  <2>2. CASE /\ \/ OfferRemembered(m.who)
                \/ OfferRequested(m.who, IF m.req \in Addrs THEN m.req ELSE None)
                \/ OfferOldest(m.who, IF m.req \in Addrs THEN m.req ELSE None)
             /\ Send(Answer(m, "OFFER", byKey'[m.who], destination(m, byKey'[m.who])))
    <3> DEFINE yi == byKey'[m.who]  x == Answer(m, "OFFER", yi, destination(m, yi))
    <3>1. yi \in Addrs
      <4> DEFINE Hit == \E es : \E a \in Addrs : \E b : BindTo(es, a, m.who, b)
      <4>1. Hit
        <5>1. ASSUME OfferRemembered(m.who) PROVE Hit
          BY <1>1, <5>1 DEF OfferRemembered, ServerTypeOK, TypeOK
        <5>2. ASSUME NEW req \in Addrs \cup {None}, OfferRequested(m.who, req) PROVE Hit
          BY <5>2 DEF OfferRequested
        <5>3. ASSUME NEW req, OfferOldest(m.who, req) PROVE Hit
          BY <5>3 DEF OfferOldest, OldestFree
        <5> QED
          BY <2>2, <5>1, <5>2, <5>3
      <4> QED
        BY <4>1, <1>1 DEF BindTo, ServerTypeOK, TypeOK
    <3>2. r \in replies \/ (r = x /\ Awaited(x))
      BY <2>2, SendAdds
    <3>3. CASE r = x /\ Awaited(x)
      <4>0. x \in Reply
        BY <1>0, <3>1, AnswerType
      <4>1. /\ r.type = "OFFER" /\ r.who = m.who /\ r.xid = m.xid /\ r.yi = yi
            /\ r.to = destination(m, yi) /\ r.gi = m.gi
        BY <3>3, AnswerFields
      <4>2. Offered(m, r)
        BY <1>2, <4>1 DEF HandleDiscover, Offered
      <4> QED
        BY <3>3, <4>0, <4>1, <4>2 DEF Sending
    <3> QED
      BY <3>2, <3>3
  <2> QED
    BY <1>2, <2>1, <2>2 DEF HandleDiscover
<1>3. CASE HandleGranted(m)
  <2> DEFINE a == Wanted(m)  x == Answer(m, "ACK", a, destination(m, a))
  <2>1. r \in replies \/ (r = x /\ Awaited(x))
    BY <1>3, SendAdds DEF HandleGranted
  <2>2. CASE r = x /\ Awaited(x)
    <3>1. /\ r.type = "ACK" /\ r.who = m.who /\ r.xid = m.xid /\ r.yi = a
          /\ r.to = destination(m, a) /\ r.gi = m.gi
      BY <2>2, AnswerFields
    <3>2. Granted(m, r) /\ a \in Addrs
      BY <1>3, <3>1 DEF HandleGranted, Granted
    <3>3. x \in Reply
      BY <1>0, <3>2, AnswerType
    <3> QED
      BY <2>2, <3>1, <3>2, <3>3 DEF Sending
  <2> QED
    BY <2>1, <2>2
<1>4. CASE (HandleRefused(m) \/ HandleNotOurs(m)) /\ ~UNCHANGED replies
  <2> DEFINE x == Answer(m, "NAK", None, nakDestination(m))
  <2>1. r \in replies \/ (r = x /\ Awaited(x))
    BY <1>4, SendAdds DEF HandleRefused, HandleNotOurs
  <2>2. CASE r = x /\ Awaited(x)
    <3>1. /\ r.type = "NAK" /\ r.who = m.who /\ r.xid = m.xid /\ r.yi = None
          /\ r.to = nakDestination(m) /\ r.gi = m.gi
      BY <2>2, AnswerFields
    <3>2. Refusable(m) /\ Served(m)
      BY <1>4 DEF HandleRefused, HandleNotOurs, CommitRefused, SpeaksForOthers, Refusable
    <3>3. Denied(m, r)
      BY <3>1, <3>2 DEF Denied
    <3>4. x \in Reply
      BY <1>0, AnswerType
    <3> QED
      BY <2>2, <3>1, <3>3, <3>4 DEF Sending
  <2> QED
    BY <2>1, <2>2
<1>5. CASE HandleInform(m)
  <2> DEFINE x == Answer(m, "ACK", None, informDestination(m))
  <2>1. r \in replies \/ (r = x /\ Awaited(x))
    BY <1>5, SendAdds DEF HandleInform
  <2>2. CASE r = x /\ Awaited(x)
    <3>1. /\ r.type = "ACK" /\ r.who = m.who /\ r.xid = m.xid /\ r.yi = None
          /\ r.to = informDestination(m) /\ r.gi = m.gi
      BY <2>2, AnswerFields
    <3>2. Informed(m, r)
      BY <1>5, <3>1 DEF HandleInform, Informed
    <3>3. x \in Reply
      BY <1>0, AnswerType
    <3> QED
      BY <2>2, <3>1, <3>2, <3>3 DEF Sending
  <2> QED
    BY <2>1, <2>2
<1>6. CASE UNCHANGED replies
  BY <1>6
<1> QED
  BY <1>2, <1>3, <1>4, <1>5, <1>6
     DEF Handle, HandleOther, HandleUnknown, HandleDecline, HandleRelease

\* What no handler touches, and which way the rest goes.
LEMMA HandleLeaves ==
    ASSUME ServerTypeOK, NEW m \in requests, Handle(m)
    PROVE  /\ client' = client /\ now' = now /\ requests' \subseteq requests
           /\ doubled' \in 0..MaxDoubles /\ crossed \subseteq crossed'
           /\ crossed' \subseteq Clients
           /\ told' \in [Addrs -> Clients \cup {None}]
           /\ dropping' \in {None} \cup [who : Clients, addr : Addrs]
<1> USE PoolAssumption, ServerAssumption
<1>0. m \in Request /\ m.who \in Clients
  BY DEF ServerTypeOK, Request
<1>1. requests' \subseteq requests /\ doubled' \in 0..MaxDoubles
  BY DEF Handle, Deliver, ServerTypeOK
<1>2. now' = now /\ client' = client
  BY DEF Handle, HandleDiscover, HandleOther, HandleGranted, HandleRefused, HandleNotOurs,
         HandleUnknown, HandleDecline, HandleRelease, HandleInform, OfferRemembered,
         OfferRequested, OfferOldest, OfferExhausted, BindTo, Look, CommitGranted,
         CommitRefused, Release, Decline, vars
<1>3. crossed' = crossed \/ crossed' = crossed \cup (Undone(m) \cap Resting)
  BY DEF Handle, HandleDiscover, HandleOther, HandleGranted, HandleRefused, HandleNotOurs,
         HandleUnknown, HandleDecline, HandleRelease, HandleInform, Cross
<1>4. crossed \subseteq crossed' /\ crossed' \subseteq Clients
  BY <1>3 DEF ServerTypeOK, Resting
<1>5. told' = told \/ told' = Reported(m.who, Wanted(m))
  BY DEF Handle, HandleDiscover, HandleOther, HandleGranted, HandleRefused, HandleNotOurs,
         HandleUnknown, HandleDecline, HandleRelease, HandleInform
<1>6. told' \in [Addrs -> Clients \cup {None}]
  BY <1>0, <1>5 DEF Reported, ServerTypeOK
<1>7. dropping' = dropping \/ (HandleOther(m) /\ dropping' # dropping)
  BY DEF Handle, HandleDiscover, HandleOther, HandleGranted, HandleRefused, HandleNotOurs,
         HandleUnknown, HandleDecline, HandleRelease, HandleInform
<1>8. ASSUME HandleOther(m)
      PROVE  dropping' \in {None} \cup [who : Clients, addr : Addrs]
  BY <1>0, <1>8 DEF HandleOther, Dropped
<1> QED
  BY <1>1, <1>2, <1>4, <1>6, <1>7, <1>8 DEF ServerTypeOK

-----------------------------------------------------------------------------
(* Answers. *)

\* The shapes of a REQUEST.
LEMMA Shapes ==
    ASSUME NEW m \in Request
    PROVE  /\ Served(m) => m.type = "REQUEST"
           /\ RequestKind(m) = "renewing" <=> /\ m.type = "REQUEST" /\ m.sid = None
                                              /\ m.req = None /\ m.ci # None
           /\ Served(m) /\ m.sid = None /\ m.req = None => RequestKind(m) = "renewing"
           /\ RequestKind(m) = "renewing" => Wanted(m) = m.ci
BY DEF Served, Wanted, RequestKind

\* Where answers go.
LEMMA Destinations ==
    ASSUME NEW m, NEW yi
    PROVE  /\ m.gi => /\ destination(m, yi) = Relay /\ nakDestination(m) = Relay
                      /\ informDestination(m) = Relay
           /\ ~m.gi =>
                /\ destination(m, yi) = IF m.who \in Broadcasting \/ m.ci = None
                                        THEN Broadcast ELSE m.ci
                /\ nakDestination(m) = Broadcast
                /\ informDestination(m) = IF m.ci # None THEN m.ci ELSE Broadcast
BY DEF destination, nakDestination, informDestination

\* An answer that is sent is one its receiver waits for and can hear: a message
\* of its exchange carries the client's address exactly when the client has one.
LEMMA SentIsPending ==
    ASSUME ServerTypeOK, NEW m \in requests, Sent(m), NEW r, Sending(m, r)
    PROVE  Pending(r)
<1> USE ServerAssumption
<1> DEFINE c == client[m.who]
<1>0. m \in Request /\ m.who \in Clients
  BY DEF ServerTypeOK, Request
<1>1. r.who = m.who /\ m.xid = c.xid /\ r.xid = c.xid /\ c.phase # "init"
  BY DEF Sending, Awaited
<1>2. c.phase \in Phases
  BY <1>0 DEF ServerTypeOK
<1>3. c.phase = "selecting" => r.type = "OFFER"
  <2>1. Served(m) => m.type = "REQUEST"
    BY <1>0, Shapes
  <2>2. c.phase = "selecting" => m.type = "DISCOVER"
    BY <1>1 DEF Sent
  <2> QED
    BY <2>1, <2>2 DEF Sending, Offered, Granted, Denied, Informed
<1>4. c.phase = "renewing" /\ r.type = "ACK" => r.yi = c.addr
  BY <1>0, <1>1, Shapes DEF Sent, Sending, Offered, Granted, Denied, Informed
<1>5. Arrives(r)
  <2> SUFFICES ASSUME c.phase # "bound" PROVE Hears(m.who, r) <=> ~PastRelay(m.who, r)
    BY <1>1 DEF Arrives
  <2>1. CASE m.gi
    <3>1. r.to = Relay /\ m.who \in Relayed /\ r.gi
      BY <1>1, <2>1, Destinations DEF Sent, Sending, Offered, Granted, Denied, Informed
    <3> QED
      BY <1>1, <3>1 DEF Hears, PastRelay
  <2>2. CASE m.who \notin Relayed
    <3>1. r.to = Broadcast \/ (m.ci # None /\ r.to = m.ci)
      BY <2>2, Destinations DEF Sent, Sending, Offered, Granted, Denied, Informed
    <3>2. CASE r.to = Broadcast
      BY <1>1, <2>2, <3>2 DEF Hears, PastRelay
    <3>3. CASE m.ci # None /\ r.to = m.ci
      <4>1. m.ci = c.addr /\ c.phase \in {"renewing", "informing"}
        BY <1>1, <1>2, <3>3 DEF Sent, Phases
      <4> QED
        BY <1>1, <2>2, <3>3, <4>1 DEF Hears, PastRelay
    <3> QED
      BY <3>1, <3>2, <3>3
  <2>3. CASE ~m.gi /\ m.who \in Relayed
    <3>1. ~r.gi /\ c.phase \in {"renewing", "informing"}
      BY <1>1, <1>2, <2>3 DEF Sent, Sending, Phases
    <3>2. CASE c.phase = "informing"
      <4>1. r.to = c.addr
        BY <1>0, <1>1, <2>3, <3>2, Shapes, Destinations
        DEF Sent, Sending, Offered, Granted, Denied, Informed
      <4> QED
        BY <1>1, <3>2, <4>1 DEF Hears, PastRelay
    <3>3. CASE c.phase = "renewing"
      <4>1. c.addr # Broadcast
        BY <1>0 DEF ServerTypeOK
      <4>2. CASE Denied(m, r)
        <5>1. r.to = Broadcast /\ r.type = "NAK"
          BY <2>3, <4>2, Destinations DEF Denied
        <5> QED
          BY <1>1, <2>3, <3>1, <3>3, <4>1, <5>1 DEF Hears, PastRelay
      <4>3. CASE Granted(m, r)
        <5>1. r.type = "ACK" /\ r.to = IF m.who \in Broadcasting THEN Broadcast ELSE c.addr
          BY <1>0, <1>1, <2>3, <3>3, <4>3, Shapes, Destinations DEF Sent, Granted
        <5> QED
          BY <1>1, <2>3, <3>1, <3>3, <4>1, <5>1 DEF Hears, PastRelay
      <4> QED
        BY <1>1, <3>3, <4>2, <4>3 DEF Sent, Sending, Offered, Informed
    <3> QED
      BY <3>1, <3>2, <3>3
  <2> QED
    BY <2>1, <2>2, <2>3
<1> QED
  BY <1>1, <1>3, <1>4, <1>5 DEF Pending

-----------------------------------------------------------------------------
(* What stands in the pool stays, whatever is handled that does not undo it. *)

\* An address that stands is not lapsed, and nobody else can have it.
LEMMA StandsNow ==
    ASSUME IInv, NEW k \in Clients, NEW a \in Addrs, NEW u \in Nat, u > now, Stands(k, a, u)
    PROVE  /\ Swept[a] = entries[a]
           /\ \A j \in Clients : Available(Swept[a], j) <=> j = k
           /\ entries[a].state \in {"reserved", "leased"}
           /\ k # None
<1> USE PoolAssumption
<1>1. entries[a].state \in {"reserved", "leased"} /\ entries[a].key = k /\ k # None
  BY DEF Stands
<1>2. ~Lapsed(entries[a])
  BY <1>1 DEF Stands, Lapsed, LiveStates, IInv, TypeOK, Entry
<1>3. Swept[a] = entries[a]
  BY <1>2 DEF Swept
<1> QED
  BY <1>1, <1>3 DEF Available

\* Standing needs only the entry and the report of the address.
LEMMA StandsFrame ==
    ASSUME NEW k, NEW a \in Addrs, NEW u, Stands(k, a, u),
           entries'[a] = entries[a], told'[a] = told[a]
    PROVE  Stands(k, a, u)'
BY DEF Stands

\* An offer goes to an address that stands for somebody only if the message
\* undoes it, or if it is that client's own reservation.
LEMMA StandsDiscover ==
    ASSUME SInv, NEW m \in requests, HandleDiscover(m),
           NEW k \in Clients, NEW a \in Addrs, NEW u \in Nat, u > now,
           Stands(k, a, u), k \notin Undone(m)
    PROVE  Stands(k, a, u)'
<1> USE PoolAssumption
<1> DEFINE j == m.who  req == IF m.req \in Addrs THEN m.req ELSE None
<1>0. j \in Clients /\ IInv /\ TypeOK /\ told' = told
  BY DEF SInv, IInv, ServerTypeOK, Request, HandleDiscover
<1>1. /\ Swept[a] = entries[a] /\ (Available(Swept[a], j) => j = k)
      /\ entries[a].state \in {"reserved", "leased"} /\ entries[a].key = k /\ k # None
  BY <1>0, StandsNow DEF Stands
<1>2. Undone(m) = AtIndexOf(j) \cup
            {i \in {j} : /\ byKey[i] = None /\ m.req \in Addrs /\ Swept[m.req].key = i
                         /\ Swept[m.req].state \in {"leased", "reserved"}}
  BY DEF HandleDiscover, Undone
<1>3. CASE OfferRemembered(j)
  <2>1. byKey[j] \in Addrs
    BY <1>0, <1>3 DEF OfferRemembered, TypeOK
  <2>2. CASE byKey[j] # a
    <3>1. entries'[a] = entries[a]
      BY <1>1, <1>3, <2>2 DEF OfferRemembered, BindTo, Swept
    <3> QED
      BY <1>0, <3>1, StandsFrame
  <2>3. CASE byKey[j] = a
    <3>1. entries[a].state = "reserved"
      BY <1>1, <1>2, <2>1, <2>3 DEF AtIndexOf, LeasedTo
    <3>2. j = k
      BY <1>0, <1>1, <2>1, <2>3, <3>1 DEF IInv, PoolInv, OwnReservation
    <3>3. entries'[a] = Bound(entries[a], k, TRUE)
      BY <1>1, <1>3, <2>3, <3>1, <3>2 DEF OfferRemembered, BindTo, Swept
    <3> QED
      BY <1>0, <3>3 DEF Bound, Holding, Stands
  <2> QED
    BY <2>2, <2>3
<1>4. CASE OfferRequested(j, req)
  <2>1. req = m.req /\ m.req \in Addrs /\ byKey[j] = None /\ Available(Swept[req], j)
    BY <1>4 DEF OfferRequested
  <2>2. req # a
    BY <1>1, <1>2, <2>1
  <2>3. entries'[a] = entries[a]
    BY <1>1, <1>4, <2>2 DEF OfferRequested, BindTo, Swept
  <2> QED
    BY <1>0, <2>3, StandsFrame
<1>5. CASE OfferOldest(j, req)
  <2>1. PICK b \in OldestFree(Swept) : BindTo(Swept, b, j, FALSE)
    BY <1>5 DEF OfferOldest
  <2>2. b # a
    BY <1>1, <2>1 DEF OldestFree
  <2>3. entries'[a] = entries[a]
    BY <1>1, <2>1, <2>2 DEF BindTo, Swept
  <2> QED
    BY <1>0, <2>3, StandsFrame
<1>6. CASE OfferExhausted(j, req)
  <2>1. entries'[a] = entries[a]
    BY <1>1, <1>6 DEF OfferExhausted
  <2> QED
    BY <1>0, <2>1, StandsFrame
<1> QED
  BY <1>3, <1>4, <1>5, <1>6 DEF HandleDiscover

\* A commit prolongs what stands for its sender and touches nobody else's.
LEMMA StandsGranted ==
    ASSUME SInv, NEW m \in requests, HandleGranted(m),
           NEW k \in Clients, NEW a \in Addrs, NEW u \in Nat, u > now, u <= now + LeaseTime,
           Stands(k, a, u), k \notin Undone(m)
    PROVE  Stands(k, a, u)'
<1> USE PoolAssumption
<1> DEFINE j == m.who  b == Wanted(m)
<1>0. /\ j \in Clients /\ m \in Request /\ IInv /\ TypeOK /\ b \in Addrs
      /\ told' = [told EXCEPT ![b] = j] /\ told \in [Addrs -> Clients \cup {None}]
      /\ CommitGranted(j, b)
  BY DEF SInv, IInv, ServerTypeOK, Request, HandleGranted, Reported
<1>1. /\ Swept[a] = entries[a] /\ (Available(Swept[a], j) => j = k)
      /\ entries[a].state \in {"reserved", "leased"} /\ entries[a].key = k /\ k # None
  BY <1>0, StandsNow DEF Stands
<1>2. CASE b = a
  <2>1. j = k
    BY <1>0, <1>1, <1>2 DEF CommitGranted
  <2>2. entries'[a] = Leased(entries[a], k)
    BY <1>0, <1>1, <1>2, <2>1 DEF CommitGranted
  <2>3. now \in Nat /\ LeaseTime \in Nat
    BY <1>0 DEF TypeOK
  <2> QED
    BY <1>0, <1>2, <2>1, <2>2, <2>3 DEF Leased, Bound, Holding, Stands
<1>3. CASE b # a
  <2>1. a \notin LeavesBehind(Swept, j, b)
    <3>1. SUFFICES ASSUME byKey[j] = a, entries[a].state # "reserved"
                   PROVE  FALSE
      BY <1>1 DEF LeavesBehind
    <3>2. Undone(m) = AtIndexOf(j)
      <4>1. m.type = "REQUEST"
        BY <1>0, Shapes DEF HandleGranted
      <4> QED
        BY <1>3, <3>1, <4>1 DEF Undone
    <3>3. byKey[j] # None
      BY <3>1
    <3>4. k \in AtIndexOf(j)
      BY <1>1, <3>1, <3>3 DEF AtIndexOf, LeasedTo
    <3> QED
      BY <3>2, <3>4
  <2>2. entries'[a] = entries[a] /\ told'[a] = told[a]
    BY <1>0, <1>1, <1>3, <2>1 DEF CommitGranted
  <2> QED
    BY <2>2, StandsFrame
<1> QED
  BY <1>2, <1>3

\* The same of every handler.
LEMMA StandsHandled ==
    ASSUME SInv, NEW m \in requests, Handle(m),
           NEW k \in Clients, NEW a \in Addrs, NEW u \in Nat, u > now, u <= now + LeaseTime,
           Stands(k, a, u), k \notin crossed', k \in Resting
    PROVE  Stands(k, a, u)'
<1> USE PoolAssumption
<1>0. m \in Request /\ m.who \in Clients /\ IInv
  BY DEF SInv, ServerTypeOK, Request
<1>1. /\ Swept[a] = entries[a] /\ entries[a].state \in {"reserved", "leased"}
      /\ entries[a].key = k /\ k # None
  BY <1>0, StandsNow DEF Stands
<1>2. Cross(m) => k \notin Undone(m)
  BY DEF Cross
<1>3. CASE HandleDiscover(m)
  BY <1>2, <1>3, StandsDiscover DEF HandleDiscover
<1>4. CASE HandleGranted(m)
  BY <1>2, <1>4, StandsGranted DEF HandleGranted
<1>5. CASE HandleOther(m) \/ HandleRefused(m) \/ HandleNotOurs(m)
  <2>1. entries' = Swept /\ told' = told
    BY <1>5 DEF HandleOther, HandleRefused, HandleNotOurs, Look, CommitRefused
  <2> QED
    BY <1>1, <2>1, StandsFrame
<1>6. CASE HandleUnknown(m) \/ HandleInform(m)
  BY <1>6, StandsFrame DEF HandleUnknown, HandleInform
<1>7. CASE HandleDecline(m)
  <2>1. CASE MayDecline(m.who, m.req) /\ m.req = a
    <3>1. k = m.who /\ LeasedTo(k, a) /\ m.type = "DECLINE"
      BY <1>0, <1>1, <1>7, <2>1 DEF MayDecline, LeasedTo, HandleDecline
    <3>2. k \in Undone(m)
      BY <2>1, <3>1 DEF Undone
    <3> QED
      BY <1>2, <1>7, <3>2 DEF HandleDecline
  <2>2. CASE MayDecline(m.who, m.req) /\ m.req # a
    <3>1. entries'[a] = entries[a] /\ told' = told
      BY <1>0, <1>7, <2>2 DEF HandleDecline, Decline, MayDecline, IInv, TypeOK
    <3> QED
      BY <3>1, StandsFrame
  <2>3. CASE ~MayDecline(m.who, m.req)
    BY <1>7, <2>3, StandsFrame DEF HandleDecline, vars
  <2> QED
    BY <2>1, <2>2, <2>3
<1>8. CASE HandleRelease(m)
  <2>1. CASE MayRelease(m.who, m.ci) /\ m.ci = a
    <3>1. k = m.who /\ LeasedTo(k, a) /\ m.type = "RELEASE"
      BY <1>0, <1>1, <1>8, <2>1 DEF MayRelease, LeasedTo, HandleRelease
    <3>2. k \in Undone(m)
      BY <2>1, <3>1 DEF Undone
    <3> QED
      BY <1>2, <1>8, <3>2 DEF HandleRelease
  <2>2. CASE MayRelease(m.who, m.ci) /\ m.ci # a
    <3>1. entries'[a] = entries[a] /\ told' = told
      BY <1>0, <1>8, <2>2 DEF HandleRelease, Release, MayRelease, IInv, TypeOK
    <3> QED
      BY <3>1, StandsFrame
  <2>3. CASE ~MayRelease(m.who, m.ci)
    BY <1>8, <2>3, StandsFrame DEF HandleRelease, vars
  <2> QED
    BY <2>1, <2>2, <2>3
<1> QED
  BY <1>3, <1>4, <1>5, <1>6, <1>7, <1>8 DEF Handle

\* What an ACK promises stands when it is sent.
LEMMA AckStands ==
    ASSUME SInv, NEW m \in requests, NEW r, Granted(m, r), NEW u \in Nat, u <= now + LeaseTime
    PROVE  Stands(m.who, r.yi, u)'
<1> USE PoolAssumption
<1> DEFINE k == m.who  a == r.yi
<1>0. /\ k \in Clients /\ a \in Addrs /\ TypeOK /\ CommitGranted(k, a)
      /\ told' = [told EXCEPT ![a] = k] /\ told \in [Addrs -> Clients \cup {None}]
  BY DEF SInv, IInv, ServerTypeOK, Request, Granted, Reported
<1>1. entries'[a] = Leased(Swept[a], k)
  BY <1>0 DEF CommitGranted
<1>2. now \in Nat /\ LeaseTime \in Nat
  BY <1>0 DEF TypeOK
<1> QED
  BY <1>0, <1>1, <1>2 DEF Leased, Bound, Holding, Stands

-----------------------------------------------------------------------------
(* Every step preserves the invariant. *)

\* What the pool's part of the invariant needs of a step.
LEMMA PoolPart ==
    ASSUME SInv, [ServerNext]_allVars, Around'
    PROVE  IInv' /\ ServerTypeOK'
<1>1. IInv'
  BY ServerStepsPool, NextInv DEF SInv
<1>2. TypeOK'
  BY <1>1 DEF IInv
<1>3. ServerTypeOK' <=> TypeOK' /\ Around'
  BY DEF ServerTypeOK, Around, ClientState
<1> QED
  BY <1>1, <1>2, <1>3

\* A datagram is handled.
LEMMA HandleInv ==
    ASSUME SInv, NEW m \in requests, Handle(m)
    PROVE  SInv'
<1> USE PoolAssumption
<1>0. /\ ServerTypeOK /\ IInv /\ Sent(m) /\ m \in Request /\ m.who \in Clients
      /\ now \in Nat /\ LeaseTime \in Nat
  BY DEF SInv, Messages, ServerTypeOK, Request, IInv, TypeOK
<1>1. /\ client' = client /\ now' = now /\ requests' \subseteq requests
      /\ doubled' \in 0..MaxDoubles /\ crossed \subseteq crossed' /\ crossed' \subseteq Clients
      /\ told' \in [Addrs -> Clients \cup {None}]
      /\ dropping' \in {None} \cup [who : Clients, addr : Addrs]
  BY <1>0, HandleLeaves
<1>2. \A r \in replies' : r \in replies \/ Sending(m, r)
  BY <1>0, HandleAnswers
<1>3. Around'
  <2>1. replies' \subseteq Reply
    BY <1>0, <1>2 DEF ServerTypeOK, Sending
  <2>2. client \in [Clients -> ClientState] /\ requests \subseteq Request
    BY <1>0, TypesSplit DEF Around
  <2> QED
    BY <1>1, <2>1, <2>2 DEF Around, ClientState
<1>4. IInv' /\ ServerTypeOK'
  BY <1>3, PoolPart DEF ServerNext
<1>5. OnlyAnOffer'
  <2>1. dropping = None
    BY DEF Handle
  <2>2. CASE dropping' = dropping
    BY <2>1, <2>2 DEF OnlyAnOffer
  <2>3. CASE dropping' # dropping
    <3>1. HandleOther(m)
      BY <2>3 DEF Handle, HandleDiscover, HandleGranted, HandleRefused, HandleNotOurs,
                  HandleUnknown, HandleDecline, HandleRelease, HandleInform
    <3>2. Dropped(m.who) # {} /\ dropping' = [who |-> m.who, addr |-> byKey[m.who]]
      BY <2>1, <2>3, <3>1 DEF HandleOther
    <3>3. Swept[byKey[m.who]].state = "offered" /\ entries' = Swept
      BY <3>1, <3>2 DEF HandleOther, Look, Dropped
    <3> QED
      BY <3>2, <3>3 DEF OnlyAnOffer
  <2> QED
    BY <2>2, <2>3
<1>6. Messages'
  BY <1>1 DEF SInv, Messages, Sent
<1>7. Answers'
  <2>1. ASSUME NEW r \in replies' PROVE Pending(r)
    BY <1>0, <1>2, <2>1, SentIsPending DEF SInv, Answers
  <2> QED
    BY <1>1, <2>1 DEF Answers, Pending, Arrives, PastRelay, Hears
<1>8. Times'
  BY <1>1 DEF SInv, Times, Timed
<1>9. ASSUME NEW k \in Clients, k \notin crossed' PROVE Relied(k)' /\ Welcome(k)'
  <2> DEFINE c == client[k]
  <2>1. /\ Relied(k) /\ Welcome(k) /\ Timed(k)
        /\ c.until \in Nat /\ c.since \in Nat
    BY <1>0, <1>1, <1>9 DEF SInv, Trust, Times, ServerTypeOK
  <2>2. ASSUME NEW a \in Addrs, NEW u \in Nat, u > now, u <= now + LeaseTime, Stands(k, a, u),
               c.phase \in {"requesting", "bound", "renewing"}
        PROVE  Stands(k, a, u)'
    <3>1. k \in Resting
      BY <2>2 DEF Resting
    <3> QED
      BY <1>9, <2>2, <3>1, StandsHandled
  <2>3. ASSUME NEW a \in Addrs, NEW u \in Nat, a = c.addr, u = c.until,
               c.phase \in {"bound", "renewing"}, u > now
        PROVE  Stands(k, a, u)'
    <3>1. Stands(k, a, u) /\ u <= now + LeaseTime
      BY <2>1, <2>3 DEF Relied, Timed
    <3> QED
      BY <2>2, <2>3, <3>1
  <2>4. ASSUME NEW r \in replies', NEW a \in Addrs, NEW u \in Nat,
               r.who = k, r.type = "ACK", a = r.yi, u = c.since + LeaseTime,
               c.phase \in {"requesting", "renewing"}, u > now
        PROVE  Stands(k, a, u)'
    <3>1. u <= now + LeaseTime
      BY <1>0, <2>1, <2>4 DEF Timed
    <3>2. CASE r \in replies
      <4>1. Stands(k, a, u)
        BY <2>1, <2>4, <3>2 DEF Relied
      <4> QED
        BY <2>2, <2>4, <3>1, <4>1
    <3>3. CASE Sending(m, r)
      <4>1. a # None
        OBVIOUS
      <4>2. Granted(m, r) /\ m.who = k
        BY <2>4, <3>3, <4>1 DEF Sending, Offered, Denied, Informed
      <4> QED
        BY <2>4, <3>1, <4>2, AckStands
    <3> QED
      BY <1>2, <3>2, <3>3
  <2>5. Relied(k)'
    <3>1. c.since + LeaseTime \in Nat
      BY <1>0, <2>1
    <3> QED
      BY <1>1, <2>1, <2>3, <2>4, <3>1 DEF Relied, Stands
  <2>6. ASSUME NEW r \in replies', r.who = k, r.type = "NAK",
               c.phase = "renewing", c.until > now
        PROVE  FALSE
    <3>1. Sending(m, r) /\ Denied(m, r) /\ m.who = k
      BY <1>2, <2>1, <2>6 DEF Welcome, Sending, Offered, Granted, Informed
    <3>2. m.xid = c.xid
      BY <3>1 DEF Sending, Awaited
    <3>3. /\ m.type = "REQUEST" /\ m.sid = None /\ m.req = None /\ m.ci = c.addr
      BY <1>0, <2>6, <3>1, <3>2 DEF Sent
    <3>4. RequestKind(m) = "renewing" /\ Wanted(m) = c.addr
      BY <1>0, <3>1, <3>3, Shapes DEF Denied
    <3>5. c.addr \in Addrs /\ ~Available(Swept[c.addr], k)
      BY <3>1, <3>4 DEF Denied, Refusable
    <3>6. Stands(k, c.addr, c.until)
      BY <2>1, <2>6, <3>5 DEF Relied
    <3> QED
      BY <1>0, <2>1, <2>6, <3>5, <3>6, StandsNow
  <2>7. Welcome(k)'
    BY <1>1, <2>6 DEF Welcome
  <2> QED
    BY <2>5, <2>7
<1>10. Trust'
  BY <1>9 DEF Trust
<1> QED
  BY <1>4, <1>5, <1>6, <1>7, <1>8, <1>10 DEF SInv

\* The clients begin with an address of another server or with none.
LEMMA StartInv ==
    ASSUME ServerInit
    PROVE  SInv
<1> USE PoolAssumption, ServerAssumption
<1>1. IInv
  BY InitInv DEF ServerInit
<1>2. client \in [Clients -> ClientState]
  <2>1. ASSUME NEW k \in Clients PROVE client[k] \in ClientState
    BY DEF ServerInit, ClientState, Phases
  <2> QED
    BY <2>1 DEF ServerInit
<1>3. ServerTypeOK
  BY <1>1, <1>2, TypesSplit DEF IInv, ServerInit, Around
<1>4. OnlyAnOffer /\ Messages /\ Answers
  BY DEF ServerInit, OnlyAnOffer, Messages, Answers
<1>5. ASSUME NEW k \in Clients PROVE Timed(k) /\ Relied(k) /\ Welcome(k)
  BY DEF ServerInit, Init, Timed, Relied, Welcome
<1> QED
  BY <1>1, <1>3, <1>4, <1>5 DEF SInv, Times, Trust

\* An offer that is given up was nobody's lease.
LEMMA DropInv ==
    ASSUME SInv, DropOffer
    PROVE  SInv'
<1>0. /\ dropping.addr \in Addrs /\ entries[dropping.addr].state = "offered"
      /\ entries \in [Addrs -> Entry]
  BY DEF SInv, DropOffer, OnlyAnOffer, ServerTypeOK, TypeOK
<1>1. /\ UNCHANGED <<client, requests, doubled, replies, told, crossed>>
      /\ dropping' = None /\ now' = now
  BY DEF DropOffer, Release, vars
<1>2. Around'
  BY <1>1, TypesSplit DEF SInv, Around, ClientState
<1>3. IInv' /\ ServerTypeOK'
  BY <1>2, PoolPart DEF ServerNext
<1>4. ASSUME NEW a \in Addrs, NEW k, NEW u, Stands(k, a, u) PROVE Stands(k, a, u)'
  <2>1. a # dropping.addr
    BY <1>0, <1>4 DEF Stands
  <2>2. entries'[a] = entries[a]
    BY <1>0, <2>1 DEF DropOffer, Release, vars
  <2> QED
    BY <1>1, <1>4, <2>2, StandsFrame
<1>5. ASSUME NEW k \in Clients \ crossed' PROVE Relied(k)' /\ Welcome(k)'
  <2>1. Relied(k) /\ Welcome(k)
    BY <1>1, <1>5 DEF SInv, Trust
  <2>2. ASSUME NEW a \in Addrs, NEW u, a = client[k].addr, u = client[k].until,
               client[k].phase \in {"bound", "renewing"}, u > now
        PROVE  Stands(k, a, u)'
    BY <1>4, <2>1, <2>2 DEF Relied
  <2>3. ASSUME NEW r \in replies, NEW a \in Addrs, NEW u, r.who = k, r.type = "ACK", a = r.yi,
               u = client[k].since + LeaseTime,
               client[k].phase \in {"requesting", "renewing"}, u > now
        PROVE  Stands(k, a, u)'
    BY <1>4, <2>1, <2>3 DEF Relied
  <2> QED
    BY <1>1, <2>1, <2>2, <2>3 DEF Relied, Welcome, Stands
<1>6. Messages' /\ Answers' /\ Times'
  BY <1>1 DEF SInv, Messages, Sent, Answers, Pending, Arrives, PastRelay, Hears, Times, Timed
<1> QED
  BY <1>1, <1>3, <1>5, <1>6 DEF SInv, OnlyAnOffer, Trust

\* The clock only ends what is owed, and the administrator frees what is declined.
LEMMA PoolStepInv ==
    ASSUME SInv, PoolStep
    PROVE  SInv'
<1> USE PoolAssumption
<1>0. /\ entries \in [Addrs -> Entry] /\ now \in Nat /\ LeaseTime \in Nat
      /\ client \in [Clients -> ClientState] /\ ServerTypeOK
  BY TypesSplit DEF SInv, ServerTypeOK, TypeOK, Around
<1>1. UNCHANGED <<client, requests, doubled, replies, dropping, told, crossed>>
  BY DEF PoolStep, serverVars
<1>2. now' \in Nat /\ now' >= now
  BY <1>0 DEF PoolStep, Tick, Free
<1>3. Around'
  BY <1>1, TypesSplit DEF SInv, Around, ClientState
<1>4. IInv' /\ ServerTypeOK'
  BY <1>3, PoolPart DEF ServerNext
<1>5. ASSUME NEW a \in Addrs, entries[a].state # "declined" PROVE entries'[a] = entries[a]
  BY <1>0, <1>5 DEF PoolStep, Tick, Free
<1>6. ASSUME NEW a \in Addrs, NEW k, NEW u, Stands(k, a, u) PROVE Stands(k, a, u)'
  <2>1. entries'[a] = entries[a]
    BY <1>5, <1>6 DEF Stands
  <2> QED
    BY <1>1, <1>6, <2>1, StandsFrame
<1>7. ASSUME NEW k \in Clients \ crossed' PROVE Relied(k)' /\ Welcome(k)'
  <2>1. Relied(k) /\ Welcome(k) /\ client[k].until \in Nat /\ client[k].since \in Nat
    BY <1>0, <1>1, <1>7 DEF SInv, Trust, ClientState
  <2>2. ASSUME NEW a \in Addrs, NEW u \in Nat, a = client[k].addr, u = client[k].until,
               client[k].phase \in {"bound", "renewing"}, u > now'
        PROVE  Stands(k, a, u)'
    BY <1>0, <1>2, <1>6, <2>1, <2>2 DEF Relied
  <2>3. ASSUME NEW r \in replies, NEW a \in Addrs, NEW u \in Nat, r.who = k, r.type = "ACK",
               a = r.yi, u = client[k].since + LeaseTime,
               client[k].phase \in {"requesting", "renewing"}, u > now'
        PROVE  Stands(k, a, u)'
    <3>1. u > now
      BY <1>0, <1>2, <2>3
    <3> QED
      BY <1>6, <2>1, <2>3, <3>1 DEF Relied
  <2>4. client[k].since + LeaseTime \in Nat
    BY <1>0, <2>1
  <2>5. Relied(k)'
    BY <1>1, <2>1, <2>2, <2>3, <2>4 DEF Relied, Stands
  <2>6. Welcome(k)'
    BY <1>0, <1>1, <1>2, <2>1 DEF Welcome
  <2> QED
    BY <2>5, <2>6
<1>8. Messages' /\ Answers'
  BY <1>1 DEF SInv, Messages, Sent, Answers, Pending, Arrives, PastRelay, Hears
<1>9. Times'
  <2>1. ASSUME NEW k \in Clients PROVE Timed(k)'
    <3>1. Timed(k) /\ client[k].until \in Nat /\ client[k].since \in Nat
      BY <1>0 DEF SInv, Times, ClientState
    <3> QED
      BY <1>0, <1>1, <1>2, <3>1 DEF Timed
  <2> QED
    BY <2>1 DEF Times
<1>10. OnlyAnOffer'
  <2>1. CASE dropping # None
    <3>1. dropping.addr \in Addrs /\ entries[dropping.addr].state = "offered"
      BY <1>0, <2>1 DEF SInv, OnlyAnOffer, ServerTypeOK
    <3> QED
      BY <1>1, <1>5, <3>1 DEF OnlyAnOffer
  <2> QED
    BY <1>1, <2>1 DEF OnlyAnOffer
<1> QED
  BY <1>1, <1>4, <1>7, <1>8, <1>9, <1>10 DEF SInv, Trust

\* What a step of a client asks for, of whichever kind it is: the messages and
\* replies of the others are as they were, and its own fit what it becomes.
LEMMA BecomesInv ==
    ASSUME SInv, [ServerNext]_allVars, NEW k \in Clients, NEW c \in ClientState, Becomes(k, c),
           requests' \subseteq Request,
           \A m \in requests' : m \in requests \/ m.who = k,
           \A m \in requests' : m.who = k => Sent(m)',
           \A r \in replies' : r.who = k => Pending(r)',
           Timed(k)', k \notin crossed' => Relied(k)' /\ Welcome(k)'
    PROVE  SInv'
<1>0. /\ client \in [Clients -> ClientState] /\ requests \subseteq Request
      /\ replies \subseteq Reply /\ crossed \subseteq Clients
  BY TypesSplit DEF SInv, Around
<1>1. /\ client' = [client EXCEPT ![k] = c]
      /\ now' = now /\ entries' = entries /\ told' = told /\ doubled' = doubled
      /\ dropping' = dropping /\ replies' \subseteq replies
      /\ crossed' \subseteq crossed /\ crossed \subseteq crossed' \cup {k}
  BY DEF Becomes
<1>2. \A j \in Clients : j # k => client'[j] = client[j]
  BY <1>0, <1>1
<1>3. Around'
  BY <1>0, <1>1, TypesSplit DEF SInv, Around, ClientState
<1>4. IInv' /\ ServerTypeOK'
  BY <1>3, PoolPart
<1>5. Messages'
  <2>1. ASSUME NEW m \in requests', m.who # k PROVE Sent(m)'
    <3>1. Sent(m) /\ m.who \in Clients
      BY <1>0, <2>1 DEF SInv, Messages, Request
    <3>2. client'[m.who] = client[m.who]
      BY <1>2, <2>1, <3>1
    <3> QED
      BY <3>1, <3>2 DEF Sent
  <2> QED
    BY <2>1 DEF Messages
<1>6. Answers'
  <2>1. ASSUME NEW r \in replies', r.who # k PROVE Pending(r)'
    <3>1. Pending(r) /\ r.who \in Clients
      BY <1>0, <1>1, <2>1 DEF SInv, Answers, Reply
    <3>2. client'[r.who] = client[r.who]
      BY <1>2, <2>1, <3>1
    <3> QED
      BY <3>1, <3>2 DEF Pending, Arrives, PastRelay, Hears
  <2> QED
    BY <2>1 DEF Answers
<1>7. Times'
  BY <1>1, <1>2 DEF SInv, Times, Timed
<1>8. ASSUME NEW j \in Clients \ crossed', j # k PROVE Relied(j)' /\ Welcome(j)'
  <2>1. Relied(j) /\ Welcome(j) /\ client'[j] = client[j]
    BY <1>1, <1>2, <1>8 DEF SInv, Trust
  <2> QED
    BY <1>1, <2>1 DEF Relied, Welcome, Stands
<1> QED
  BY <1>1, <1>4, <1>5, <1>6, <1>7, <1>8 DEF SInv, OnlyAnOffer, Trust

\* A client that rests on nothing and waits for nothing is owed nothing.
LEMMA IdleInv ==
    ASSUME SInv, [ServerNext]_allVars, NEW k \in Clients,
           NEW a \in Addrs \cup {None, Elsewhere}, Becomes(k, Idle(k, a)),
           requests' \subseteq Request,
           \A m \in requests' :
              m \in requests \/ (m.who = k /\ m.xid = client[k].xid /\ (m.gi => k \in Relayed))
    PROVE  SInv'
<1> USE PoolAssumption
<1> DEFINE c == Idle(k, a)
<1>0. client \in [Clients -> ClientState] /\ client[k].xid \in Nat
  BY TypesSplit DEF SInv, Around, ClientState
<1>1. /\ c \in ClientState /\ c.phase = "init" /\ c.xid = client[k].xid
      /\ c.since = 0 /\ c.until = 0
  BY <1>0 DEF Idle, Being, ClientState, Phases
<1> HIDE DEF c
<1>2. client'[k] = c
  BY <1>0 DEF Becomes, c
<1>3. \A r \in replies' : r.who # k
  BY <1>1 DEF Becomes, c
<1>4. ASSUME NEW m \in requests', m.who = k PROVE Sent(m)'
  <2>1. m.xid <= client[k].xid /\ (m.gi => k \in Relayed)
    BY <1>0, <1>4 DEF SInv, Messages, Sent
  <2> QED
    BY <1>1, <1>2, <1>4, <2>1 DEF Sent
<1>5. Timed(k)' /\ Relied(k)' /\ Welcome(k)'
  BY <1>1, <1>2 DEF Timed, Relied, Welcome
<1> QED
  BY <1>1, <1>3, <1>4, <1>5, BecomesInv DEF c

\* A new exchange leaves every message and every reply of the old one behind.
LEMMA AskingInv ==
    ASSUME SInv, [ServerNext]_allVars, NEW k \in Clients,
           NEW p \in Phases, NEW s \in 0..MaxTime, NEW u \in Nat,
           Becomes(k, Being(p, client[k].xid + 1, client[k].addr, s, u)),
           p \in {"selecting", "requesting", "informing"}
             \/ (p = "renewing" /\ client[k].phase = "bound" /\ client[k].until = u),
           p = "requesting" \/ p = "renewing" => s = now,
           NEW n \in Request, requests' = requests \cup {n},
           n.who = k, n.xid = client[k].xid + 1, n.gi => k \in Relayed,
           p \in {"selecting", "requesting"} => (n.gi <=> k \in Relayed),
           p = "selecting" => n.type = "DISCOVER" /\ n.ci = None,
           p = "requesting" => n.ci = None,
           p = "renewing" => n.type = "REQUEST" /\ n.sid = None /\ n.req = None
                             /\ n.ci = client[k].addr,
           p = "informing" => n.type = "INFORM" /\ n.ci = client[k].addr /\ n.ci # None
    PROVE  SInv'
<1> USE PoolAssumption
<1> DEFINE x == client[k].xid + 1
           c == Being(p, x, client[k].addr, s, u)
<1>0. /\ client \in [Clients -> ClientState] /\ client[k].xid \in Nat
      /\ client[k].addr \in Addrs \cup {None, Elsewhere} /\ requests \subseteq Request
      /\ crossed \subseteq Clients /\ now \in Nat
  BY TypesSplit DEF SInv, Around, ClientState, ServerTypeOK, TypeOK
<1>1. /\ c \in ClientState /\ c.phase = p /\ c.xid = x /\ c.addr = client[k].addr
      /\ c.since = s /\ c.until = u
  <2>1. x \in Nat
    BY <1>0
  <2> HIDE DEF x
  <2> QED
    BY <1>0, <2>1 DEF Being, ClientState
<1> HIDE DEF c
<1>2. client'[k] = c /\ now' = now /\ entries' = entries /\ told' = told
  BY <1>0 DEF Becomes, c
<1>3. \A r \in replies' : r.who # k
  <2>1. ASSUME NEW r \in replies, r.who = k PROVE r.xid # x
    BY <1>0, <2>1 DEF SInv, Answers, Pending
  <2> QED
    BY <1>1, <2>1 DEF Becomes, c
<1>4. ASSUME NEW m \in requests', m.who = k PROVE Sent(m)'
  <2>1. CASE m \in requests
    <3>1. m.xid <= client[k].xid /\ m.xid \in Nat /\ (m.gi => k \in Relayed)
      BY <1>0, <1>4, <2>1 DEF SInv, Messages, Sent, Request
    <3>2. m.xid < x
      BY <1>0, <3>1
    <3> QED
      BY <1>0, <1>1, <1>2, <1>4, <3>1, <3>2 DEF Sent
  <2>2. CASE m = n
    <3>1. p # "bound"
      OBVIOUS
    <3> QED
      BY <1>0, <1>1, <1>2, <2>2, <3>1 DEF Sent
  <2> QED
    BY <2>1, <2>2
<1>5. Timed(k)'
  <2>1. p = "renewing" => u <= now + LeaseTime
    BY DEF SInv, Times, Timed
  <2>2. p # "bound"
    OBVIOUS
  <2> QED
    BY <1>0, <1>1, <1>2, <2>1, <2>2 DEF Timed
<1>6. ASSUME k \notin crossed' PROVE Relied(k)' /\ Welcome(k)'
  <2>1. ASSUME p = "renewing", NEW a \in Addrs, a = client[k].addr, u > now
        PROVE  Stands(k, a, u)'
    <3>1. k \notin crossed
      BY <1>1, <1>6, <2>1 DEF Becomes, c
    <3>2. Stands(k, a, u)
      BY <2>1, <3>1 DEF SInv, Trust, Relied
    <3> QED
      BY <1>2, <3>2, StandsFrame
  <2>2. p # "bound"
    OBVIOUS
  <2> QED
    BY <1>1, <1>2, <1>3, <2>1, <2>2 DEF Relied, Welcome, Stands
<1> QED
  BY <1>0, <1>1, <1>3, <1>4, <1>5, <1>6, BecomesInv DEF c

\* An offer makes its client ask for the address, and promises nothing yet.
LEMMA TakeOfferInv ==
    ASSUME SInv, [ServerNext]_allVars, NEW k \in Clients, TakeOffer(k)
    PROVE  SInv'
<1> USE PoolAssumption, ServerAssumption
<1>0. /\ client \in [Clients -> ClientState] /\ client[k].xid \in Nat
      /\ requests \subseteq Request /\ replies \subseteq Reply /\ now \in 0..MaxTime
      /\ client[k].phase = "selecting"
  BY TypesSplit DEF SInv, Around, ClientState, ServerTypeOK, TypeOK, TakeOffer
<1>1. PICK r \in replies :
        /\ Hears(k, r) /\ r.type = "OFFER"
        /\ Ask(k, Via(k), "REQUEST", None, r.yi, Us, client[k].xid)
        /\ Becomes(k, Being("requesting", client[k].xid, r.yi, now, 0))
  BY DEF TakeOffer
<1> DEFINE c == Being("requesting", client[k].xid, r.yi, now, 0)
           n == [type |-> "REQUEST", who |-> k, xid |-> client[k].xid, gi |-> Via(k),
                 ci |-> None, req |-> r.yi, sid |-> Us]
<1>2. r.yi \in Addrs \cup {None}
  BY <1>0, <1>1 DEF Reply
<1>3. /\ c \in ClientState /\ c.phase = "requesting" /\ c.xid = client[k].xid
      /\ c.since = now /\ c.until = 0 /\ n \in Request
  BY <1>0, <1>2 DEF Being, ClientState, Phases, Request, Via
<1>4. /\ requests' = requests \cup {n} /\ n.who = k /\ n.xid = client[k].xid /\ n.ci = None
      /\ (n.gi <=> k \in Relayed)
  BY <1>1 DEF Ask, Via
<1> HIDE DEF c, n
<1>5. client'[k] = c /\ now' = now /\ replies' \subseteq replies
  BY <1>0, <1>1 DEF Becomes, c
<1>6. ASSUME NEW m \in requests', m.who = k PROVE Sent(m)'
  <2>1. CASE m \in requests
    <3>1. /\ m.xid <= client[k].xid /\ (m.gi => k \in Relayed)
          /\ m.xid = client[k].xid => m.ci = None /\ (m.gi <=> k \in Relayed)
      BY <1>0, <1>6, <2>1 DEF SInv, Messages, Sent
    <3> QED
      BY <1>3, <1>5, <1>6, <3>1 DEF Sent
  <2>2. CASE m = n
    BY <1>0, <1>3, <1>4, <1>5, <2>2 DEF Sent
  <2> QED
    BY <1>4, <2>1, <2>2
<1>7. ASSUME NEW q \in replies', q.who = k
      PROVE  q.type = "OFFER" /\ q.xid = client[k].xid /\ Arrives(q)'
  <2>1. /\ q.type = "OFFER" /\ q.xid = client[k].xid
        /\ (q.to = Relay /\ k \in Relayed) \/ (q.to = Broadcast /\ k \notin Relayed)
    BY <1>0, <1>5, <1>7 DEF SInv, Answers, Pending, Arrives, PastRelay, Hears
  <2> QED
    BY <1>3, <1>5, <1>7, <2>1 DEF Arrives, PastRelay, Hears
<1>8. \A q \in replies' : q.who = k => Pending(q)'
  BY <1>3, <1>5, <1>7 DEF Pending
<1>9. Timed(k)' /\ Relied(k)' /\ Welcome(k)'
  BY <1>0, <1>3, <1>5, <1>7 DEF Timed, Relied, Welcome
<1> QED
  BY <1>0, <1>1, <1>3, <1>4, <1>6, <1>8, <1>9, BecomesInv DEF c

\* An ACK makes its client believe in what stands already.
LEMMA BoundInv ==
    ASSUME SInv, [ServerNext]_allVars, NEW k \in Clients, NEW r \in replies,
           Hears(k, r), r.type = "ACK", requests' = requests,
           client[k].phase \in {"requesting", "renewing"},
           Becomes(k, Being("bound", client[k].xid, r.yi, 0, client[k].since + LeaseTime))
    PROVE  SInv'
<1> USE PoolAssumption, ServerAssumption
<1> DEFINE u == client[k].since + LeaseTime
           c == Being("bound", client[k].xid, r.yi, 0, u)
<1>0. /\ client \in [Clients -> ClientState] /\ client[k].xid \in Nat
      /\ client[k].since \in 0..MaxTime /\ LeaseTime \in Nat
      /\ requests \subseteq Request /\ replies \subseteq Reply /\ now \in Nat
      /\ r.who = k /\ u \in Nat /\ crossed \subseteq Clients
  BY TypesSplit DEF SInv, Around, ClientState, ServerTypeOK, TypeOK, Hears
<1> HIDE DEF u
<1>1. r.yi \in Addrs \cup {None}
  BY <1>0 DEF Reply
<1>2. /\ c \in ClientState /\ c.phase = "bound" /\ c.xid = client[k].xid
      /\ c.addr = r.yi /\ c.until = u
  BY <1>0, <1>1 DEF Being, ClientState, Phases
<1> HIDE DEF c
<1>3. /\ client'[k] = c /\ now' = now /\ replies' \subseteq replies
      /\ entries' = entries /\ told' = told /\ crossed' = crossed
  BY <1>0, <1>2 DEF Becomes, c, u
<1>4. client[k].phase = "renewing" => r.yi = client[k].addr
  BY <1>0 DEF SInv, Answers, Pending
<1>5. ASSUME NEW m \in requests', m.who = k PROVE Sent(m)'
  <2>1. /\ m.xid <= client[k].xid /\ (m.gi => k \in Relayed)
        /\ m.xid = client[k].xid => m.ci \in {None, r.yi}
    BY <1>0, <1>4, <1>5 DEF SInv, Messages, Sent
  <2> QED
    BY <1>2, <1>3, <1>5, <2>1 DEF Sent
<1>6. ASSUME NEW q \in replies', q.who = k PROVE Pending(q)'
  <2>1. q.xid = client[k].xid
    BY <1>0, <1>3, <1>6 DEF SInv, Answers, Pending
  <2> QED
    BY <1>2, <1>3, <1>6, <2>1 DEF Pending, Arrives
<1>7. Timed(k)'
  <2>1. client[k].since <= now
    BY DEF SInv, Times, Timed
  <2>2. u <= now + LeaseTime
    BY <1>0, <2>1 DEF u
  <2> QED
    BY <1>2, <1>3, <2>2 DEF Timed
<1>8. ASSUME k \notin crossed' PROVE Relied(k)' /\ Welcome(k)'
  <2>1. ASSUME NEW a \in Addrs, NEW v, a = r.yi, v = u, v > now PROVE Stands(k, a, v)'
    <3>1. Stands(k, a, v)
      BY <1>0, <1>3, <1>8, <2>1 DEF SInv, Trust, Relied, u
    <3> QED
      BY <1>3, <2>1, <3>1, StandsFrame
  <2> QED
    BY <1>2, <1>3, <2>1 DEF Relied, Welcome, Stands
<1> QED
  BY <1>0, <1>2, <1>5, <1>6, <1>7, <1>8, BecomesInv DEF c, u

\* Whatever a client does.
LEMMA ClientInv ==
    ASSUME SInv, NEW k \in Clients, ClientStep(k)
    PROVE  SInv'
<1> USE PoolAssumption, ServerAssumption
<1>0. /\ client \in [Clients -> ClientState] /\ client[k].xid \in Nat
      /\ client[k].addr \in Addrs \cup {None, Elsewhere} /\ client[k].until \in Nat
      /\ requests \subseteq Request /\ replies \subseteq Reply /\ now \in 0..MaxTime
      /\ 0 \in 0..MaxTime /\ [ServerNext]_allVars
  BY TypesSplit DEF SInv, Around, ClientState, ServerTypeOK, TypeOK, ServerNext
<1>1. CASE Discover(k)
  <2> DEFINE n == [type |-> "DISCOVER", who |-> k, xid |-> client[k].xid + 1, gi |-> Via(k),
                   ci |-> None, req |-> client[k].addr, sid |-> None]
  <2>1. n \in Request
    BY <1>0 DEF Request, Via
  <2>2. /\ requests' = requests \cup {n}
        /\ Becomes(k, Being("selecting", client[k].xid + 1, client[k].addr, 0, 0))
        /\ n.who = k /\ n.xid = client[k].xid + 1 /\ n.type = "DISCOVER" /\ n.ci = None
        /\ (n.gi <=> k \in Relayed)
    BY <1>1 DEF Discover, Ask, Via
  <2> HIDE DEF n
  <2>3. "selecting" \in Phases
    BY DEF Phases
  <2> QED
    BY <1>0, <2>1, <2>2, <2>3, AskingInv
<1>2. CASE Reboot(k)
  <2> DEFINE n == [type |-> "REQUEST", who |-> k, xid |-> client[k].xid + 1, gi |-> Via(k),
                   ci |-> None, req |-> client[k].addr, sid |-> None]
  <2>1. n \in Request
    BY <1>0 DEF Request, Via
  <2>2. /\ requests' = requests \cup {n}
        /\ Becomes(k, Being("requesting", client[k].xid + 1, client[k].addr, now, 0))
        /\ n.who = k /\ n.xid = client[k].xid + 1 /\ n.ci = None /\ (n.gi <=> k \in Relayed)
    BY <1>2 DEF Reboot, Ask, Via
  <2> HIDE DEF n
  <2>3. "requesting" \in Phases
    BY DEF Phases
  <2> QED
    BY <1>0, <2>1, <2>2, <2>3, AskingInv
<1>3. CASE Inform(k)
  <2>0. PICK gi \in EitherWay(k) :
          Ask(k, gi, "INFORM", Elsewhere, None, None, client[k].xid + 1)
    BY <1>3 DEF Inform
  <2>a. gi \in BOOLEAN /\ (gi => k \in Relayed)
    BY <2>0 DEF EitherWay, Via
  <2> DEFINE n == [type |-> "INFORM", who |-> k, xid |-> client[k].xid + 1, gi |-> gi,
                   ci |-> Elsewhere, req |-> None, sid |-> None]
  <2>1. n \in Request
    BY <1>0, <2>a DEF Request
  <2>2. /\ requests' = requests \cup {n}
        /\ Becomes(k, Being("informing", client[k].xid + 1, client[k].addr, 0, 0))
        /\ n.who = k /\ n.xid = client[k].xid + 1 /\ n.ci = client[k].addr
        /\ n.type = "INFORM" /\ n.ci # None /\ (n.gi => k \in Relayed)
    BY <1>3, <2>0, <2>a, ServerAssumption DEF Inform, Ask
  <2> HIDE DEF n
  <2>3. "informing" \in Phases
    BY DEF Phases
  <2> QED
    BY <1>0, <2>1, <2>2, <2>3, AskingInv
<1>4. CASE Renew(k)
  <2>0. PICK gi \in EitherWay(k) :
          Ask(k, gi, "REQUEST", client[k].addr, None, None, client[k].xid + 1)
    BY <1>4 DEF Renew
  <2>a. gi \in BOOLEAN /\ (gi => k \in Relayed)
    BY <2>0 DEF EitherWay, Via
  <2> DEFINE n == [type |-> "REQUEST", who |-> k, xid |-> client[k].xid + 1, gi |-> gi,
                   ci |-> client[k].addr, req |-> None, sid |-> None]
  <2>1. n \in Request
    BY <1>0, <2>a DEF Request
  <2>2. /\ requests' = requests \cup {n}
        /\ Becomes(k, Being("renewing", client[k].xid + 1, client[k].addr, now, client[k].until))
        /\ n.who = k /\ n.xid = client[k].xid + 1 /\ n.type = "REQUEST" /\ n.sid = None
        /\ n.req = None /\ n.ci = client[k].addr /\ client[k].phase = "bound"
        /\ (n.gi => k \in Relayed)
    BY <1>4, <2>0, <2>a DEF Renew, Ask
  <2> HIDE DEF n
  <2>3. "renewing" \in Phases
    BY DEF Phases
  <2> QED
    BY <1>0, <2>1, <2>2, <2>3, AskingInv
<1>5. CASE TakeOffer(k)
  BY <1>0, <1>5, TakeOfferInv
<1>6. CASE TakeOther(k)
  <2> DEFINE n == [type |-> "REQUEST", who |-> k, xid |-> client[k].xid, gi |-> Via(k),
                   ci |-> None, req |-> Elsewhere, sid |-> Them]
  <2>0. n \in Request
    BY <1>0 DEF Request, Via
  <2>1. /\ requests' = requests \cup {n} /\ n.who = k /\ n.xid = client[k].xid
        /\ (n.gi => k \in Relayed)
    BY <1>6 DEF TakeOther, Ask, Via
  <2> HIDE DEF n
  <2> QED
    BY <1>0, <1>6, <2>0, <2>1, IdleInv DEF TakeOther
<1>7. CASE TakeAck(k)
  <2>1. PICK r \in replies :
          /\ Hears(k, r) /\ r.type = "ACK"
          /\ IF client[k].phase = "informing" THEN Becomes(k, Idle(k, client[k].addr))
             ELSE /\ client[k].phase \in {"requesting", "renewing"}
                  /\ Becomes(k, Being("bound", client[k].xid, r.yi, 0, client[k].since + LeaseTime))
    BY <1>7 DEF TakeAck
  <2>2. requests' = requests
    BY <1>7 DEF TakeAck
  <2>3. CASE client[k].phase = "informing"
    BY <1>0, <2>1, <2>2, <2>3, IdleInv
  <2>4. CASE client[k].phase # "informing"
    BY <1>0, <2>1, <2>2, <2>4, BoundInv
  <2> QED
    BY <2>3, <2>4
<1>8. CASE Refuse(k)
  <2>1. PICK r \in replies : Ask(k, Via(k), "DECLINE", None, r.yi, Us, client[k].xid)
    BY <1>8 DEF Refuse
  <2> DEFINE n == [type |-> "DECLINE", who |-> k, xid |-> client[k].xid, gi |-> Via(k),
                   ci |-> None, req |-> r.yi, sid |-> Us]
  <2>2. r.yi \in Addrs \cup {None}
    BY <1>0, <2>1 DEF Reply
  <2>3. n \in Request
    BY <1>0, <2>2 DEF Request, Via
  <2>4. /\ requests' = requests \cup {n} /\ n.who = k /\ n.xid = client[k].xid
        /\ (n.gi => k \in Relayed)
    BY <2>1 DEF Ask, Via
  <2> HIDE DEF n
  <2> QED
    BY <1>0, <1>8, <2>3, <2>4, IdleInv DEF Refuse
<1>9. CASE TakeNak(k)
  BY <1>0, <1>9, IdleInv DEF TakeNak
<1>10. CASE Leave(k)
  <2> DEFINE n == [type |-> "RELEASE", who |-> k, xid |-> client[k].xid, gi |-> FALSE,
                   ci |-> client[k].addr, req |-> None, sid |-> Us]
  <2>1. /\ n \in Request /\ requests' = requests \cup {n} /\ n.who = k /\ n.xid = client[k].xid
        /\ ~n.gi
    BY <1>0, <1>10 DEF Request, Leave, Ask
  <2> HIDE DEF n
  <2> QED
    BY <1>0, <1>10, <2>1, IdleInv DEF Leave
<1>11. CASE GiveUp(k)
  BY <1>0, <1>11, IdleInv DEF GiveUp
<1> QED
  BY <1>1, <1>2, <1>3, <1>4, <1>5, <1>6, <1>7, <1>8, <1>9, <1>10, <1>11 DEF ClientStep

-----------------------------------------------------------------------------
(* The theorems. *)

\* The invariant holds, whatever is lost, doubled, delayed or out of order.
THEOREM ServerInvariant == ServerSpec => []SInv
<1>1. ServerInit => SInv
  BY StartInv
<1>2. SInv /\ [ServerNext]_allVars => SInv'
  <2> SUFFICES ASSUME SInv, [ServerNext]_allVars PROVE SInv'
    OBVIOUS
  <2>1. CASE \E m \in requests : Handle(m)
    BY <2>1, HandleInv
  <2>2. CASE DropOffer
    BY <2>2, DropInv
  <2>3. CASE \E k \in Clients : ClientStep(k)
    BY <2>3, ClientInv
  <2>4. CASE PoolStep
    BY <2>4, PoolStepInv
  <2>5. CASE UNCHANGED allVars
    <3>1. Around'
      BY <2>5, TypesSplit DEF SInv, Around, ClientState, allVars
    <3>2. IInv' /\ ServerTypeOK'
      BY <3>1, PoolPart
    <3>3. OnlyAnOffer' /\ Messages' /\ Answers'
      BY <2>5 DEF SInv, OnlyAnOffer, Messages, Sent, Answers, Pending, Arrives, PastRelay, Hears, allVars
    <3>4. Times' /\ Trust'
      BY <2>5 DEF SInv, Times, Timed, Trust, Relied, Welcome, Stands, allVars
    <3> QED
      BY <3>2, <3>3, <3>4 DEF SInv
  <2> QED
    BY <2>1, <2>2, <2>3, <2>4, <2>5 DEF ServerNext
<1> QED
  BY <1>1, <1>2, PTL DEF ServerSpec

\* Every variable keeps its type.
THEOREM ServerTypes == ServerSpec => []ServerTypeOK
<1>1. SInv => ServerTypeOK
  BY DEF SInv
<1> QED
  BY <1>1, ServerInvariant, PTL

\* The server is a user of the pool and nothing else: it implements the pool's
\* specification, and whatever is proved of the pool holds of the server.
THEOREM ServerUsesPool == ServerSpec => Spec
<1>1. ServerInit => Init
  BY DEF ServerInit
<1>2. SInv /\ [ServerNext]_allVars => [Next]_vars
  BY ServerStepsPool DEF SInv
<1> QED
  BY <1>1, <1>2, ServerInvariant, PTL DEF ServerSpec, Spec

\* In particular: with clients and a network around it the pool is still a
\* registry in which a binding ends at the tick its term does, and nobody but its
\* client, or one whose index entry still points at the address, ends it earlier.
THEOREM ServerKeepsRegistry == ServerSpec => RefinesRegistry /\ LiveBindingEnds /\ QuarantineHeld
  BY ServerUsesPool, PoolRefinesRegistry, LiveBindingsEndByTheirClients, QuarantineIsHeld, PTL

\* What a client believes in stands in the pool for as long.
THEOREM BeliefsBacked == ServerSpec => []BeliefBacked
<1>1. SInv => BeliefBacked
  BY DEF SInv, Trust, Relied, Stands, BeliefBacked, BelievesIn, Believes
<1> QED
  BY <1>1, ServerInvariant, PTL

\* And the device store was told so last.
THEOREM BeliefsReported == ServerSpec => []BeliefReported
<1>1. SInv => BeliefReported
  BY DEF SInv, Trust, Relied, Stands, BeliefReported, BelievesIn, Believes
<1> QED
  BY <1>1, ServerInvariant, PTL

\* No NAK is on its way to a client that renews a running lease.
THEOREM GoodStanding == ServerSpec => []GoodStandingKept
<1>1. SInv => GoodStandingKept
  BY DEF SInv, Trust, Welcome, GoodStandingKept, Believes
<1> QED
  BY <1>1, ServerInvariant, PTL

\* Every answer somebody waits for goes where that client can hear it, but for what
\* a relayed client is told about a renewal it sent past its relay.
THEOREM AnswersAreHeard == ServerSpec => []AnswersArrive
<1>1. SInv => AnswersArrive
  BY DEF SInv, Answers, Pending, Arrives, AnswersArrive
<1> QED
  BY <1>1, ServerInvariant, PTL

===============================================================================
