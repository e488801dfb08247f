--------------------------- MODULE DhcpPoolProofs ---------------------------
(***************************************************************************)
(* Theorems about the address pool, for every set of clients, every range, *)
(* every injective assignment of reservations and all terms.               *)
(*                                                                         *)
(* The properties are not inductive as they stand: that an offer cannot    *)
(* give a client a second address rests on the index, and that it cannot   *)
(* undo a reservation rests on the owner being in the index.  PoolInv says *)
(* what the index knows.  It is stated over an arbitrary map of entries    *)
(* because half of the methods act on the swept map, not on entries.       *)
(***************************************************************************)
EXTENDS DhcpPool, TLAPS

\* Reservations belong to their owners, and while the owner is not forgotten
\* they are in force and the owner is in the index.
Reservations(es) ==
    \A a \in Addrs :
        /\ es[a].state = "reserved" => Owner[a] # None /\ es[a].key = Owner[a]
        /\ Owner[a] # None /\ Owner[a] \notin forgotten =>
              es[a].state = "reserved" /\ byKey[Owner[a]] # None

\* A live entry is the one its client's index entry points at.
Indexed(es) ==
    \A a \in Addrs :
        es[a].state \in LiveStates /\ es[a].key \notin forgotten => byKey[es[a].key] = a

\* No index entry points at somebody else's reservation.
OwnReservation(es) ==
    \A k \in Clients : byKey[k] # None /\ es[byKey[k]].state = "reserved"
                          => es[byKey[k]].key = k

Terms(es) ==
    \A a \in Addrs :
        /\ es[a].state \in LiveStates =>
              /\ es[a].key # None /\ es[a].expires > 0
              /\ es[a].expires <= now + (IF es[a].state = "offered" THEN OfferHold ELSE LeaseTime)
        /\ es[a].state \notin LiveStates => es[a].expires = 0
        /\ es[a].freedAt <= now
        /\ es[a].state = "declined" => es[a].key = None

Map(es) == es \in [Addrs -> Entry]

PoolInv(es) ==
    /\ Map(es)
    /\ Reservations(es)
    /\ Indexed(es)
    /\ OwnReservation(es)
    /\ Terms(es)

IInv == TypeOK /\ PoolInv(entries)

-----------------------------------------------------------------------------
(* The sweep. *)

\* What the sweep makes of one entry: itself, or the same entry free from the
\* moment it ended.
LEMMA SweptEntry ==
    ASSUME TypeOK, NEW a \in Addrs
    PROVE  /\ Swept[a] \in Entry
           /\ Swept[a].key = entries[a].key
           /\ Swept[a].state \in LiveStates => Swept[a] = entries[a] /\ ~Lapsed(entries[a])
           /\ \/ Swept[a] = entries[a]
              \/ /\ Lapsed(entries[a])
                 /\ Swept[a].state = "free" /\ Swept[a].expires = 0
                 /\ Swept[a].freedAt = entries[a].expires
<1>1. entries[a] \in Entry
  BY DEF TypeOK
<1>2. CASE Lapsed(entries[a])
  <2>1. Swept[a] = Freed(entries[a], entries[a].expires)
    BY <1>2 DEF Swept
  <2> QED
    BY <1>1, <1>2, <2>1 DEF Freed, Entry, States, LiveStates
<1>3. CASE ~Lapsed(entries[a])
  <2>1. Swept[a] = entries[a]
    BY <1>3 DEF Swept
  <2> QED
    BY <1>1, <1>3, <2>1
<1> QED
  BY <1>2, <1>3

\* The sweep preserves the invariant.
LEMMA SweptInv ==
    ASSUME IInv
    PROVE  PoolInv(Swept)
<1> USE DEF IInv
<1>0. now \in Nat
  BY PoolAssumption DEF TypeOK
<1>1. Map(Swept)
  <2>1. \A a \in Addrs : Swept[a] \in Entry
    BY SweptEntry
  <2> QED
    BY <2>1 DEF Map, Swept
<1>2. \A a \in Addrs : Swept[a].state = "reserved" <=> entries[a].state = "reserved"
  <2> SUFFICES ASSUME NEW a \in Addrs
               PROVE  Swept[a].state = "reserved" <=> entries[a].state = "reserved"
    OBVIOUS
  <2> QED
    BY SweptEntry DEF Lapsed, LiveStates
<1>3. Reservations(Swept)
  BY <1>2, SweptEntry DEF PoolInv, Reservations
<1>4. Indexed(Swept)
  BY SweptEntry DEF PoolInv, Indexed
<1>5. OwnReservation(Swept)
  BY <1>2, SweptEntry DEF PoolInv, OwnReservation, TypeOK
<1>6. Terms(Swept)
  <2> SUFFICES ASSUME NEW a \in Addrs
               PROVE  /\ Swept[a].state \in LiveStates =>
                            /\ Swept[a].key # None /\ Swept[a].expires > 0
                            /\ Swept[a].expires <= now + (IF Swept[a].state = "offered"
                                                          THEN OfferHold ELSE LeaseTime)
                      /\ Swept[a].state \notin LiveStates => Swept[a].expires = 0
                      /\ Swept[a].freedAt <= now
                      /\ Swept[a].state = "declined" => Swept[a].key = None
    BY DEF Terms
  <2>1. entries[a] \in Entry
    BY DEF TypeOK
  <2> QED
    BY <1>0, <2>1, SweptEntry DEF PoolInv, Terms, Lapsed, Entry, LiveStates
<1> QED
  BY <1>1, <1>3, <1>4, <1>5, <1>6 DEF PoolInv

-----------------------------------------------------------------------------
(* The steps. *)

\* The two ways Offer comes to bind an address: the index already gives it to
\* the client, or the index does not know the client and it may take it.
MayBind(es, k, a, reserved) ==
    \/ byKey[k] = a /\ reserved = (es[a].state = "reserved")
    \/ byKey[k] = None /\ Available(es[a], k) /\ reserved = FALSE

\* Binding such an address preserves the invariant.
LEMMA BindToInv ==
    ASSUME TypeOK, NEW es, PoolInv(es),
           NEW k \in Clients, NEW a \in Addrs, NEW reserved \in BOOLEAN,
           MayBind(es, k, a, reserved),
           BindTo(es, a, k, reserved)
    PROVE  IInv'
<1> USE PoolAssumption DEF MayBind
<1>0. now \in Nat /\ OfferHold \in Nat /\ LeaseTime \in Nat /\ k # None /\ a # None
  BY DEF TypeOK
<1>1. es[a] \in Entry
  BY DEF PoolInv, Map
<1>2. /\ entries' = [es EXCEPT ![a] = Bound(es[a], k, reserved)]
      /\ byKey' = [byKey EXCEPT ![k] = a] /\ now' = now /\ forgotten' = forgotten
  BY DEF BindTo
<1>3. /\ Bound(es[a], k, reserved) \in Entry
      /\ Bound(es[a], k, reserved).key = k
      /\ Bound(es[a], k, reserved).freedAt = es[a].freedAt
      /\ reserved => /\ Bound(es[a], k, reserved).state = "reserved"
                     /\ Bound(es[a], k, reserved).expires = 0
      /\ ~reserved => /\ Bound(es[a], k, reserved).state = "offered"
                      /\ Bound(es[a], k, reserved).expires = now + OfferHold
  BY <1>0, <1>1 DEF Bound, Holding, Entry, States
<1>4. /\ Map(entries')
      /\ entries'[a] = Bound(es[a], k, reserved)
      /\ \A b \in Addrs : b # a => entries'[b] = es[b]
  BY <1>2, <1>3 DEF PoolInv, Map
<1>5. /\ byKey'[k] = a
      /\ \A m \in Clients : m # k => byKey'[m] = byKey[m]
      /\ byKey' \in [Clients -> Addrs \cup {None}]
  BY <1>2 DEF TypeOK
<1>6. TypeOK'
  BY <1>2, <1>4, <1>5 DEF TypeOK, Map
<1>7. reserved => byKey[k] = a /\ es[a].state = "reserved" /\ es[a].key = k
  BY <1>0 DEF PoolInv, OwnReservation
<1>8. Reservations(entries)'
  <2> SUFFICES ASSUME NEW b \in Addrs
               PROVE  /\ entries'[b].state = "reserved" =>
                            Owner[b] # None /\ entries'[b].key = Owner[b]
                      /\ Owner[b] # None /\ Owner[b] \notin forgotten =>
                            entries'[b].state = "reserved" /\ byKey'[Owner[b]] # None
    BY <1>2 DEF Reservations
  <2>1. Owner[b] # None => Owner[b] \in Clients
    OBVIOUS
  <2>2. CASE b # a
    BY <2>1, <2>2, <1>0, <1>4, <1>5 DEF PoolInv, Reservations
  <2>3. CASE b = a
    <3>1. CASE reserved
      BY <2>1, <2>3, <3>1, <1>0, <1>3, <1>4, <1>5, <1>7, ZenonT(30) DEF PoolInv, Reservations
    <3>2. CASE ~reserved
      <4>1. ~(Owner[a] # None /\ Owner[a] \notin forgotten)
        BY <3>2, <1>0 DEF PoolInv, Reservations, Available
      <4> QED
        BY <2>3, <3>2, <4>1, <1>3, <1>4
    <3> QED
      BY <3>1, <3>2
  <2> QED
    BY <2>2, <2>3
<1>9. Indexed(entries)'
  <2> SUFFICES ASSUME NEW b \in Addrs, entries'[b].state \in LiveStates,
                      entries'[b].key \notin forgotten
               PROVE  byKey'[entries'[b].key] = b
    BY <1>2 DEF Indexed
  <2>1. CASE b = a
    BY <2>1, <1>3, <1>4, <1>5
  <2>2. CASE b # a
    <3>1. es[b].key \in Clients /\ byKey[es[b].key] = b
      BY <2>2, <1>4 DEF PoolInv, Indexed, Terms, Map, Entry
    <3>2. es[b].key # k
      BY <2>2, <3>1, <1>0
    <3> QED
      BY <2>2, <3>1, <3>2, <1>4, <1>5
  <2> QED
    BY <2>1, <2>2
<1>10. OwnReservation(entries)'
  <2> SUFFICES ASSUME NEW m \in Clients, byKey'[m] # None,
                      entries'[byKey'[m]].state = "reserved"
               PROVE  entries'[byKey'[m]].key = m
    BY DEF OwnReservation
  <2>1. CASE m = k
    BY <2>1, <1>3, <1>4, <1>5
  <2>2. CASE m # k /\ byKey[m] = a
    BY <2>2, <1>3, <1>4, <1>5, <1>7 DEF PoolInv, OwnReservation
  <2>3. CASE m # k /\ byKey[m] # a
    BY <2>3, <1>4, <1>5 DEF PoolInv, OwnReservation, TypeOK
  <2> QED
    BY <2>1, <2>2, <2>3
<1>11. Terms(entries)'
  BY <1>0, <1>1, <1>2, <1>3, <1>4 DEF PoolInv, Terms, LiveStates, Entry
<1> QED
  BY <1>2, <1>4, <1>6, <1>8, <1>9, <1>10, <1>11 DEF IInv, PoolInv, Map

\* What Offer and the refused calls do when they only sweep.
LEMMA SweptOnlyInv ==
    ASSUME IInv, entries' = Swept, UNCHANGED <<now, byKey, forgotten>>
    PROVE  IInv'
<1>1. PoolInv(Swept)
  BY SweptInv
<1>2. Map(entries)' /\ Reservations(entries)' /\ Indexed(entries)'
      /\ OwnReservation(entries)' /\ Terms(entries)'
  BY <1>1 DEF PoolInv, Map, Reservations, Indexed, OwnReservation, Terms
<1> QED
  BY <1>2 DEF IInv, PoolInv, TypeOK, Map

\* Offer binds the remembered, the requested or the oldest address, or sweeps only.
LEMMA OfferInv ==
    ASSUME IInv, NEW k \in Clients, NEW req \in Addrs \cup {None},
           Offer(k, req)
    PROVE  IInv'
<1> USE PoolAssumption
<1>0. TypeOK /\ PoolInv(Swept)
  BY SweptInv DEF IInv
<1>1. CASE OfferRemembered(k)
  <2> DEFINE a == byKey[k]
             reserved == Swept[a].state = "reserved"
  <2>1. a \in Addrs /\ reserved \in BOOLEAN /\ BindTo(Swept, a, k, reserved)
    BY <1>0, <1>1 DEF OfferRemembered, TypeOK
  <2>2. MayBind(Swept, k, a, reserved)
    BY DEF MayBind
  <2> HIDE DEF a, reserved
  <2> QED
    BY <1>0, <2>1, <2>2, BindToInv
<1>2. CASE OfferRequested(k, req)
  <2>1. /\ req \in Addrs /\ MayBind(Swept, k, req, FALSE)
        /\ BindTo(Swept, req, k, FALSE)
    BY <1>2 DEF OfferRequested, MayBind
  <2> QED
    BY <1>0, <2>1, BindToInv
<1>3. CASE OfferOldest(k, req)
  <2>1. PICK a \in OldestFree(Swept) : BindTo(Swept, a, k, FALSE)
    BY <1>3 DEF OfferOldest
  <2>2. a \in Addrs /\ MayBind(Swept, k, a, FALSE)
    BY <1>3, <2>1 DEF OfferOldest, OldestFree, Available, MayBind
  <2> QED
    BY <1>0, <2>1, <2>2, BindToInv
<1>4. CASE OfferExhausted(k, req)
  BY <1>4, SweptOnlyInv DEF OfferExhausted
<1> QED
  BY <1>1, <1>2, <1>3, <1>4 DEF Offer

\* Commit ends the client's old binding as it makes the new one.
LEMMA CommitInv ==
    ASSUME IInv, NEW k \in Clients, NEW a \in Addrs,
           Commit(k, a)
    PROVE  IInv'
<1> USE PoolAssumption
<1>1. CASE CommitRefused(k, a)
  BY <1>1, SweptOnlyInv DEF CommitRefused
<1>2. CASE CommitGranted(k, a)
  <2> DEFINE es == Swept
             new == Leased(es[a], k)
             left == LeavesBehind(es, k, a)
  <2>0. /\ TypeOK /\ PoolInv(es)
        /\ now \in Nat /\ OfferHold \in Nat /\ LeaseTime \in Nat /\ k # None
    BY SweptInv DEF IInv, TypeOK
  <2>1. \A b \in Addrs : es[b] \in Entry
    BY <2>0 DEF PoolInv, Map
  <2>2. /\ Available(es[a], k) /\ now' = now /\ forgotten' = forgotten
        /\ entries' = [b \in Addrs |-> IF b = a THEN new
                                       ELSE IF b \in left THEN Freed(es[b], now) ELSE es[b]]
        /\ byKey' = [byKey EXCEPT ![k] = a]
    BY <1>2 DEF CommitGranted
  <2>3. /\ new \in Entry /\ new.key = k /\ new.freedAt = es[a].freedAt
        /\ es[a].state = "reserved" => new.state = "reserved" /\ new.expires = 0
        /\ es[a].state # "reserved" => new.state = "leased" /\ new.expires = now + LeaseTime
    BY <2>0, <2>1 DEF Leased, Bound, Holding, Entry, States
  <2>4. \A b \in left : /\ byKey[k] = b /\ b # a /\ b \in Addrs /\ es[b].state # "reserved"
                         /\ Freed(es[b], now) \in Entry
                         /\ Freed(es[b], now).state = "free" /\ Freed(es[b], now).expires = 0
                         /\ Freed(es[b], now).freedAt = now
    BY <2>0, <2>1 DEF LeavesBehind, Freed, Entry, States
  <2>5. /\ entries'[a] = new
        /\ \A b \in left : entries'[b] = Freed(es[b], now)
        /\ \A b \in Addrs : b # a /\ b \notin left => entries'[b] = es[b]
        /\ \A b \in Addrs : b # a /\ byKey[k] = b => b \in left \/ es[b].state = "reserved"
    BY <2>2, <2>4 DEF LeavesBehind
  <2> HIDE DEF new, left, es
  <2>6. /\ byKey'[k] = a
        /\ \A m \in Clients : m # k => byKey'[m] = byKey[m]
        /\ byKey' \in [Clients -> Addrs \cup {None}]
    BY <2>0, <2>2 DEF TypeOK
  <2>7. Map(entries)'
    BY <2>1, <2>2, <2>3, <2>4 DEF Map
  <2>8. Reservations(entries)'
    <3> SUFFICES ASSUME NEW b \in Addrs
                 PROVE  /\ entries'[b].state = "reserved" =>
                              Owner[b] # None /\ entries'[b].key = Owner[b]
                        /\ Owner[b] # None /\ Owner[b] \notin forgotten =>
                              entries'[b].state = "reserved" /\ byKey'[Owner[b]] # None
      BY <2>2 DEF Reservations
    <3>1. /\ es[b].state = "reserved" => Owner[b] # None /\ es[b].key = Owner[b]
          /\ Owner[b] # None /\ Owner[b] \notin forgotten =>
                es[b].state = "reserved" /\ byKey[Owner[b]] # None
          /\ Owner[b] # None => Owner[b] \in Clients
      BY <2>0 DEF PoolInv, Reservations
    <3>2. CASE b = a
      BY <3>1, <3>2, <2>2, <2>3, <2>5, <2>6 DEF Available
    <3>3. CASE b \in left
      BY <3>1, <3>3, <2>4, <2>5, <2>6
    <3>4. CASE b # a /\ b \notin left
      BY <3>1, <3>4, <2>5, <2>6
    <3> QED
      BY <3>2, <3>3, <3>4
  <2>9. Indexed(entries)'
    <3> SUFFICES ASSUME NEW b \in Addrs, entries'[b].state \in LiveStates,
                        entries'[b].key \notin forgotten
                 PROVE  byKey'[entries'[b].key] = b
      BY <2>2 DEF Indexed
    <3>1. CASE b = a
      BY <3>1, <2>3, <2>5, <2>6
    <3>2. CASE b # a
      <4>1. b \notin left
        BY <2>4, <2>5 DEF LiveStates
      <4>2. es[b].key \in Clients /\ byKey[es[b].key] = b
        BY <3>2, <4>1, <2>0, <2>1, <2>5 DEF PoolInv, Indexed, Terms, Entry
      <4>3. es[b].key # k
        BY <3>2, <4>1, <4>2, <2>5 DEF LiveStates
      <4> QED
        BY <3>2, <4>1, <4>2, <4>3, <2>5, <2>6
    <3> QED
      BY <3>1, <3>2
  <2>10. OwnReservation(entries)'
    <3> SUFFICES ASSUME NEW m \in Clients, byKey'[m] # None,
                        entries'[byKey'[m]].state = "reserved"
                 PROVE  entries'[byKey'[m]].key = m
      BY DEF OwnReservation
    <3>1. CASE m = k
      BY <3>1, <2>3, <2>5, <2>6
    <3>2. CASE m # k /\ byKey[m] = a
      BY <3>2, <2>0, <2>2, <2>3, <2>5, <2>6 DEF PoolInv, OwnReservation, Available
    <3>3. CASE m # k /\ byKey[m] # a
      <4>1. byKey[m] \in Addrs /\ byKey[m] \notin left
        BY <3>3, <2>0, <2>4, <2>5, <2>6 DEF TypeOK
      <4> QED
        BY <3>3, <4>1, <2>0, <2>5, <2>6 DEF PoolInv, OwnReservation
    <3> QED
      BY <3>1, <3>2, <3>3
  <2>11. Terms(entries)'
    <3> SUFFICES ASSUME NEW b \in Addrs
                 PROVE  LET e == entries'[b] IN
                        /\ e.state \in LiveStates =>
                              /\ e.key # None /\ e.expires > 0
                              /\ e.expires <= now + (IF e.state = "offered"
                                                     THEN OfferHold ELSE LeaseTime)
                        /\ e.state \notin LiveStates => e.expires = 0
                        /\ e.freedAt <= now
                        /\ e.state = "declined" => e.key = None
      BY <2>2 DEF Terms
    <3>1. CASE b = a
      BY <3>1, <2>0, <2>1, <2>3, <2>5, PoolAssumption DEF PoolInv, Terms, LiveStates, TypeOK
    <3>2. CASE b \in left
      BY <3>2, <2>0, <2>4, <2>5 DEF LiveStates
    <3>3. CASE b # a /\ b \notin left
      BY <3>3, <2>0, <2>5 DEF PoolInv, Terms
    <3> QED
      BY <3>1, <3>2, <3>3
  <2> QED
    BY <2>0, <2>2, <2>6, <2>7, <2>8, <2>9, <2>10, <2>11 DEF IInv, PoolInv, TypeOK, Map
<1> QED
  BY <1>1, <1>2 DEF Commit

\* A release frees the address and keeps the index.
LEMMA ReleaseInv ==
    ASSUME IInv, NEW k \in Clients, NEW a \in Addrs, Release(k, a)
    PROVE  IInv'
<1> USE PoolAssumption
<1>1. /\ now \in Nat /\ k # None /\ entries[a] \in Entry
      /\ \A b \in Addrs : entries[b] \in Entry
  BY DEF IInv, TypeOK
<1>2. /\ entries[a].key = k /\ entries[a].state # "reserved"
      /\ entries' = [entries EXCEPT ![a] = Freed(entries[a], now)]
      /\ now' = now /\ byKey' = byKey /\ forgotten' = forgotten
  BY DEF Release
<1>3. /\ Freed(entries[a], now) \in Entry
      /\ Freed(entries[a], now).state = "free" /\ Freed(entries[a], now).expires = 0
      /\ Freed(entries[a], now).freedAt = now
  BY <1>1 DEF Freed, Entry, States
<1>4. /\ entries'[a] = Freed(entries[a], now)
      /\ \A b \in Addrs : b # a => entries'[b] = entries[b]
      /\ Map(entries)'
  BY <1>2, <1>3 DEF IInv, TypeOK, Map
<1>5. Reservations(entries)' /\ Indexed(entries)' /\ OwnReservation(entries)'
  BY <1>2, <1>3, <1>4
     DEF IInv, PoolInv, TypeOK, Reservations, Indexed, OwnReservation, LiveStates
<1>6. Terms(entries)'
  BY <1>1, <1>2, <1>3, <1>4 DEF IInv, PoolInv, Terms, LiveStates
<1> QED
  BY <1>2, <1>4, <1>5, <1>6 DEF IInv, PoolInv, TypeOK, Map

\* A decline quarantines the address and makes the index forget the client.
LEMMA DeclineInv ==
    ASSUME IInv, NEW k \in Clients, NEW a \in Addrs, Decline(k, a)
    PROVE  IInv'
<1> USE PoolAssumption
<1> DEFINE key == entries[a].key
           out == [state |-> "declined", key |-> None,
                   expires |-> 0, freedAt |-> now]
<1>1. /\ now \in Nat /\ k # None /\ \A b \in Addrs : entries[b] \in Entry
      /\ key \in {None, k} /\ entries[a].state # "reserved"
  BY DEF IInv, TypeOK, Decline
<1>2. /\ entries' = [entries EXCEPT ![a] = out]
      /\ byKey' = IF key = None THEN byKey ELSE [byKey EXCEPT ![key] = None]
      /\ forgotten' = forgotten \cup ({key} \ {None})
      /\ now' = now
  BY DEF Decline
<1>3. out \in Entry
  BY <1>1 DEF Entry, States
<1>4. /\ out.state = "declined" /\ out.key = None /\ out.expires = 0 /\ out.freedAt = now
  OBVIOUS
<1>5. /\ entries'[a] = out
      /\ \A b \in Addrs : b # a => entries'[b] = entries[b]
      /\ Map(entries)'
  BY <1>2, <1>3 DEF IInv, TypeOK, Map
<1> HIDE DEF out, key
<1>6. /\ forgotten \subseteq forgotten' /\ forgotten' \subseteq Clients
      /\ byKey' \in [Clients -> Addrs \cup {None}]
      /\ \A m \in Clients : byKey'[m] = byKey[m] \/ (byKey'[m] = None /\ m \in forgotten')
  <2>1. forgotten \subseteq Clients /\ byKey \in [Clients -> Addrs \cup {None}]
    BY DEF IInv, TypeOK
  <2>2. CASE key = None
    <3>1. byKey' = byKey /\ forgotten' = forgotten
      BY <2>2, <1>2
    <3> QED
      BY <2>1, <3>1
  <2>3. CASE key = k
    <3>1. byKey' = [byKey EXCEPT ![k] = None] /\ forgotten' = forgotten \cup {k}
      BY <2>3, <1>1, <1>2
    <3> QED
      BY <2>1, <3>1
  <2> QED
    BY <2>2, <2>3, <1>1
<1>7. Reservations(entries)'
  <2> SUFFICES ASSUME NEW b \in Addrs
               PROVE  /\ entries'[b].state = "reserved" =>
                            Owner[b] # None /\ entries'[b].key = Owner[b]
                      /\ Owner[b] # None /\ Owner[b] \notin forgotten' =>
                            entries'[b].state = "reserved" /\ byKey'[Owner[b]] # None
    BY DEF Reservations
  <2>1. Owner[b] # None => Owner[b] \in Clients
    OBVIOUS
  <2> QED
    BY <2>1, <1>1, <1>4, <1>5, <1>6 DEF IInv, PoolInv, Reservations
<1>8. Indexed(entries)'
  <2> SUFFICES ASSUME NEW b \in Addrs, entries'[b].state \in LiveStates,
                      entries'[b].key \notin forgotten'
               PROVE  byKey'[entries'[b].key] = b
    BY DEF Indexed
  <2>1. b # a
    BY <1>4, <1>5 DEF LiveStates
  <2>2. entries[b].key \in Clients
    BY <2>1, <1>1, <1>5 DEF IInv, PoolInv, Terms, Entry
  <2> QED
    BY <2>1, <2>2, <1>5, <1>6 DEF IInv, PoolInv, Indexed
<1>9. OwnReservation(entries)'
  <2> SUFFICES ASSUME NEW m \in Clients, byKey'[m] # None,
                      entries'[byKey'[m]].state = "reserved"
               PROVE  entries'[byKey'[m]].key = m
    BY DEF OwnReservation
  <2>1. byKey'[m] = byKey[m] /\ byKey[m] \in Addrs
    BY <1>6 DEF IInv, TypeOK
  <2>2. byKey[m] # a
    BY <2>1, <1>4, <1>5
  <2> QED
    BY <2>1, <2>2, <1>5, ZenonT(30) DEF IInv, PoolInv, OwnReservation
<1>10. Terms(entries)'
  BY <1>1, <1>2, <1>4, <1>5 DEF IInv, PoolInv, Terms, LiveStates
<1> QED
  BY <1>2, <1>5, <1>6, <1>7, <1>8, <1>9, <1>10 DEF IInv, PoolInv, TypeOK, Map

\* A freed address is available again from now.
LEMMA FreeInv ==
    ASSUME IInv, NEW a \in Addrs, Free(a)
    PROVE  IInv'
<1> USE PoolAssumption
<1>1. /\ now \in Nat /\ \A b \in Addrs : entries[b] \in Entry
      /\ entries[a].state = "declined" /\ entries[a].key = None
  BY DEF IInv, PoolInv, TypeOK, Terms, Free
<1>2. /\ entries' = [entries EXCEPT ![a] = Readmitted(entries[a])]
      /\ now' = now /\ byKey' = byKey /\ forgotten' = forgotten
  BY DEF Free
<1>3. /\ Readmitted(entries[a]) \in Entry /\ Readmitted(entries[a]).state = "free"
      /\ Readmitted(entries[a]).expires = entries[a].expires
      /\ Readmitted(entries[a]).freedAt = now
  BY <1>1 DEF Readmitted, Entry, States
<1>4. /\ entries'[a] = Readmitted(entries[a])
      /\ \A b \in Addrs : b # a => entries'[b] = entries[b]
      /\ Map(entries)'
  BY <1>2, <1>3 DEF IInv, TypeOK, Map
<1>5. Reservations(entries)' /\ Indexed(entries)' /\ OwnReservation(entries)'
  BY <1>1, <1>2, <1>3, <1>4
     DEF IInv, PoolInv, TypeOK, Reservations, Indexed, OwnReservation, LiveStates
<1>6. Terms(entries)'
  BY <1>1, <1>2, <1>3, <1>4 DEF IInv, PoolInv, Terms, LiveStates
<1> QED
  BY <1>2, <1>4, <1>5, <1>6 DEF IInv, PoolInv, TypeOK, Map

\* Time passing changes no entry.
LEMMA TickInv ==
    ASSUME IInv, Tick
    PROVE  IInv'
<1> USE PoolAssumption
<1>1. /\ now \in Nat /\ now' = now + 1 /\ now' \in 1..MaxTime
      /\ entries' = entries /\ byKey' = byKey /\ forgotten' = forgotten
      /\ \A b \in Addrs : entries[b] \in Entry
  BY DEF IInv, TypeOK, Tick
<1>2. Terms(entries)'
  <2> SUFFICES ASSUME NEW a \in Addrs
               PROVE  LET e == entries[a] IN
                      /\ e.state \in LiveStates =>
                            /\ e.key # None /\ e.expires > 0
                            /\ e.expires <= now' + (IF e.state = "offered"
                                                    THEN OfferHold ELSE LeaseTime)
                      /\ e.state \notin LiveStates => e.expires = 0
                      /\ e.freedAt <= now'
                      /\ e.state = "declined" => e.key = None
    BY <1>1 DEF Terms
  <2>1. entries[a].expires \in Nat /\ entries[a].freedAt \in Nat
    BY <1>1 DEF Entry
  <2> QED
    BY <1>1, <2>1 DEF IInv, PoolInv, Terms
<1>3. Map(entries)' /\ Reservations(entries)' /\ Indexed(entries)' /\ OwnReservation(entries)'
  BY <1>1 DEF IInv, PoolInv, Map, Reservations, Indexed, OwnReservation
<1> QED
  BY <1>1, <1>2, <1>3 DEF IInv, PoolInv, TypeOK

-----------------------------------------------------------------------------
(* The invariant, and the properties it carries. *)

\* The pool starts with its reservations in force and nothing else bound.
LEMMA InitInv ==
    ASSUME Init
    PROVE  IInv
<1> USE PoolAssumption
<1>1. now = 1 /\ now \in 1..MaxTime /\ forgotten = {}
  BY DEF Init, NeverUsed, Reserved
<1>2. \A a \in Addrs :
         /\ entries[a] \in Entry
         /\ entries[a].state = (IF Owner[a] = None THEN "free" ELSE "reserved")
         /\ entries[a].key = Owner[a] /\ entries[a].expires = 0 /\ entries[a].freedAt = 0
  BY DEF Init, NeverUsed, Reserved, Entry, States
<1>3. Map(entries)
  BY <1>2 DEF Init, NeverUsed, Reserved, Map
<1>4. \A k \in Clients : /\ byKey[k] \in Addrs \cup {None}
                         /\ byKey[k] # None => Owner[byKey[k]] = k
                         /\ \A a \in Addrs : Owner[a] = k => byKey[k] # None
  <2> SUFFICES ASSUME NEW k \in Clients
               PROVE  /\ byKey[k] \in Addrs \cup {None}
                      /\ byKey[k] # None => Owner[byKey[k]] = k
                      /\ \A a \in Addrs : Owner[a] = k => byKey[k] # None
    OBVIOUS
  <2>1. byKey[k] = IF \E a \in Addrs : Owner[a] = k
                   THEN CHOOSE a \in Addrs : Owner[a] = k ELSE None
    BY DEF Init, NeverUsed, Reserved
  <2> QED
    BY <2>1
<1>5. Reservations(entries)
  BY <1>2, <1>4 DEF Reservations
<1>6. Indexed(entries) /\ OwnReservation(entries)
  BY <1>2, <1>4 DEF Indexed, OwnReservation, LiveStates
<1>7. Terms(entries)
  BY <1>1, <1>2 DEF Terms, LiveStates
<1>8. byKey \in [Clients -> Addrs \cup {None}]
  BY <1>4 DEF Init, NeverUsed, Reserved
<1> QED
  BY <1>1, <1>3, <1>5, <1>6, <1>7, <1>8 DEF IInv, PoolInv, TypeOK, Map

\* Every step preserves the invariant.
LEMMA NextInv ==
    ASSUME IInv, [Next]_vars
    PROVE  IInv'
<1>1. ASSUME NEW k \in Clients, ClientAction(k)
      PROVE  IInv'
  <2>1. PICK a \in Addrs :
           \/ \E req \in {a, None} : Offer(k, req)
           \/ Commit(k, a)
           \/ Release(k, a)
           \/ Decline(k, a)
    BY <1>1 DEF ClientAction
  <2>2. ASSUME NEW req \in {a, None}, Offer(k, req)
        PROVE  IInv'
    BY <2>2, OfferInv
  <2>3. ASSUME Commit(k, a)
        PROVE  IInv'
    BY <2>3, CommitInv
  <2>4. CASE Release(k, a)
    BY <2>4, ReleaseInv
  <2>5. CASE Decline(k, a)
    BY <2>5, DeclineInv
  <2> QED
    BY <2>1, <2>2, <2>3, <2>4, <2>5
<1>2. ASSUME NEW a \in Addrs, Free(a)
      PROVE  IInv'
  BY <1>2, FreeInv
<1>3. CASE Look
  BY <1>3, SweptOnlyInv DEF Look
<1>4. CASE Tick
  BY <1>4, TickInv
<1>5. CASE UNCHANGED vars
  BY <1>5 DEF vars, IInv, PoolInv, TypeOK, Map, Reservations, Indexed, OwnReservation, Terms
<1> QED
  BY <1>1, <1>2, <1>3, <1>4, <1>5 DEF Next

\* The inductive invariant holds in every reachable state of every pool.
THEOREM PoolInvariant == Spec => []IInv
<1>1. Init => IInv
  BY InitInv
<1>2. IInv /\ [Next]_vars => IInv'
  BY NextInv
<1> QED
  BY <1>1, <1>2, PTL DEF Spec

\* The pool's state has the types the code gives it, in every reachable state.
THEOREM PoolTypes == Spec => []TypeOK
<1>1. IInv => TypeOK
  BY DEF IInv
<1> QED
  BY <1>1, PoolInvariant, PTL

\* A reservation is its owner's, and survives everything but a DECLINE by its
\* owner: reserve, Offer, Commit and Release never undo one.
THEOREM ReservationsHonoured == Spec => []ReservationHonoured
<1>1. IInv => ReservationHonoured
  BY DEF IInv, PoolInv, Reservations, ReservationHonoured
<1> QED
  BY <1>1, PoolInvariant, PTL

\* A client no DECLINE made the index forget never has two live addresses.
THEOREM OneLiveAddressEach == Spec => []OneLiveAddress
<1>1. IInv => OneLiveAddress
  BY DEF IInv, PoolInv, Indexed, OneLiveAddress
<1> QED
  BY <1>1, PoolInvariant, PTL

\* No address is ever held for longer than its offer or its lease lasts.
THEOREM TermsAreBounded == Spec => []TermsBounded
<1>1. IInv => TermsBounded
  BY DEF IInv, PoolInv, Terms, TermsBounded
<1> QED
  BY <1>1, PoolInvariant, PTL

-----------------------------------------------------------------------------
(* The pool implements the registry whose bindings end on time. *)

\* The registry's view of one entry.
Standing(e) == [state |-> e.state, key |-> e.key, until |-> e.expires]

\* Sweeping what has not lapsed changes nothing.
LEMMA NotLapsed ==
    ASSUME IInv, NEW a \in Addrs
    PROVE  /\ Swept'[a] = IF Lapsed(entries[a])'
                          THEN Freed(entries'[a], entries'[a].expires) ELSE entries'[a]
           /\ now' = now /\ entries'[a] = Swept[a] => Swept'[a] = Swept[a]
           /\ now' = now /\ entries'[a] = entries[a] => Swept'[a] = Swept[a]
           /\ entries'[a].state \notin LiveStates => Swept'[a] = entries'[a]
           /\ entries'[a].expires > now' /\ now' \in Nat /\ entries'[a].expires \in Nat
                 => Swept'[a] = entries'[a]
<1>1. Swept'[a] = IF Lapsed(entries[a])'
                  THEN Freed(entries'[a], entries'[a].expires) ELSE entries'[a]
  BY DEF Swept
<1>2. ASSUME now' = now, entries'[a] = Swept[a]
      PROVE  Swept'[a] = Swept[a]
  <2>1. Swept[a].state \in LiveStates => Swept[a] = entries[a] /\ ~Lapsed(entries[a])
    BY SweptEntry DEF IInv
  <2>2. ~Lapsed(entries[a])'
    BY <1>2, <2>1 DEF Lapsed
  <2> QED
    BY <1>1, <1>2, <2>2
<1>3. ASSUME now' = now, entries'[a] = entries[a]
      PROVE  Swept'[a] = Swept[a]
  BY <1>3 DEF Swept, Lapsed
<1>4. ASSUME entries'[a].state \notin LiveStates
      PROVE  Swept'[a] = entries'[a]
  BY <1>1, <1>4 DEF Lapsed
<1>5. ASSUME entries'[a].expires > now', now' \in Nat, entries'[a].expires \in Nat
      PROVE  Swept'[a] = entries'[a]
  BY <1>1, <1>5 DEF Lapsed
<1> QED
  BY <1>1, <1>2, <1>3, <1>4, <1>5

\* Steps that bind one address of the swept pool: the view changes there only.
LEMMA BindView ==
    ASSUME IInv, NEW k \in Clients, NEW a \in Addrs,
           NEW reserved \in BOOLEAN, BindTo(Swept, a, k, reserved)
    PROVE  /\ \A b \in Addrs : b # a => Swept'[b] = Swept[b]
           /\ Standing(Swept'[a]) = IF reserved THEN Registry!Static(k) ELSE Registry!Held(k)
<1> USE PoolAssumption
<1>1. /\ entries' = [Swept EXCEPT ![a] = Bound(Swept[a], k, reserved)]
      /\ now' = now /\ now \in Nat /\ OfferHold \in Nat \ {0}
  BY DEF BindTo, IInv, TypeOK
<1>2. /\ entries'[a] = Bound(Swept[a], k, reserved)
      /\ \A b \in Addrs : b # a => entries'[b] = Swept[b]
  BY <1>1 DEF Swept
<1>3. \A b \in Addrs : b # a => Swept'[b] = Swept[b]
  BY <1>1, <1>2, NotLapsed
<1>4. CASE reserved
  <2>1. entries'[a].state = "reserved" /\ entries'[a].key = k /\ entries'[a].expires = 0
    BY <1>2, <1>4 DEF Bound, Holding
  <2>2. Swept'[a] = entries'[a]
    BY <2>1, NotLapsed DEF LiveStates
  <2> QED
    BY <1>3, <1>4, <2>1, <2>2 DEF Standing, Registry!Static
<1>5. CASE ~reserved
  <2>1. entries'[a].state = "offered" /\ entries'[a].key = k
        /\ entries'[a].expires = now + OfferHold
    BY <1>2, <1>5 DEF Bound, Holding
  <2>2. entries'[a].expires > now' /\ now' \in Nat /\ entries'[a].expires \in Nat
    BY <1>1, <2>1
  <2>3. Swept'[a] = entries'[a]
    BY <2>2, NotLapsed
  <2> QED
    BY <1>3, <1>5, <2>1, <2>3 DEF Standing, Registry!Held
<1> QED
  BY <1>4, <1>5

\* A step that only sweeps is a stutter of the registry.
LEMMA SweptOnlyRefines ==
    ASSUME IInv, entries' = Swept, UNCHANGED <<now, byKey, forgotten>>
    PROVE  UNCHANGED Registry!regVars
<1>1. \A a \in Addrs : Swept'[a] = Swept[a]
  BY NotLapsed
<1> QED
  BY <1>1 DEF Registry!regVars

\* An offer is one of the registry's holds.
LEMMA OfferRefines ==
    ASSUME IInv, NEW k \in Clients, NEW req \in Addrs \cup {None},
           Offer(k, req)
    PROVE  [Registry!RegNext]_(Registry!regVars)
<1> USE PoolAssumption
<1>0. TypeOK /\ PoolInv(Swept)
  BY SweptInv DEF IInv
<1>1. ASSUME NEW a \in Addrs, NEW reserved \in BOOLEAN, BindTo(Swept, a, k, reserved)
      PROVE  /\ now' = now
             /\ byKey' = [byKey EXCEPT ![k] = a]
             /\ [b \in Addrs |-> Standing(Swept'[b])]
                   = [[b \in Addrs |-> Standing(Swept[b])] EXCEPT
                        ![a] = IF reserved THEN Registry!Static(k) ELSE Registry!Held(k)]
  <2>1. now' = now /\ byKey' = [byKey EXCEPT ![k] = a]
    BY <1>1 DEF BindTo
  <2>2. /\ \A b \in Addrs : b # a => Swept'[b] = Swept[b]
        /\ Standing(Swept'[a]) = IF reserved THEN Registry!Static(k) ELSE Registry!Held(k)
    BY <1>0, <1>1, BindView
  <2> QED
    BY <2>1, <2>2
<1>2. CASE OfferRemembered(k)
  <2> DEFINE a == byKey[k]
             reserved == Swept[a].state = "reserved"
  <2>1. a \in Addrs /\ reserved \in BOOLEAN /\ BindTo(Swept, a, k, reserved)
    BY <1>0, <1>2 DEF OfferRemembered, TypeOK
  <2>2. byKey' = byKey
    <3>1. byKey' = [byKey EXCEPT ![k] = byKey[k]]
      BY <2>1 DEF BindTo
    <3> QED
      BY <1>0, <3>1 DEF TypeOK
  <2>3. Registry!HoldRemembered(k)
    BY <1>1, <2>1, <2>2 DEF Registry!HoldRemembered, Standing
  <2> QED
    BY <2>3 DEF Registry!RegNext
<1>3. ASSUME NEW a \in Addrs, byKey[k] = None, Available(Swept[a], k),
             BindTo(Swept, a, k, FALSE)
      PROVE  Registry!RegNext
  <2>1. Registry!Acceptable(k, a)
    BY <1>3 DEF Registry!Acceptable, Available
  <2>2. Registry!HoldFresh(k, a)
    BY <1>1, <1>3, <2>1 DEF Registry!HoldFresh, Standing
  <2> QED
    BY <2>2 DEF Registry!RegNext
<1>4. CASE OfferRequested(k, req)
  BY <1>3, <1>4 DEF OfferRequested
<1>5. CASE OfferOldest(k, req)
  <2>1. PICK a \in OldestFree(Swept) : BindTo(Swept, a, k, FALSE)
    BY <1>5 DEF OfferOldest
  <2>2. a \in Addrs /\ Available(Swept[a], k)
    BY <2>1 DEF OldestFree, Available
  <2> QED
    BY <1>3, <1>5, <2>1, <2>2 DEF OfferOldest
<1>6. CASE OfferExhausted(k, req)
  BY <1>6, SweptOnlyRefines DEF OfferExhausted
<1> QED
  BY <1>2, <1>4, <1>5, <1>6 DEF Offer

\* A commit is the registry's binding, with the old one vacated at the same time.
LEMMA CommitRefines ==
    ASSUME IInv, NEW k \in Clients, NEW a \in Addrs,
           Commit(k, a)
    PROVE  [Registry!RegNext]_(Registry!regVars)
<1> USE PoolAssumption
<1>1. CASE CommitRefused(k, a)
  BY <1>1, SweptOnlyRefines DEF CommitRefused
<1>2. CASE CommitGranted(k, a)
  <2> DEFINE new == Leased(Swept[a], k)
             left == LeavesBehind(Swept, k, a)
  <2>1. /\ Available(Swept[a], k) /\ now' = now
        /\ entries' = [b \in Addrs |-> IF b = a THEN new
                                       ELSE IF b \in left THEN Freed(Swept[b], now)
                                       ELSE Swept[b]]
        /\ byKey' = [byKey EXCEPT ![k] = a]
        /\ now \in Nat /\ LeaseTime \in Nat \ {0}
    BY <1>2 DEF CommitGranted, IInv, TypeOK
  <2>2. Standing(Swept'[a]) = IF Swept[a].state = "reserved"
                              THEN Registry!Static(k) ELSE Registry!Bound(k)
    <3>1. entries'[a] = new
      BY <2>1
    <3>2. CASE Swept[a].state = "reserved"
      <4>1. new.state = "reserved" /\ new.key = k /\ new.expires = 0
        BY <3>2 DEF Leased, Bound, Holding
      <4>2. Swept'[a] = new
        BY <3>1, <4>1, NotLapsed DEF LiveStates
      <4> QED
        BY <3>2, <4>1, <4>2 DEF Standing, Registry!Static
    <3>3. CASE Swept[a].state # "reserved"
      <4>1. new.state = "leased" /\ new.key = k /\ new.expires = now + LeaseTime
        BY <3>3 DEF Leased, Holding
      <4>2. Swept'[a] = new
        <5>1. new.expires > now' /\ now' \in Nat /\ new.expires \in Nat
          BY <2>1, <4>1
        <5> QED
          BY <3>1, <5>1, NotLapsed
      <4> QED
        BY <3>3, <4>1, <4>2 DEF Standing, Registry!Bound
    <3> QED
      BY <3>2, <3>3
  <2>3. \A b \in left : /\ byKey[k] = b /\ b # a /\ b \in Addrs /\ Swept[b].state # "reserved"
                         /\ Standing(Swept'[b]) = Registry!Vacant(Swept[b].key)
    <3> SUFFICES ASSUME NEW b \in left
                 PROVE  /\ byKey[k] = b /\ b # a /\ b \in Addrs
                        /\ Swept[b].state # "reserved"
                        /\ Standing(Swept'[b]) = Registry!Vacant(Swept[b].key)
      OBVIOUS
    <3>1. byKey[k] = b /\ b # a /\ b \in Addrs /\ Swept[b].state # "reserved"
      BY DEF LeavesBehind
    <3>2. entries'[b] = Freed(Swept[b], now)
      BY <2>1, <3>1
    <3>3. entries'[b].state \notin LiveStates
      BY <3>2 DEF Freed, LiveStates
    <3>4. Swept'[b] = entries'[b]
      BY <3>1, <3>3, NotLapsed
    <3> QED
      BY <3>1, <3>2, <3>4 DEF Standing, Freed, Registry!Vacant
  <2>4. \A b \in Addrs : b # a /\ b \notin left => Swept'[b] = Swept[b]
    BY <2>1, NotLapsed
  <2>5. \A b \in Addrs : b \in left <=> b # a /\ b = byKey[k] /\ Swept[b].state # "reserved"
    BY DEF LeavesBehind
  <2> HIDE DEF new, left
  <2>6. Registry!Acceptable(k, a)
    BY <2>1 DEF Registry!Acceptable, Available
  <2>7. [b \in Addrs |-> Standing(Swept'[b])]
          = [b \in Addrs |->
               IF b = a
               THEN IF Swept[a].state = "reserved" THEN Registry!Static(k) ELSE Registry!Bound(k)
               ELSE IF b = byKey[k] /\ Swept[b].state # "reserved"
                    THEN Registry!Vacant(Swept[b].key) ELSE Standing(Swept[b])]
    BY <2>2, <2>3, <2>4, <2>5
  <2>8. Registry!Bind(k, a)
    BY <2>1, <2>6, <2>7 DEF Registry!Bind, Standing
  <2> QED
    BY <2>8 DEF Registry!RegNext
<1> QED
  BY <1>1, <1>2 DEF Commit

\* Release, Decline and Free do not sweep: they change one entry, and the view
\* of the others stays.
LEMMA OneEntryView ==
    ASSUME IInv, NEW a \in Addrs, NEW e,
           entries' = [entries EXCEPT ![a] = e], e.state \notin LiveStates, now' = now
    PROVE  [b \in Addrs |-> Standing(Swept'[b])]
             = [[b \in Addrs |-> Standing(Swept[b])] EXCEPT ![a] = Standing(e)]
<1>1. /\ entries'[a] = e
      /\ \A b \in Addrs : b # a => entries'[b] = entries[b]
  BY DEF IInv, TypeOK
<1>2. Swept'[a] = e
  BY <1>1, NotLapsed
<1>3. \A b \in Addrs : b # a => Swept'[b] = Swept[b]
  BY <1>1, NotLapsed
<1> QED
  BY <1>2, <1>3

\* A release vacates one binding of the registry.
LEMMA ReleaseRefines ==
    ASSUME IInv, NEW k \in Clients, NEW a \in Addrs, Release(k, a)
    PROVE  Registry!RegNext
<1> DEFINE e == Freed(entries[a], now)
<1>1. /\ entries[a].key = k /\ entries[a].state # "reserved"
      /\ entries' = [entries EXCEPT ![a] = e] /\ now' = now /\ byKey' = byKey
  BY DEF Release
<1>2. e.state \notin LiveStates /\ Standing(e) = Registry!Vacant(k)
  BY <1>1 DEF Freed, LiveStates, Standing, Registry!Vacant
<1>3. Swept[a].key = k /\ Swept[a].state # "reserved"
  BY <1>1, SweptEntry DEF IInv
<1> HIDE DEF e
<1>4. [b \in Addrs |-> Standing(Swept'[b])]
        = [[b \in Addrs |-> Standing(Swept[b])] EXCEPT ![a] = Registry!Vacant(k)]
  BY <1>1, <1>2, OneEntryView
<1>5. Registry!Vacate(k, a)
  BY <1>1, <1>3, <1>4 DEF Registry!Vacate, Standing
<1> QED
  BY <1>5 DEF Registry!RegNext

\* A decline is the registry's quarantine.
LEMMA DeclineRefines ==
    ASSUME IInv, NEW k \in Clients, NEW a \in Addrs, Decline(k, a)
    PROVE  Registry!RegNext
<1> DEFINE e == [state |-> "declined", key |-> None,
                 expires |-> 0, freedAt |-> now]
<1>1. /\ entries[a].state # "reserved" /\ entries[a].key \in {None, k}
      /\ entries' = [entries EXCEPT ![a] = e] /\ now' = now
      /\ byKey' = IF entries[a].key = None THEN byKey ELSE [byKey EXCEPT ![entries[a].key] = None]
  BY DEF Decline
<1>2. /\ e.state \notin LiveStates
      /\ Standing(e) = [state |-> "declined", key |-> None, until |-> 0]
  BY DEF LiveStates, Standing
<1>3. Swept[a].key = entries[a].key /\ Swept[a].state # "reserved"
  BY <1>1, SweptEntry DEF IInv
<1> HIDE DEF e
<1>4. [b \in Addrs |-> Standing(Swept'[b])]
        = [[b \in Addrs |-> Standing(Swept[b])] EXCEPT
             ![a] = [state |-> "declined", key |-> None, until |-> 0]]
  BY <1>1, <1>2, OneEntryView
<1>5. byKey' = IF Swept[a].key = None THEN byKey ELSE [byKey EXCEPT ![k] = None]
  BY <1>1, <1>3
<1>6. Registry!Quarantine(k, a)
  BY <1>1, <1>3, <1>4, <1>5 DEF Registry!Quarantine, Standing
<1> QED
  BY <1>6 DEF Registry!RegNext

\* Free is the registry's readmission.
LEMMA FreeRefines ==
    ASSUME IInv, NEW a \in Addrs, Free(a)
    PROVE  Registry!RegNext
<1> DEFINE e == Readmitted(entries[a])
<1>1. /\ entries[a].state = "declined" /\ entries[a].key = None /\ entries[a].expires = 0
      /\ entries' = [entries EXCEPT ![a] = e] /\ now' = now /\ byKey' = byKey
  BY DEF Free, IInv, PoolInv, Terms, LiveStates
<1>2. e.state \notin LiveStates /\ Standing(e) = Registry!Vacant(None)
  BY <1>1 DEF Readmitted, LiveStates, Standing, Registry!Vacant
<1>3. Swept[a].state = "declined"
  BY <1>1 DEF Swept, Lapsed, LiveStates
<1> HIDE DEF e
<1>4. [b \in Addrs |-> Standing(Swept'[b])]
        = [[b \in Addrs |-> Standing(Swept[b])] EXCEPT ![a] = Registry!Vacant(None)]
  BY <1>1, <1>2, OneEntryView, ZenonT(30)
<1>5. Registry!Readmit(a)
  BY <1>1, <1>3, <1>4 DEF Registry!Readmit, Standing
<1> QED
  BY <1>5 DEF Registry!RegNext

\* The tick is where lazy and prompt expiry differ: the registry ends now what
\* the pool's next sweep will find ended.
LEMMA TickRefines ==
    ASSUME IInv, Tick
    PROVE  Registry!RegNext
<1> USE PoolAssumption
<1>1. /\ now \in Nat /\ now < MaxTime /\ now' = now + 1
      /\ entries' = entries /\ byKey' = byKey
  BY DEF Tick, IInv, TypeOK
<1>2. ASSUME NEW a \in Addrs
      PROVE  Standing(Swept'[a]) =
               IF Swept[a].state \in {"offered", "leased"} /\ Swept[a].expires <= now + 1
               THEN Registry!Vacant(Swept[a].key) ELSE Standing(Swept[a])
  <2>1. entries[a] \in Entry /\ entries'[a] = entries[a]
    BY <1>1 DEF IInv, TypeOK
  <2>2. entries[a].expires \in Nat
        /\ (entries[a].state \in LiveStates => entries[a].expires > 0)
    BY <2>1 DEF Entry, IInv, PoolInv, Terms
  <2>3. Lapsed(entries[a])' <=> /\ entries[a].state \in LiveStates
                               /\ entries[a].expires <= now + 1
    BY <1>1, <2>1, <2>2 DEF Lapsed
  <2>4. Swept'[a] = IF Lapsed(entries[a])' THEN Freed(entries[a], entries[a].expires)
                    ELSE entries[a]
    BY <2>1, NotLapsed
  <2>5. CASE Lapsed(entries[a])
    <3>1. Swept[a] = Freed(entries[a], entries[a].expires)
      BY <2>5 DEF Swept
    <3>2. Lapsed(entries[a])'
      BY <1>1, <2>2, <2>3, <2>5 DEF Lapsed
    <3> QED
      BY <2>4, <3>1, <3>2 DEF Freed, Standing
  <2>6. CASE ~Lapsed(entries[a])
    <3>1. Swept[a] = entries[a]
      BY <2>6 DEF Swept
    <3> QED
      BY <2>3, <2>4, <3>1 DEF Freed, Standing, Registry!Vacant, LiveStates
  <2> QED
    BY <2>5, <2>6
<1>3. Registry!Advance
  BY <1>1, <1>2 DEF Registry!Advance, Standing
<1> QED
  BY <1>3 DEF Registry!RegNext

\* The pool starts as the registry does.
LEMMA InitRefines ==
    ASSUME Init
    PROVE  Registry!RegInit
<1>1. \A a \in Addrs : Standing(Swept[a]) = IF Owner[a] = None THEN Registry!Vacant(None)
                                            ELSE Registry!Static(Owner[a])
  BY DEF Init, NeverUsed, Reserved, Swept, Lapsed, LiveStates, Standing, Registry!Vacant, Registry!Static
<1> QED
  BY <1>1 DEF Init, NeverUsed, Reserved, Registry!RegInit, Standing

\* The pool, with its lazy expiry, implements the registry in which every
\* binding ends at the tick its term runs out.
THEOREM PoolRefinesRegistry == Spec => RefinesRegistry
<1>1. Init => Registry!RegInit
  BY InitRefines
<1>2. IInv /\ [Next]_vars => [Registry!RegNext]_(Registry!regVars)
  <2> SUFFICES ASSUME IInv, [Next]_vars
               PROVE  [Registry!RegNext]_(Registry!regVars)
    OBVIOUS
  <2>1. ASSUME NEW k \in Clients, ClientAction(k)
        PROVE  [Registry!RegNext]_(Registry!regVars)
    <3>1. PICK a \in Addrs :
             \/ \E req \in {a, None} : Offer(k, req)
             \/ Commit(k, a)
             \/ Release(k, a)
             \/ Decline(k, a)
      BY <2>1 DEF ClientAction
    <3>2. ASSUME NEW req \in {a, None}, Offer(k, req)
          PROVE  [Registry!RegNext]_(Registry!regVars)
      BY <3>2, OfferRefines
    <3>3. ASSUME Commit(k, a)
          PROVE  [Registry!RegNext]_(Registry!regVars)
      BY <3>3, CommitRefines
    <3>4. CASE Release(k, a)
      BY <3>4, ReleaseRefines
    <3>5. CASE Decline(k, a)
      BY <3>5, DeclineRefines
    <3> QED
      BY <3>1, <3>2, <3>3, <3>4, <3>5
  <2>2. ASSUME NEW a \in Addrs, Free(a)
        PROVE  Registry!RegNext
    BY <2>2, FreeRefines
  <2>3. CASE Look
    BY <2>3, SweptOnlyRefines DEF Look
  <2>4. CASE Tick
    BY <2>4, TickRefines
  <2>5. CASE UNCHANGED vars
    BY <2>5 DEF vars, Registry!regVars, Swept, Lapsed
  <2> QED
    BY <2>1, <2>2, <2>3, <2>4, <2>5 DEF Next
<1> QED
  BY <1>1, <1>2, PoolInvariant, PTL DEF Spec, RefinesRegistry, Registry!RegSpec

-----------------------------------------------------------------------------
(* What a step may never do. *)

\* Whoever's step it is, an entry that is nobody else's to take stays as it is:
\* k is not its client, k's index entry does not point at it, and it is live and
\* has not run out, or is in quarantine.
Untouchable(k, a) ==
    /\ byKey[k] # a /\ entries[a].key # k
    /\ Unlapsed(a) \/ entries[a].state = "declined"

\* The sweep leaves alone what has not run out and what is in quarantine.
LEMMA NotSwept ==
    ASSUME IInv, NEW a \in Addrs, Unlapsed(a) \/ entries[a].state = "declined"
    PROVE  Swept[a] = entries[a]
<1>1. now \in Nat /\ entries[a].expires \in Nat
  BY PoolAssumption DEF IInv, TypeOK, Entry
<1>2. ~Lapsed(entries[a])
  BY <1>1 DEF Unlapsed, Lapsed, LiveStates
<1> QED
  BY <1>2 DEF Swept

\* A message of a client never changes what is untouchable for that client, but
\* that a DECLINE may put an address in quarantine into quarantine again.
LEMMA OthersLeaveAlone ==
    ASSUME IInv, NEW k \in Clients, ClientAction(k),
           NEW a \in Addrs, Untouchable(k, a)
    PROVE  entries'[a].state = entries[a].state /\ entries'[a].key = entries[a].key
<1>1. PICK b \in Addrs :
         \/ \E req \in {b, None} : Offer(k, req)
         \/ Commit(k, b)
         \/ Release(k, b)
         \/ Decline(k, b)
  BY DEF ClientAction
<1>2. /\ Swept[a] = entries[a] /\ entries[a].key # k /\ byKey[k] # a
      /\ entries[a].state \in LiveStates \cup {"declined"}
      /\ ~Available(entries[a], k)
  BY NotSwept DEF Untouchable, Unlapsed, Available, LiveStates
<1>3. /\ entries[a].state \in LiveStates => entries[a].key # None
      /\ entries[a].state = "declined" => entries[a].key = None
  BY DEF IInv, PoolInv, Terms
<1>4. DOMAIN entries = Addrs /\ None \notin Clients
  BY PoolAssumption DEF IInv, TypeOK
<1>5. ASSUME NEW req \in {b, None}, Offer(k, req)
      PROVE  entries'[a] = entries[a]
  <2>1. ASSUME NEW c \in Addrs, NEW reserved, BindTo(Swept, c, k, reserved), c # a
        PROVE  entries'[a] = entries[a]
    BY <1>2, <2>1 DEF BindTo, Swept
  <2>2. CASE OfferRemembered(k)
    BY <1>2, <2>1, <2>2 DEF OfferRemembered, IInv, TypeOK
  <2>3. CASE OfferRequested(k, req)
    BY <1>2, <2>1, <2>3 DEF OfferRequested
  <2>4. CASE OfferOldest(k, req)
    <3>1. PICK c \in OldestFree(Swept) : BindTo(Swept, c, k, FALSE)
      BY <2>4 DEF OfferOldest
    <3>2. c \in Addrs /\ Swept[c].state = "free"
      BY PoolAssumption DEF OldestFree
    <3> QED
      BY <1>2, <2>1, <3>1, <3>2 DEF LiveStates
  <2>5. CASE OfferExhausted(k, req)
    BY <1>2, <2>5 DEF OfferExhausted
  <2> QED
    BY <1>5, <2>2, <2>3, <2>4, <2>5 DEF Offer
<1>6. CASE Commit(k, b)
  BY <1>2, <1>6 DEF Commit, CommitGranted, CommitRefused, LeavesBehind
<1>7. CASE Release(k, b)
  BY <1>2, <1>4, <1>7 DEF Release
<1>8. CASE Decline(k, b)
  <2>1. CASE b = a
    <3>1. entries[a].state = "declined"
      BY <1>2, <1>3, <1>8, <2>1 DEF Decline
    <3>2. entries'[a].state = "declined" /\ entries'[a].key = None
      BY <1>4, <1>8, <2>1 DEF Decline
    <3> QED
      BY <1>3, <3>1, <3>2
  <2>2. CASE b # a
    BY <1>4, <1>8, <2>2 DEF Decline
  <2> QED
    BY <2>1, <2>2
<1> QED
  BY <1>1, <1>5, <1>6, <1>7, <1>8

\* Nor does a step of nobody, but that an administrator ends a quarantine.
LEMMA NobodyTouches ==
    ASSUME IInv, NEW a \in Addrs, Unlapsed(a) \/ entries[a].state = "declined",
           \/ \E b \in Addrs : Free(b) /\ (b = a => entries[a].state # "declined")
           \/ Look
           \/ Tick
           \/ UNCHANGED vars
    PROVE  entries'[a] = entries[a]
<1>1. Swept[a] = entries[a] /\ DOMAIN entries = Addrs
  BY NotSwept DEF IInv, TypeOK
<1> QED
  BY <1>1 DEF Free, Look, Tick, vars

\* A binding ends before its time only by a message of its client, or of one
\* whose index entry still points at the address.
THEOREM LiveBindingsEndByTheirClients == Spec => LiveBindingEnds
<1>1. ASSUME IInv, [Next]_vars, NEW a \in Addrs, Unlapsed(a),
             ~(entries'[a].state \in LiveStates /\ entries'[a].key = entries[a].key)
      PROVE  \E m \in Clients : (m = entries[a].key \/ byKey[m] = a) /\ ClientAction(m)
  <2>1. entries[a].state \in LiveStates /\ entries[a].state # "declined"
    BY <1>1 DEF Unlapsed, LiveStates
  <2>2. PICK m \in Clients : ClientAction(m)
    BY <1>1, <2>1, NobodyTouches DEF Next
  <2>3. ~Untouchable(m, a)
    BY <1>1, <2>1, <2>2, OthersLeaveAlone
  <2> QED
    BY <1>1, <2>2, <2>3 DEF Untouchable
<1>2. IInv /\ [Next]_vars =>
        [\A a \in Addrs :
            /\ Unlapsed(a)
            /\ ~(entries'[a].state \in LiveStates /\ entries'[a].key = entries[a].key)
            => \E m \in Clients : /\ m = entries[a].key \/ byKey[m] = a
                                  /\ ClientAction(m)]_vars
  BY <1>1
<1> QED
  BY <1>2, PoolInvariant, PTL DEF Spec, LiveBindingEnds

\* An address in quarantine stays there until the administrator, or a client
\* whose index entry still points at it, takes it out.
THEOREM QuarantineIsHeld == Spec => QuarantineHeld
<1>1. ASSUME IInv, [Next]_vars, NEW a \in Addrs,
             entries[a].state = "declined", entries'[a].state # "declined", ~Free(a)
      PROVE  \E m \in Clients : byKey[m] = a /\ ClientAction(m)
  <2>1. PICK m \in Clients : ClientAction(m)
    BY <1>1, NobodyTouches DEF Next
  <2>2. entries[a].key \notin Clients
    BY <1>1, PoolAssumption DEF IInv, PoolInv, Terms
  <2>3. ~Untouchable(m, a)
    BY <1>1, <2>1, OthersLeaveAlone
  <2> QED
    BY <1>1, <2>1, <2>2, <2>3 DEF Untouchable
<1>2. IInv /\ [Next]_vars =>
        [\A a \in Addrs :
            entries[a].state = "declined" /\ entries'[a].state # "declined" =>
               \/ Free(a)
               \/ \E m \in Clients : byKey[m] = a /\ ClientAction(m)]_vars
  BY <1>1
<1> QED
  BY <1>2, PoolInvariant, PTL DEF Spec, QuarantineHeld
=============================================================================
