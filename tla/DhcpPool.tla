------------------------------ MODULE DhcpPool ------------------------------
(***************************************************************************)
(* The address pool of the DHCP server (internal/dhcp/pool.go).            *)
(*                                                                         *)
(* Every method of Pool holds the pool's one lock from beginning to end,   *)
(* so each is one action.  Expiry is lazy: an entry whose time has passed  *)
(* stays as it is until a method sweeps the pool.  Offer, Commit, Lookup,  *)
(* Leases and Stats sweep first; Release, Decline, Free and LookupAddr do  *)
(* not.                                                                    *)
(*                                                                         *)
(* Time is an integer.  0 is the zero time.Time, which is before every     *)
(* time the clock shows.  Of an entry the model keeps what decides who     *)
(* gets an address; hardware address, host name, firstSeen and lastSeen    *)
(* decide nothing in the pool and are left out.                            *)
(***************************************************************************)
EXTENDS Integers, FiniteSets

CONSTANTS
    Clients,    \* client keys (Message.ClientKey)
    Addrs,      \* every address with an entry, as integers in address order
    Dynamic,    \* the allocatable range, p.addrs
    Owner,      \* Owner[a]: the client address a is reserved for, or None
    LeaseTime,  \* p.lease
    OfferHold,  \* p.offerTTL
    MaxTime,    \* bound on the clock
    None

ASSUME PoolAssumption ==
    /\ Addrs \subseteq Nat
    /\ Dynamic \subseteq Addrs
    /\ None \notin Clients /\ None \notin Addrs
    /\ Owner \in [Addrs -> Clients \cup {None}]
    /\ \A a, b \in Addrs : Owner[a] = Owner[b] /\ Owner[a] # None => a = b
    /\ \A a \in Addrs \ Dynamic : Owner[a] # None
    /\ LeaseTime \in Nat \ {0} /\ OfferHold \in Nat \ {0} /\ MaxTime \in Nat \ {0}

VARIABLES
    now,        \* the clock
    entries,    \* p.entries
    byKey,      \* p.byKey: the address of the entry a client key points to
    forgotten   \* auxiliary: clients whose index entry a DECLINE has deleted

vars == <<now, entries, byKey, forgotten>>

States == {"free", "offered", "leased", "declined", "reserved"}
LiveStates == {"offered", "leased"}

Entry == [state : States, key : Clients \cup {None},
          expires : Nat, freedAt : Nat]

TypeOK ==
    /\ now \in 1..MaxTime
    /\ entries \in [Addrs -> Entry]
    /\ byKey \in [Clients -> Addrs \cup {None}]
    /\ forgotten \subseteq Clients

-----------------------------------------------------------------------------
(* The helpers the methods share. *)

\* Faulty variant of Freed: the end of the binding is not cleared.
FreedWithEnd(e, t) ==
    [state |-> "free", key |-> e.key, expires |-> e.expires, freedAt |-> t]

\* freeLocked.  The client's key stays.
Freed(e, t) == [state |-> "free", key |-> e.key, expires |-> 0, freedAt |-> t]

\* Faulty variant of Lapsed: a binding is still good at its very end.
LapsedLate(e) == e.state \in LiveStates /\ e.expires # 0 /\ now > e.expires

Lapsed(e) == e.state \in LiveStates /\ e.expires # 0 /\ now >= e.expires

\* expireLocked.  The entry is free from the moment it expired, not from the
\* moment somebody looked.
Swept == [a \in Addrs |-> IF Lapsed(entries[a])
                          THEN Freed(entries[a], entries[a].expires) ELSE entries[a]]

\* Binding keeps of an entry only when it was last free.
Holding(e, key, state, expires) ==
    [state |-> state, key |-> key, expires |-> expires, freedAt |-> e.freedAt]

\* bindLocked.
Bound(e, key, reserved) ==
    IF reserved THEN Holding(e, key, "reserved", 0)
    ELSE Holding(e, key, "offered", now + OfferHold)

\* Faulty variant of Available: an address that is only offered is anybody's.
OfferedToAll(e, key) ==
    \/ e.state \in {"free", "offered"}
    \/ e.state \in {"reserved", "leased"} /\ e.key = key

\* Faulty variant of Available: a declined address counts as free.
DeclinedIsFree(e, key) ==
    \/ e.state \in {"free", "declined"}
    \/ e.state \in {"reserved", "offered", "leased"} /\ e.key = key

Available(e, key) ==
    \/ e.state = "free"
    \/ e.state \in {"reserved", "offered", "leased"} /\ e.key = key

\* leastRecentlyFreedLocked: the free address unused longest, the lowest one
\* among equals.  The set is empty when no dynamic address is free.
OldestFree(es) ==
    LET free == {a \in Dynamic : es[a].state = "free"} IN
    {a \in free : \A b \in free : \/ es[a].freedAt < es[b].freedAt
                                  \/ es[a].freedAt = es[b].freedAt /\ a <= b}

\* LookupAddr: who the DNS path takes the address to be.
HolderOf(a) ==
    IF \/ entries[a].state = "reserved"
       \/ entries[a].state = "leased" /\ ~(entries[a].expires # 0 /\ now >= entries[a].expires)
    THEN entries[a].key ELSE None

-----------------------------------------------------------------------------
(* NewPool and reserve. *)

NeverUsed == [state |-> "free", key |-> None, expires |-> 0, freedAt |-> 0]

Reserved(k) == [state |-> "reserved", key |-> k, expires |-> 0, freedAt |-> 0]

Init ==
    /\ now = 1
    /\ entries = [a \in Addrs |-> IF Owner[a] = None THEN NeverUsed ELSE Reserved(Owner[a])]
    /\ byKey = [k \in Clients |->
                  IF \E a \in Addrs : Owner[a] = k
                  THEN CHOOSE a \in Addrs : Owner[a] = k ELSE None]
    /\ forgotten = {}

-----------------------------------------------------------------------------
(* Offer.  req is None when the client asks for no address of the pool.   *)

BindTo(es, a, k, reserved) ==
    /\ entries' = [es EXCEPT ![a] = Bound(@, k, reserved)]
    /\ byKey' = [byKey EXCEPT ![k] = a]
    /\ UNCHANGED <<now, forgotten>>

\* The index already points somewhere: that entry is bound, and neither its
\* key nor its state is looked at, but for the reservation.
OfferRemembered(k) ==
    /\ byKey[k] # None
    /\ BindTo(Swept, byKey[k], k, Swept[byKey[k]].state = "reserved")

OfferRequested(k, req) ==
    /\ byKey[k] = None
    /\ req # None
    /\ Available(Swept[req], k)
    /\ BindTo(Swept, req, k, FALSE)

OfferOldest(k, req) ==
    /\ byKey[k] = None
    /\ req # None => ~Available(Swept[req], k)
    /\ \E a \in OldestFree(Swept) : BindTo(Swept, a, k, FALSE)

OfferExhausted(k, req) ==
    /\ byKey[k] = None
    /\ req # None => ~Available(Swept[req], k)
    /\ OldestFree(Swept) = {}
    /\ entries' = Swept
    /\ UNCHANGED <<now, byKey, forgotten>>

Offer(k, req) ==
    \/ OfferRemembered(k)
    \/ OfferRequested(k, req)
    \/ OfferOldest(k, req)
    \/ OfferExhausted(k, req)

-----------------------------------------------------------------------------
(* Commit, Release, Decline, Free, and the methods that only look. *)

\* Faulty variant of LeavesBehind: the old binding is left to run out.
KeepsOld(es, k, a) == {}

\* The entry the client leaves behind when it commits another address.
LeavesBehind(es, k, a) == {b \in Addrs : byKey[k] = b /\ b # a /\ es[b].state # "reserved"}

\* Faulty variant of Leased: the term is taken from the time, not added to it.
LeasedBackwards(e, k) ==
    IF e.state = "reserved" THEN Bound(e, k, TRUE)
    ELSE Holding(e, k, "leased", now - LeaseTime)

\* Faulty variant of Leased: a reservation that is committed becomes a lease.
LeasedDespiteReservation(e, k) == Holding(e, k, "leased", now + LeaseTime)

Leased(e, k) ==
    IF e.state = "reserved" THEN Bound(e, k, TRUE)
    ELSE Holding(e, k, "leased", now + LeaseTime)

CommitGranted(k, a) ==
    /\ Available(Swept[a], k)
    /\ entries' = [b \in Addrs |-> IF b = a THEN Leased(Swept[a], k)
                                   ELSE IF b \in LeavesBehind(Swept, k, a)
                                        THEN Freed(Swept[b], now) ELSE Swept[b]]
    /\ byKey' = [byKey EXCEPT ![k] = a]
    /\ UNCHANGED <<now, forgotten>>

CommitRefused(k, a) ==
    /\ ~Available(Swept[a], k)
    /\ entries' = Swept
    /\ UNCHANGED <<now, byKey, forgotten>>

Commit(k, a) == CommitGranted(k, a) \/ CommitRefused(k, a)

Release(k, a) ==
    /\ entries[a].key = k
    /\ entries[a].state # "reserved"
    /\ entries' = [entries EXCEPT ![a] = Freed(@, now)]
    /\ UNCHANGED <<now, byKey, forgotten>>

Decline(k, a) ==
    LET key == entries[a].key IN
    /\ entries[a].state # "reserved"
    /\ key \in {None, k}
    /\ byKey' = IF key = None THEN byKey ELSE [byKey EXCEPT ![key] = None]
    /\ entries' = [entries EXCEPT ![a] = [state |-> "declined", key |-> None,
                                          expires |-> 0, freedAt |-> now]]
    /\ forgotten' = forgotten \cup ({key} \ {None})
    /\ UNCHANGED now

Readmitted(e) == [state |-> "free", key |-> e.key,
                  expires |-> e.expires, freedAt |-> now]

Free(a) ==
    /\ entries[a].state = "declined"
    /\ entries' = [entries EXCEPT ![a] = Readmitted(@)]
    /\ UNCHANGED <<now, byKey, forgotten>>

\* Lookup, Leases, Stats, and a Commit of an address outside the pool.
Look ==
    /\ entries' = Swept
    /\ UNCHANGED <<now, byKey, forgotten>>

Tick ==
    /\ now < MaxTime
    /\ now' = now + 1
    /\ UNCHANGED <<entries, byKey, forgotten>>

ClientAction(k) ==
    \E a \in Addrs :
        \/ \E req \in {a, None} : Offer(k, req)
        \/ Commit(k, a)
        \/ Release(k, a)
        \/ Decline(k, a)

Next ==
    \/ \E k \in Clients : ClientAction(k)
    \/ \E a \in Addrs : Free(a)
    \/ Look
    \/ Tick

Spec == Init /\ [][Next]_vars

-----------------------------------------------------------------------------
(* Properties. *)

Unlapsed(a) == entries[a].state \in LiveStates /\ entries[a].expires > now

\* An address is only ever reserved for its owner, and it stays reserved
\* through every message of every client, its owner's commits of other
\* addresses and the lapse of those included, as long as no DECLINE has made
\* the index forget the owner (reserve, Offer, Commit, bindLocked).
ReservationHonoured ==
    \A a \in Addrs :
        /\ entries[a].state = "reserved" => Owner[a] # None /\ entries[a].key = Owner[a]
        /\ Owner[a] # None /\ Owner[a] \notin forgotten => entries[a].state = "reserved"

\* However a client moves about, offers and leases of two addresses are never
\* live for it at once, unless a DECLINE made the index forget it: what Commit's
\* freeing of the old binding is for.
OneLiveAddress ==
    \A a, b \in Addrs :
        /\ entries[a].state \in LiveStates /\ entries[b].state \in LiveStates
        /\ entries[a].key = entries[b].key /\ entries[a].key \notin forgotten
        => a = b

\* Every offer and every lease has a client and an end no further away than
\* its own term: no sequence of offers, commits and renewals leaves an address
\* held for ever, and a quarantined or free one carries no end.
TermsBounded ==
    \A a \in Addrs : LET e == entries[a] IN
        /\ e.state \in LiveStates =>
              /\ e.key # None /\ e.expires > 0
              /\ e.expires <= now + (IF e.state = "offered" THEN OfferHold ELSE LeaseTime)
        /\ e.state \notin LiveStates => e.expires = 0
        /\ e.freedAt <= now

\* A binding that has not run out ends for its client only by a message of that
\* client, or of a client whose index entry still points at the address: no
\* other client's DISCOVER, REQUEST, RELEASE or DECLINE, no sweep and no
\* administrator can end it.
LiveBindingEnds ==
    [][\A a \in Addrs :
          /\ Unlapsed(a)
          /\ ~(entries'[a].state \in LiveStates /\ entries'[a].key = entries[a].key)
          => \E m \in Clients : /\ m = entries[a].key \/ byKey[m] = a
                                /\ ClientAction(m)]_vars

\* A declined address leaves quarantine by the administrator's Free, or by a
\* client whose index entry still points at it, and in no other way.
QuarantineHeld ==
    [][\A a \in Addrs :
          entries[a].state = "declined" /\ entries'[a].state # "declined" =>
             \/ Free(a)
             \/ \E m \in Clients : byKey[m] = a /\ ClientAction(m)]_vars

\* Lazy expiry is invisible: seen through the sweep the pool is a registry in
\* which every binding ends at the very tick its term runs out.
Registry == INSTANCE AddressRegistry WITH
    time <- now,
    binding <- [a \in Addrs |-> [state |-> Swept[a].state, key |-> Swept[a].key,
                                 until |-> Swept[a].expires]],
    memory <- byKey

RefinesRegistry == Registry!RegSpec

=============================================================================
