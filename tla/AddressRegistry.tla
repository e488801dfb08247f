--------------------------- MODULE AddressRegistry ---------------------------
(***************************************************************************)
(* What an address pool promises, without saying how it keeps time or how  *)
(* it picks among the addresses it may give.  Every binding ends at the    *)
(* very tick its term runs out: there is no sweep here.  An offer may take *)
(* any acceptable address: the order of reuse is the pool's own business.  *)
(*                                                                         *)
(* DhcpPool, whose expiry is lazy, is shown to implement this module.      *)
(***************************************************************************)
EXTENDS Integers

CONSTANTS Clients, Addrs, Dynamic, Owner, LeaseTime, OfferHold, MaxTime, None

VARIABLES
    time,       \* the clock
    binding,    \* binding[a]: standing of the address, its client, its end
    memory      \* memory[k]: the address this client is remembered at

regVars == <<time, binding, memory>>

Vacant(key) == [state |-> "free", key |-> key, until |-> 0]
Held(key)   == [state |-> "offered", key |-> key, until |-> time + OfferHold]
Bound(key)  == [state |-> "leased", key |-> key, until |-> time + LeaseTime]
Static(key) == [state |-> "reserved", key |-> key, until |-> 0]

Acceptable(key, a) ==
    \/ binding[a].state = "free"
    \/ binding[a].state \in {"offered", "leased", "reserved"} /\ binding[a].key = key

RegInit ==
    /\ time = 1
    /\ binding = [a \in Addrs |->
                    IF Owner[a] = None THEN Vacant(None) ELSE Static(Owner[a])]
    /\ memory = [k \in Clients |->
                    IF \E a \in Addrs : Owner[a] = k
                    THEN CHOOSE a \in Addrs : Owner[a] = k ELSE None]

\* A remembered client is offered the address it is remembered at, whatever
\* its standing; only a reservation stays what it was.
HoldRemembered(k) ==
    /\ memory[k] # None
    /\ binding' = [binding EXCEPT ![memory[k]] =
                      IF @.state = "reserved" THEN Static(k) ELSE Held(k)]
    /\ UNCHANGED <<time, memory>>

\* Any other client is offered an address that is its own or nobody's.
HoldFresh(k, a) ==
    /\ memory[k] = None
    /\ Acceptable(k, a)
    /\ binding' = [binding EXCEPT ![a] = Held(k)]
    /\ memory' = [memory EXCEPT ![k] = a]
    /\ UNCHANGED time

\* Binding an address gives up the one the client is remembered at, except a
\* reservation.
Bind(k, a) ==
    /\ Acceptable(k, a)
    /\ binding' =
         [b \in Addrs |->
            IF b = a
            THEN IF binding[a].state = "reserved" THEN Static(k) ELSE Bound(k)
            ELSE IF b = memory[k] /\ binding[b].state # "reserved"
                 THEN Vacant(binding[b].key) ELSE binding[b]]
    /\ memory' = [memory EXCEPT ![k] = a]
    /\ UNCHANGED time

Vacate(k, a) ==
    /\ binding[a].key = k
    /\ binding[a].state # "reserved"
    /\ binding' = [binding EXCEPT ![a] = Vacant(k)]
    /\ UNCHANGED <<time, memory>>

Quarantine(k, a) ==
    /\ binding[a].state # "reserved"
    /\ binding[a].key \in {None, k}
    /\ memory' = IF binding[a].key = None THEN memory ELSE [memory EXCEPT ![k] = None]
    /\ binding' = [binding EXCEPT ![a] = [state |-> "declined", key |-> None, until |-> 0]]
    /\ UNCHANGED time

Readmit(a) ==
    /\ binding[a].state = "declined"
    /\ binding' = [binding EXCEPT ![a] = Vacant(None)]
    /\ UNCHANGED <<time, memory>>

\* Time passes, and every binding whose term ends at the new time ends with it.
Advance ==
    /\ time < MaxTime
    /\ time' = time + 1
    /\ binding' = [a \in Addrs |->
                     IF /\ binding[a].state \in {"offered", "leased"}
                        /\ binding[a].until <= time + 1
                     THEN Vacant(binding[a].key) ELSE binding[a]]
    /\ UNCHANGED memory

RegNext ==
    \/ \E k \in Clients :
          \/ HoldRemembered(k)
          \/ \E a \in Addrs :
                HoldFresh(k, a) \/ Bind(k, a) \/ Vacate(k, a) \/ Quarantine(k, a)
    \/ \E a \in Addrs : Readmit(a)
    \/ Advance

RegSpec == RegInit /\ [][RegNext]_regVars
=============================================================================
