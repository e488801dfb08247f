----------------------------- MODULE MCDhcpPool -----------------------------
(***************************************************************************)
(* Values of the pool's constants for TLC: one address of the range, which *)
(* three clients want, and one that is reserved for carol.  No symmetry:   *)
(* the runs check action properties and a refinement.                      *)
(***************************************************************************)
EXTENDS DhcpPool

CONSTANTS alice, bob, carol

MCClients == {alice, bob, carol}
MCAddrs == 1..2
MCDynamic == {2}
MCOwner == [a \in MCAddrs |-> IF a = 1 THEN carol ELSE None]

=============================================================================
