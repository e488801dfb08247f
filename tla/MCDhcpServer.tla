---------------------------- MODULE MCDhcpServer ----------------------------
(***************************************************************************)
(* Values of the server's constants for TLC.                               *)
(***************************************************************************)
EXTENDS DhcpServer, TLC

CONSTANTS alice, bob, here, there

MCClients == {alice, bob}
MCAddrs == 1..2
MCOwner == [a \in MCAddrs |-> None]
MCRelayed == {alice}
MCBroadcasting == {}
MCCame == [k \in MCClients |-> IF k = bob THEN None ELSE Elsewhere]
MCMaxXid == [k \in MCClients |-> IF k = bob THEN 1 ELSE 2]

\* One address, for the shortest way to two holders.
MCOneAddr == {1}
MCOneOwner == [a \in MCOneAddr |-> None]
MCNoneCame == [k \in MCClients |-> None]

=============================================================================
