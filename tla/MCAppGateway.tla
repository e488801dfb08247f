---------------------------- MODULE MCAppGateway ----------------------------
(* Values of the gateway's constants for TLC. *)
EXTENDS AppGateway, TLC

CONSTANTS ui, quit

MCCallers == {ui, quit}

MCSymmetry == Permutations(MCCallers)

=============================================================================
