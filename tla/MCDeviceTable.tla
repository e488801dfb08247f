--------------------------- MODULE MCDeviceTable ---------------------------
(* Values of the device table's constants for TLC. *)
EXTENDS DeviceTable, TLC

CONSTANTS a1, a2, tablet, laptop, d1, d2, d3

MCAddrs == {a1, a2}
MCKeys == {tablet, laptop}
MCTextKeys == {tablet}
MCIds == {d1, d2, d3}

MCSymmetry == Permutations(MCAddrs) \cup Permutations(MCIds)

=============================================================================
