-------------------------- MODULE MCDeviceFile --------------------------
(* Documents of alternating length, so that a later one may be shorter.  *)
EXTENDS DeviceFile, TLC

MCLength == [v \in Versions |-> IF v = 0 THEN 1 ELSE 2 + (v % 2)]
Symmetry == Permutations(Savers)
=============================================================================
