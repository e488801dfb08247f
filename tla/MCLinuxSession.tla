--------------------------- MODULE MCLinuxSession ---------------------------
(* The instances of LinuxSession that TLC checks. *)
EXTENDS LinuxSession

CONSTANT d1

MCDevices == {d1}

=============================================================================
