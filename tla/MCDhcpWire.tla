----------------------------- MODULE MCDhcpWire -----------------------------
(* A small instance of DhcpWire for TLC: fragments of two octets at most, and *)
(* data made of the very octets that pads and end marks are.                *)
EXTENDS DhcpWire

MCData == {<<>>, <<End>>, <<Pad, End>>}

=============================================================================
