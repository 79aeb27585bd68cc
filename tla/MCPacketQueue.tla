--------------------------- MODULE MCPacketQueue ---------------------------
(* Packets of one or two bytes: the sums of size then differ from counts.  *)
EXTENDS PacketQueue

OneOrTwo == {1, 2}
=============================================================================
