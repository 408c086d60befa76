--------------------------- MODULE MCPacketBuffer ---------------------------
(* A small instance of PacketBuffer for TLC: TS packets, as PutTS puts them. *)
EXTENDS PacketBuffer

MCSizes == {1}
=============================================================================
