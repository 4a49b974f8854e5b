--------------------------- MODULE MCPacketStream ---------------------------
(* An instance of PacketStream for TLC.  A text may contain the magic       *)
(* number, and a header may look like a text.                               *)
EXTENDS PacketStream

MCMagic == 9
MCTypes == {1}
MCRunScript == {1}
MCChars == {7, MCMagic}
=============================================================================
