--------------------------- MODULE MCMonkeySystem ---------------------------
(* Instances of MonkeySystem for TLC. *)
EXTENDS MonkeySystem
=============================================================================
