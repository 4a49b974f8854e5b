--------------------------- MODULE MCEventFilter ---------------------------
(* Instances of EventFilter for TLC. *)
EXTENDS EventFilter
=============================================================================
