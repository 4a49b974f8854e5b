----------------------------- MODULE MCGuiCall -----------------------------
(* Instances of GuiCall for TLC. *)
EXTENDS GuiCall
=============================================================================
