---------------------------- MODULE MCMonkeyGui ----------------------------
(***************************************************************************)
(* Scripts for MonkeyGui: one part, and two parts with markers and         *)
(* newlines where splitting could go wrong.                                *)
(***************************************************************************)
EXTENDS MonkeyGui

MCTexts == {<<>>, <<"newline", "restart", "newline", "code", "restart">>}
=============================================================================
