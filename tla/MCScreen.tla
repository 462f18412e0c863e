------------------------------ MODULE MCScreen -------------------------------
(***************************************************************************)
(* Texts for a screen two columns wide: part of a line, a line break, and  *)
(* a line that is too long.                                                *)
(***************************************************************************)
EXTENDS Screen

MCTexts == {<<"a">>, <<"newline">>, <<"newline", "nul", "a">>, <<"a", "a", "a">>}
=============================================================================
