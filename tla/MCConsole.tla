------------------------------ MODULE MCConsole -----------------------------
(***************************************************************************)
(* A screen of two by two cells, and strings that fill a line, break it,   *)
(* go back on it and scroll it away.                                       *)
(***************************************************************************)
EXTENDS Console

MCStrings == {<<"a">>, <<"a", " ", "b">>, <<"b", "LF">>, <<"CR", "b">>, <<"BS", "nul">>}
=============================================================================
