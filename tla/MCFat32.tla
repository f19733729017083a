------------------------------- MODULE MCFat32 -------------------------------
(***************************************************************************)
(* A volume of a few clusters with two FATs and one entry per directory    *)
(* cluster, so that the second file already extends the root directory.    *)
(***************************************************************************)
EXTENDS Fat32

Roots == {[s \in 1 .. DirSlots |-> IF s = 1 THEN m ELSE End] : m \in Marks}
=============================================================================
