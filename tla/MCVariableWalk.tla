--------------------------- MODULE MCVariableWalk ---------------------------
(***************************************************************************)
(* Walks over a three-slot store with four names, the empty one among      *)
(* them: the table fills up, and holes are re-used by other names while a  *)
(* walk is in progress.                                                    *)
(***************************************************************************)
EXTENDS VariableWalk

CONSTANTS short, long, oversize

DataSet == {short, long, oversize}
Lengths == [d \in DataSet |-> CASE d = short -> 1 [] d = long -> 2 [] d = oversize -> 3]
=============================================================================
