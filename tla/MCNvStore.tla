------------------------------ MODULE MCNvStore ------------------------------
(***************************************************************************)
(* A card and a two-slot store: the smoke-test variable, one setting and   *)
(* the application's variables of the same names compete for the slots.    *)
(***************************************************************************)
EXTENDS NvStore

CONSTANTS off, on, wide, ferro, app

DataSet == {off, on, wide}
Lengths == [d \in DataSet |-> IF d = wide THEN 2 ELSE 1]
Bytes == [d \in {off, on} |-> IF d = off THEN 0 ELSE 1]
TestKey == [name |-> "TEST", guid |-> app]
Cases == [s \in Setting |-> 2]
Defaults == [s \in Setting |-> 1]
=============================================================================
