------------------------------ MODULE MCEvents ------------------------------
EXTENDS Events

(* Lists that put the WaitForKey event, an event the application may have  *)
(* closed and a timer before and after each other.                         *)
MCWaitLists == {<<1, 3>>, <<3, 2>>}

(* A notify function sets its own timer again, or stops it, or signals the *)
(* event that does so.                                                     *)
MCNotifiers == {NoNotify, [act |-> "arm", on |-> 2, span |-> 40],
                [act |-> "cancel", on |-> 2, span |-> 0],
                [act |-> "close", on |-> 2, span |-> 0],
                [act |-> "signal", on |-> 2, span |-> 0]}
=============================================================================
