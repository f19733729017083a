--------------------------- MODULE MCUsbKeyboard ----------------------------
(***************************************************************************)
(* A hub with three ports, and devices whose configurations put the boot   *)
(* keyboard interface first, after a mouse's (combo), beyond the 64 bytes  *)
(* that are read (wide), after a descriptor of length 0 (blank), or        *)
(* without an IN endpoint of its own before a mouse's (odd).               *)
(***************************************************************************)
EXTENDS UsbKeyboard

Interface(kbd) == [len |-> 9, type |-> "interface", kbd |-> kbd]
Endpoint(in, n) == [len |-> 7, type |-> "endpoint", in |-> in, ep |-> n]
Other(len) == [len |-> len, type |-> "other"]

MCConfiguration ==
    [keyboard |-> <<Other(9), Interface(TRUE), Other(9), Endpoint(TRUE, 1)>>,
     combo    |-> <<Other(9), Interface(FALSE), Other(9), Endpoint(TRUE, 1),
                    Interface(TRUE), Endpoint(FALSE, 2), Endpoint(TRUE, 3)>>,
     wide     |-> <<Other(9), Interface(FALSE), Other(30),
                    Interface(TRUE), Endpoint(FALSE, 1), Endpoint(TRUE, 2)>>,
     blank    |-> <<Other(9), Other(0), Interface(TRUE), Endpoint(TRUE, 1)>>,
     odd      |-> <<Other(9), Interface(TRUE), Endpoint(FALSE, 1),
                    Interface(FALSE), Other(9), Endpoint(TRUE, 2)>>]
=============================================================================
