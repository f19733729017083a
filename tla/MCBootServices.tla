--------------------------- MODULE MCBootServices ---------------------------
(***************************************************************************)
(* Boot Services on an eleven-page machine: firmware at page 1, three free *)
(* pages, a framebuffer page, up to two more pages of RAM, and the local   *)
(* peripherals at page 10.                                                 *)
(***************************************************************************)
EXTENDS BootServices

CONSTANTS li, to, fs, image, client

GuidSet == {li, to, fs}
InterfaceSet == {image, client}
(* The console output handle and, standing for the other firmware handles, *)
(* the SD handle with its protocols abstracted to one.                     *)
OwnProtocols == [con_out |-> <<to>>, sd |-> <<fs>>]
=============================================================================
