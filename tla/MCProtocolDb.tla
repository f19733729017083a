---------------------------- MODULE MCProtocolDb ----------------------------
(***************************************************************************)
(* The protocol database on two handles of three slots, two GUIDs and      *)
(* two interfaces: duplicates of a GUID, full handles and a full table all *)
(* occur.                                                                  *)
(***************************************************************************)
EXTENDS ProtocolDb
=============================================================================
