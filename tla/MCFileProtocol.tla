---------------------------- MODULE MCFileProtocol ----------------------------
(***************************************************************************)
(* Two root names over slots of two bytes: LOG is absent or longer than a  *)
(* slot, SUB is a subdirectory whose file is also called LOG.              *)
(***************************************************************************)
EXTENDS FileProtocol

Entry(kind, data) == [kind |-> kind, data |-> data]

Cards ==
  {[LOG |-> e, SUB |-> Entry("dir", <<>>)] :
     e \in {Entry("none", <<>>), Entry("file", <<"LOG", "LOG", "LOG">>)}}
=============================================================================
