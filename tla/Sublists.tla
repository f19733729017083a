------------------------------ MODULE Sublists ------------------------------
(***************************************************************************)
(* What a loop over a buffer leaves: some of its elements, or what a       *)
(* helper returns for each.                                                *)
(***************************************************************************)
EXTENDS Naturals, Sequences

(* The elements of a sequence that are in a set, in their order.           *)
Among(s, S) ==
    LET Kept[n \in 0..Len(s)] ==
            IF n = 0 THEN <<>>
            ELSE IF s[n] \in S THEN Append(Kept[n - 1], s[n]) ELSE Kept[n - 1]
    IN  Kept[Len(s)]

(* Sequences one after the other: what a loop that calls a helper in each  *)
(* round writes.                                                           *)
Joined(ss) ==
    LET Sum[n \in 0..Len(ss)] == IF n = 0 THEN <<>> ELSE Sum[n - 1] \o ss[n]
    IN  Sum[Len(ss)]
=============================================================================
