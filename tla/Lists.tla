-------------------------------- MODULE Lists --------------------------------
(***************************************************************************)
(* Choosing from a list.  The elements to keep are given as a set, and the *)
(* list is built by a recursive function: unlike SelectSeq with its        *)
(* operator argument, its definition can be unfolded in a proof.           *)
(***************************************************************************)
EXTENDS Naturals, Sequences

(* The elements of s that are in keep, in their order. *)
Chosen(s, keep) ==
  LET kept[i \in 0 .. Len(s)] ==
        IF i = 0 THEN <<>>
        ELSE IF s[i] \in keep THEN Append(kept[i - 1], s[i]) ELSE kept[i - 1]
  IN  kept[Len(s)]
=============================================================================
