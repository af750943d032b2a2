-------------------------------- MODULE Sums --------------------------------
(***************************************************************************)
(* Sums over sequences, and what is left of a sequence, named so that      *)
(* proofs can speak of them.                                               *)
(***************************************************************************)
EXTENDS Integers, Sequences, SequencesExt

Total(v) == FoldLeft(+, 0, v)

(* The elements of s at the indices in good, in their order. *)
Kept(s, good) ==
  LET kept[n \in 0 .. Len(s)] ==
        IF n = 0 THEN <<>> ELSE IF n \in good THEN Append(kept[n - 1], s[n]) ELSE kept[n - 1]
  IN  kept[Len(s)]
=============================================================================
