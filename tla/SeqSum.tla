-------------------------------- MODULE SeqSum --------------------------------
(***************************************************************************)
(* Sums and counts along a sequence.  The sum is a recursive function      *)
(* (the community modules' folds are not within the provers' reach):       *)
(* SeqSumProofs shows what appending and splitting do to it.               *)
(***************************************************************************)
EXTENDS Integers, Sequences

(* The sum of a sequence of numbers.                                       *)
SumOf(s) ==
  LET sum[k \in 0..Len(s)] == IF k = 0 THEN 0 ELSE sum[k-1] + s[k]
  IN  sum[Len(s)]

(* How many elements of a sequence are in a set.                           *)
CountOf(s, S) == SumOf([k \in 1..Len(s) |-> IF s[k] \in S THEN 1 ELSE 0])
=============================================================================
