-------------------------------- MODULE Sums --------------------------------
(* Running sums, as the loops of the program that add up lengths keep them. *)
EXTENDS Integers, Sequences

(* For every k, the sum of the first k elements of s. *)
SumOfFirst(s) ==
  LET sum[k \in 0..Len(s)] == IF k = 0 THEN 0 ELSE sum[k - 1] + s[k]
  IN  sum

Total(s) == SumOfFirst(s)[Len(s)]
=============================================================================
