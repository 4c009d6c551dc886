--------------------------------- MODULE Vwi --------------------------------
(***************************************************************************)
(* Integers of variable width: vwiEncInt and vwiDec of util.go.  Seven     *)
(* bits to a byte, the highest first; the last byte has its top bit set.   *)
(***************************************************************************)
EXTENDS Bytes

(* The digits of n to the base d, the highest first; 0 has one. *)
Digits(n, d) ==
  LET digits[m \in 0..n] == IF m < d THEN <<m>> ELSE Append(digits[m \div d], m % d)
  IN  digits[n]

vwiEncInt(x) == LET d == Digits(x, 128) IN [d EXCEPT ![Len(d)] = @ + 128]

(* The bytes up to the first with the top bit, or all of them. *)
Consumed(src) ==
  CHOOSE n \in 0..Len(src) :
    /\ \A k \in 1..(n - 1) : src[k] < 128
    /\ IF n = 0 THEN src = <<>> ELSE src[n] >= 128 \/ n = Len(src)

(* vwiDec, forward: every caller passes true; it computes in a uint32. *)
vwiDec(src) ==
  LET n == Consumed(src)
      val[k \in 0..n] == IF k = 0 THEN 0 ELSE (val[k - 1] * 128 + (src[k] % 128)) % Uint32
  IN  [value |-> val[n], consumed |-> n]
=============================================================================
