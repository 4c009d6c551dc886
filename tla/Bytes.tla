-------------------------------- MODULE Bytes -------------------------------
(***************************************************************************)
(* Big-endian numbers, as encoding/binary writes and reads them, and reads *)
(* from a file that may be too short.                                      *)
(***************************************************************************)
EXTENDS Integers, Sequences

CONSTANT Uint32   \* 2^32 in the program; values are cast to it

Byte == 0..255
Zeros(n) == [k \in 1..n |-> 0]

BE16(n) == <<(n \div 256) % 256, n % 256>>
U16(b) == b[1] * 256 + b[2]

Short == 256 * 256

(* At most 2^32, as far as TLC can count. *)
ASSUME Uint32Assumption == Uint32 \in Nat /\ Uint32 > 255 /\ (Uint32 - 1) \div Short < Short

BE32(n) == BE16(n \div Short) \o BE16(n)
U32(b) == U16(b) * Short + U16(SubSeq(b, 3, 4))

(* n bytes of f from place at on, counted from 0.  Past the end of the     *)
(* file the buffer, freshly made, keeps its zeros.                         *)
BytesAt(f, at, n) == [k \in 1..n |-> IF at + k <= Len(f) THEN f[at + k] ELSE 0]
Field(f, at) == U32(BytesAt(f, at, 4))
Has(f, at, n) == at + n <= Len(f)
=============================================================================
