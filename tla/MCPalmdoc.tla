------------------------------ MODULE MCPalmdoc -----------------------------
(***************************************************************************)
(* Small instances of Palmdoc.  Bytes keep their values, since the format  *)
(* distinguishes them by range; chunks and window are shorter than in the  *)
(* program so that a short text fills them.                                *)
(***************************************************************************)
EXTENDS Palmdoc, SequencesExt

CONSTANTS
  Letters,   \* bytes of the long texts, where matches happen
  MaxLong,   \* their length
  Kinds,     \* one byte of every range of the format, for the short texts
  MaxShort   \* their greatest length

Texts(bytes, lengths) == UNION {[1..n -> bytes] : n \in lengths}
NoTail(texts) == {t \o <<0>> : t \in texts}

(* Texts over few letters, with matches near, far and overlapping: the     *)
(* shortest with a search, and some long enough for a second one.          *)
LongInputs == NoTail(Texts(Letters, {2 * MaxChunk + 2, MaxLong}))

(* Short texts over every kind of byte, also with a tail of up to 3 bytes. *)
ShortInputs ==
  NoTail(Texts(Kinds, 0..MaxShort))
    \cup {t \o <<n>> : t \in Texts(Kinds, {MaxShort}), n \in 0..3}

(* Runs of bytes that are written behind a count, around the limit of 8. *)
RunInputs == {[k \in 1..n |-> 194 + k] \o <<97, 0>> : n \in 1..18}

AllInputs == LongInputs \cup ShortInputs \cup RunInputs
MCInputs == AllInputs
=============================================================================
