----------------------------- MODULE MCBookFile -----------------------------
(* Small instances of BookFile: two text records, and indexes of one, two  *)
(* and four entries; where these are long the place of IDXT behind them is *)
(* beyond a word of 256.                                                   *)
EXTENDS MobiReader

MCTextLens == {<<3, 2>>}
Index(count, len) == [indx1 |-> 240, entries |-> [k \in 1..count |-> len], cncx |-> 6]
MCIndexLens == {Index(1, 11), Index(2, 11), Index(2, 40), Index(4, 11)}
=============================================================================
