---------------------------- MODULE MCHtmlRecords ---------------------------
(***************************************************************************)
(* Small instances of HtmlRecords.  maxRecordSize is 3 bytes instead of    *)
(* 4096 and a text has at most MaxText characters, of one to four bytes:   *)
(* a chunk ends exactly at the limit or one, two or three bytes past it.   *)
(***************************************************************************)
EXTENDS HtmlRecords
LOCAL INSTANCE FiniteSetsExt

CONSTANTS MaxText, MCRunes

(* A byte that is not UTF-8 is read as one byte and written as three. *)
MCOutLen == [r \in MCRunes |-> CASE r = "ascii" -> 1 [] r = "two" -> 2
                                 [] r = "three" -> 3 [] r = "four" -> 4
                                 [] r = "invalid" -> 3]
MCSrcLen == [r \in MCRunes |-> IF r = "invalid" THEN 1 ELSE MCOutLen[r]]
MCBookTexts == UNION {[1..n -> MCRunes] : n \in 0..MaxText}
MCSrcBytes == [t \in MCBookTexts |-> MapThenSumSet(LAMBDA k : MCSrcLen[t[k]], DOMAIN t)]
=============================================================================
