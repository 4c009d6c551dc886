--------------------------- MODULE OrderedRecords ---------------------------
(***************************************************************************)
(* What convertHTMLToRecords (writer.go) promises to the rest of the       *)
(* builder: the book's text, cut into consecutive non-empty pieces, one    *)
(* piece per record, appended to the builder's record list in the order of *)
(* the text, and the whole text is there when the conversion returns.      *)
(* Goroutines, the channel and the wait group are not visible here.        *)
(***************************************************************************)
EXTENDS Integers, Sequences

CONSTANT BookTexts    \* the texts a book may have, as sequences of characters

VARIABLES
  text,      \* the book's HTML
  out,       \* the text records appended so far: [first, last] character positions
  sealed     \* the conversion has returned

vars == <<text, out, sealed>>

(* Number of characters the records hold so far. *)
Covered == IF out = <<>> THEN 0 ELSE out[Len(out)].last

Init ==
  /\ text \in BookTexts
  /\ out = <<>>
  /\ sealed = FALSE

(* One more record: the characters after those already covered, up to `last'. *)
AddPiece(last) ==
  /\ ~sealed
  /\ Covered < last
  /\ out' = Append(out, [first |-> Covered + 1, last |-> last])
  /\ UNCHANGED <<text, sealed>>

(* The conversion returns only when nothing of the text is missing. *)
Seal ==
  /\ ~sealed
  /\ Covered = Len(text)
  /\ sealed' = TRUE
  /\ UNCHANGED <<text, out>>

Next == Seal \/ \E last \in 1..Len(text) : AddPiece(last)

Spec == Init /\ [][Next]_vars /\ WF_vars(Next)

=============================================================================
