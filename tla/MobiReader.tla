----------------------------- MODULE MobiReader -----------------------------
(***************************************************************************)
(* Reader.Parse of reader.go over the file that BookFile has written: the  *)
(* whole of it, or the beginning that reached a writer which then failed   *)
(* for good.  The file is what it is at each place: a part of the headers  *)
(* or a record, cut at the number of bytes accepted.                       *)
(***************************************************************************)
EXTENDS BookFile

VARIABLE parsed   \* what Parse returned, and the record it took for the index

NotParsed == [result |-> "none", index |-> 0]
Nil(k) == [result |-> "nil", index |-> k]
Error == [result |-> "error", index |-> 0]
Panic(k) == [result |-> "panic", index |-> k]
Crash == [result |-> "crash", index |-> 0]

(* Bytes 0 to end - 1 of the file are there. *)
Has(end) == accepted >= end

-----------------------------------------------------------------------------
(* parsePdf: the header and the whole table, or an error.                  *)
Record0 == PalmDBHeaderLen + 8 * RecordsNum + 2
PdfError == ~Has(PalmDBHeaderLen) \/ RecordsNum < 1 \/ ~Has(PalmDBHeaderLen + 8 * RecordsNum)

(* parsePdh reads record 0 behind the table, wherever its offset points.   *)
MobiAt == Record0 + PalmDocHeaderLen
ExthAt == MobiAt + MobiHeaderLen
NoMobi == ~Has(MobiAt + 4)

(* The error of binary.Read is not looked at: of a header that is not      *)
(* whole nothing is kept, so that there is neither EXTH nor index.         *)
HeaderRead == Has(ExthAt)

(* ExthParse: RecordCount stays 0 when it is cut off.  A record whose      *)
(* RecordLength is cut off gets 0 - 8 bytes in a uint32, and that is what  *)
(* is allocated: the program may have it or not.                           *)
NoExth == ~Has(ExthAt + 4)
LastLengthAt == ExthAt + ExthLen - Last(exth).RecordLength + 4
LengthUnderflows == Has(ExthAt + 12) /\ exth # <<>> /\ ~Has(LastLengthAt + 4)

(* Mutant of FoundAt: the record is looked up by its number from 1. *)
FoundBefore(k) ==
  {r \in 0..(Len(starts) - 1) :
     k < RecordsNum /\ starts[r + 1] = table[k] /\ Kind(r) \in {"indx1", "indx2"}}

(* OffsetToRecord, and INDX at that place; text that looks like a record   *)
(* of the index is left out.                                               *)
FoundAt(k) ==
  {r \in 0..(Len(starts) - 1) :
     k < RecordsNum /\ starts[r + 1] = table[k + 1] /\ Kind(r) \in {"indx1", "indx2"}}

(* Where the word IDXT of record r ends, and its table of offsets behind it. *)
IdxtEnd(r) == starts[r + 1] + (IF Kind(r) = "indx1" THEN records[r + 1].len - 8 ELSE IdxtOffset(r)) + 4
TableEnd(r) == IdxtEnd(r) + 2 * Len(Table(r))

(* Mutant of IndexWhole: the errors behind the magic are not looked at. *)
IndexBegun(r) == Has(starts[r + 1] + 4)

(* What parseIndexRecord looks at for errors ends with the word IDXT. *)
IndexWhole(r) == Has(IdxtEnd(r))

(* A table that is cut off is read as zeros.  Between two equal offsets    *)
(* are no data, and parsePtagx takes the control byte of them: it panics.  *)
EmptyEntry(r) ==
  LET offsets == [k \in DOMAIN Table(r) |-> IF Has(TableEnd(r)) THEN Table(r)[k] ELSE 0]
  IN  \E k \in DOMAIN offsets :
        offsets[k] = (IF k < Len(offsets) THEN offsets[k + 1] ELSE IdxtOffset(r) % Word)

(* Behind an INDX1, of type inflection, the next record is read too: its   *)
(* error is dropped, its panic is not.  An INDX2 read at once has no tags  *)
(* and no control byte.                                                    *)
Inflected(k) == \E r \in FoundAt(k) : Kind(r) = "indx1" /\ IndexWhole(r)
PanicAt(k) == \E r \in FoundAt(k) : Kind(r) = "indx2" /\ IndexWhole(r) /\ EmptyEntry(r)
PanicBehind(k) ==
  \E j \in (k + 1)..(RecordsNum - 1) : PanicAt(j) /\ \A i \in k..(j - 1) : Inflected(i)

parseIndexRecord(k) ==
  LET found == CHOOSE r \in FoundAt(k) : TRUE
  IN  IF \A r \in FoundAt(k) : ~IndexWhole(r) THEN Error
      ELSE IF PanicBehind(k) THEN Panic(found) ELSE Nil(found)

Parse ==
  /\ pc = "calls" /\ writes > 0
  /\ ~failed \/ failure = "for good"
  /\ parsed' = IF PdfError \/ NoMobi THEN Error
               ELSE IF ~HeaderRead THEN Nil(0)
               ELSE IF NoExth THEN Error
               ELSE parseIndexRecord(header.IndxRecodOffset)
  /\ UNCHANGED vars

(* The caller has added no EXTH record since the file was written. *)
ExthAsWritten == header.HeaderLenght = ExthHeaderLen

(* Parse of a file where RecordLength is cut off, when memory runs out. *)
ParseCrashes ==
  /\ pc = "calls" /\ writes > 0
  /\ failed /\ failure = "for good" /\ ExthAsWritten
  /\ HeaderRead /\ LengthUnderflows
  /\ parsed' = Crash
  /\ UNCHANGED vars

ReaderInit == Init /\ parsed = NotParsed

(* Bound: the file is read once, at the end. *)
ReaderNext ==
  \/ parsed = NotParsed /\ (Call \/ WriteTo) /\ UNCHANGED parsed
  \/ parsed = NotParsed /\ (Parse \/ ParseCrashes)
  \/ Done /\ UNCHANGED parsed

ReaderSpec == ReaderInit /\ [][ReaderNext]_<<vars, parsed>>

-----------------------------------------------------------------------------
(* Properties                                                              *)

(* What Parse returns: nothing yet, an error, a crash, or nil or a panic  *)
(* with the number of a record that is there.                              *)
ReaderTypeOK ==
  parsed \in {NotParsed, Error, Crash}
               \cup {Nil(k) : k \in 0..(Len(records) - 1)} \cup {Panic(k) : k \in 0..(Len(records) - 1)}

Parsed == parsed.result # "none"

(* A reader gets to the index of a book that was written without a failure *)
(* exactly as long as the headers fit (writer.go:207), also when the offset *)
(* of record 0, which it does not use, has wrapped.  It survives reading   *)
(* it, as long as no offset in it has wrapped, unless the builder had      *)
(* nothing but its contents when it was written for the first time and     *)
(* this is a later time: Idxt.Offset then has two equal offsets            *)
(* (writer.go:375, reader.go:218).                                         *)
IndexFound ==
  Parsed /\ ~failed =>
    LET k == header.IndxRecodOffset
    IN  /\ parsed \in {Nil(k), Panic(k)} <=> HeadersFit
        /\ HeadersFit /\ OffsetsFit => (parsed = Panic(k) <=> ContentsRewritten)

(* Of a file that was cut a reader says so, but for these cuts: behind the *)
(* word IDXT of INDX1; inside the MOBI header, which is then read as one   *)
(* of zeros, without index (reader.go:104); inside the EXTH records, which *)
(* it may not survive (reader.go:284); and inside the table of offsets of  *)
(* INDX2, where it panics if there is more than one (reader.go:365, 380).  *)
CutsOfBook ==
  Parsed /\ failed =>
    LET r == parsed.index
        k == header.IndxRecodOffset
        indx2 == k + 1
    IN  /\ parsed.result = "nil" /\ r = 0 => accepted \in (MobiAt + 4)..(ExthAt - 1)
        /\ parsed.result \in {"nil", "panic"} /\ r # 0 =>
             /\ accepted >= IdxtEnd(r)
             /\ HeadersFit => r = k
             /\ HeadersFit /\ OffsetsFit =>
                  (parsed.result = "panic" <=>
                     /\ indx2 < Len(starts) /\ accepted >= IdxtEnd(indx2)
                     /\ IF accepted < TableEnd(indx2) THEN Len(Table(indx2)) > 1 ELSE ContentsRewritten)
        /\ parsed.result = "panic" => r # 0
        /\ parsed.result = "crash" => accepted \in (ExthAt + 12)..(ExthAt + ExthLen - 1)

-----------------------------------------------------------------------------
(* The inductive invariant of the file and what a reader has made of it:   *)
(* Parse changes nothing, and returns one of its results.                  *)
ReaderIndInv == IndInv /\ ReaderTypeOK
=============================================================================
