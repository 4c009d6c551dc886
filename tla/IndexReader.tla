----------------------------- MODULE IndexReader ----------------------------
(***************************************************************************)
(* parseIndexRecord of reader.go and what it calls, over the records INDX1 *)
(* and INDX2 that NcxIndex has written, or over a beginning of them: files *)
(* get cut.  Positions count from 0 at the start of INDX1, as the code's   *)
(* from the start of the file; what lies behind INDX2 is not looked at.    *)
(***************************************************************************)
EXTENDS NcxIndex

VARIABLE reader   \* what a Reader has found, or NotRead

NotRead == [result |-> "none", size |-> 0, count |-> 0, entries |-> <<>>]

-----------------------------------------------------------------------------
MatchMagic(f, at, magic) == BytesAt(f, at, 4) = magic

(* parseTagx *)
TagCount(f, at) == (Field(f, at + 4) - 12) \div 4
TagxError(f, at) ==
  \/ ~MatchMagic(f, at, TAGX)
  \/ Field(f, at + 4) < 12
  \/ ~Has(f, at, 12 + 4 * TagCount(f, at))
Tags(f, at) ==
  LET tag(k) == BytesAt(f, at + 8 + 4 * k, 4)
  IN  [k \in 1..TagCount(f, at) |-> [Tag |-> tag(k)[1], Bitmask |-> tag(k)[3], ControlByte |-> tag(k)[4]]]

(* What is read into Cncx.NCXCount, behind TAGX, the label and one byte. *)
CncxCount(f, at) ==
  LET label == at + Field(f, at + 4)
      count == label + 1 + BytesAt(f, label, 1)[1] + 1
  IN  IF Has(f, count, 2) THEN U16(BytesAt(f, count, 2)) ELSE 0

(* The offsets of parseIdxt: a table that is cut leaves them all 0. *)
Offsets(f, at, count) ==
  [k \in 1..count |-> IF Has(f, at + 4, 2 * count) THEN U16(BytesAt(f, at + 2 + 2 * k, 2)) ELSE 0]

(* parsePtagx: a value for each tag that the control byte announces. *)
parsePtagx(data, tags) ==
  LET announced(t) == t.ControlByte # 1 /\ (data[1] \div t.Bitmask) % 2 = 1
      read[k \in 0..Len(tags)] ==
        IF k = 0 THEN [data |-> Tail(data), values |-> <<>>]
        ELSE LET before == read[k - 1]
                 v == vwiDec(before.data)
             IN  IF announced(tags[k])
                 THEN [data |-> SubSeq(before.data, v.consumed + 1, Len(before.data)),
                       values |-> Append(before.values, <<tags[k].Tag, v.value>>)]
                 ELSE before
  IN  read[Len(tags)].values

-----------------------------------------------------------------------------
(* One record of parseIndexRecord; tags are those of an earlier record.    *)

EncUTF16 == BE32(65002)

(* Mutant of NoIndexAt: the word IDXT is not looked for. *)
NoIndexUnchecked(f, at) ==
  LET tagx == Field(f, at + 180)
  IN  \/ ~MatchMagic(f, at, INDX) \/ ~Has(f, at, IndxHeaderLen)
      \/ tagx # 0 /\ TagxError(f, at + tagx)
      \/ BytesAt(f, at + 28, 4) = EncUTF16 \/ Field(f, at + 168) > 0
      \/ Field(f, at + 48) > 0

NoIndexAt(f, at) ==
  LET tagx == Field(f, at + 180)
  IN  \/ ~MatchMagic(f, at, INDX) \/ ~Has(f, at, IndxHeaderLen)
      \/ tagx # 0 /\ TagxError(f, at + tagx)
      \/ BytesAt(f, at + 28, 4) = EncUTF16 \/ Field(f, at + 168) > 0
      \/ Field(f, at + 48) > 0
      \/ Field(f, at + 24) > 0 /\ ~MatchMagic(f, at + Field(f, at + 20), IDXT)

(* PTagxLen1, in the program's uint16. *)
DataLen(offsets, idxtOffset, k) ==
  ((IF k < Len(offsets) THEN offsets[k + 1] ELSE idxtOffset) - offsets[k]) % Word

(* What Parse of the file f has found when it returns, or panics. *)
Found(f, result, entriesRead) ==
  [result |-> result, size |-> Len(f), count |-> CncxCount(f, IndxHeaderLen), entries |-> entriesRead]

IndexRecord(f, at, tags) ==
  LET idxtOffset == Field(f, at + 20)
      offsets == Offsets(f, at + idxtOffset, Field(f, at + 24))
      len(k) == BytesAt(f, at + offsets[k], 1)[1]
      label(k) == BytesAt(f, at + offsets[k] + 1, len(k))
      data(k) == BytesAt(f, at + offsets[k] + 1 + len(k), DataLen(offsets, idxtOffset, k))
  IN  IF \E k \in DOMAIN offsets : DataLen(offsets, idxtOffset, k) = 0
      THEN Found(f, "panic", <<>>)
      ELSE Found(f, "nil", [k \in DOMAIN offsets |->
                              [label |-> label(k), values |-> parsePtagx(data(k), tags)]])

(* INDX1 is of type inflection: its own entry is not read, but the record   *)
(* after it is, and what goes wrong there is dropped, unless it panics.    *)
Parse(f) ==
  LET second == Len(indx1)
  IN  IF NoIndexAt(f, 0) THEN Found(f, "error", <<>>)
      ELSE IF NoIndexAt(f, second) THEN Found(f, "nil", <<>>)
      ELSE IndexRecord(f, second, Tags(f, IndxHeaderLen))

File == indx1 \o indx2

(* Where the sections of the two records end, counted from File's start. *)
EndOfIdxt1 == Len(indx1) - 4
EndOfEntries == Len(indx1) + IndxHeaderLen + Len(cncx) + 4
EndOfOffsets == EndOfEntries + 2 * Len(idxt)
SectionEnds ==
  {4, IndxHeaderLen, IndxHeaderLen + Field(indx1, IndxHeaderLen + 4), EndOfIdxt1, Len(indx1),
   Len(indx1) + IndxHeaderLen, EndOfEntries, EndOfOffsets, Len(File)}

(* Bound: the file is whole or ends with a section or inside its last bytes, *)
(* and is read once, at the end.                                             *)
ReadIndex ==
  /\ pc = "calls" /\ writes > 0
  /\ \E size \in SectionEnds \cup {end - 1 : end \in SectionEnds} :
       reader' = Parse(SubSeq(File, 1, size))
  /\ UNCHANGED <<vars, indexVars>>

ReaderInit == IndexInit /\ reader = NotRead
ReaderNext ==
  \/ reader = NotRead /\ IndexNext /\ UNCHANGED reader
  \/ reader = NotRead /\ ReadIndex
  \/ Done /\ UNCHANGED <<indexVars, reader>>

ReaderSpec == ReaderInit /\ [][ReaderNext]_<<vars, indexVars, reader>>

-----------------------------------------------------------------------------
(* Properties                                                              *)

(* Types of the state; everything written is a byte, every offset a uint16. *)
IndexTypeOK ==
  /\ TypeOK
  /\ idxt \in Seq(0..(Word - 1)) /\ cncx \in Seq(Byte) /\ indx1 \in Seq(Byte) /\ indx2 \in Seq(Byte)
  /\ labels \in Seq([at : Nat, title : NodeType])
  /\ reader.result \in {"none", "nil", "error", "panic"}

(* The inductive invariant of the index and its reader.                    *)

AllEntries == [k \in DOMAIN entries |-> EntryBytes(entries[k], labels[k].at)]
PlaceIn(all, k) == Len(FlattenSeq(SubSeq(all, 1, k - 1)))
IsDeep == \E k \in DOMAIN entries : entries[k].kind = "parent"

(* The buffers hold the entries made so far, one after another, and IDXT   *)
(* ends with the place of each, in its uint16.                             *)
Buffers ==
  LET all == AllEntries
      before == Len(idxt) - Len(entries)
  IN  /\ Len(labels) = Len(entries) /\ before \in Nat /\ cncx = FlattenSeq(all)
      /\ \A k \in DOMAIN entries :
           /\ labels[k].at = (k - 1) * (Len(vwiEncInt(TitleLen)) + TitleLen)
           /\ labels[k].title = entries[k].title
           /\ idxt[before + k] = (IndxHeaderLen + PlaceIn(all, k)) % Word
BuffersInv == pc \in {"headers", "children"} \/ Indexed => Buffers

(* Of the first WriteTo IDXT holds nothing else. *)
IdxtInv ==
  /\ writes = 0 /\ pc \in {"calls", "html"} => idxt = <<>>
  /\ writes = 0 /\ pc \in {"headers", "children"} => Len(idxt) = Len(entries)
  /\ writes = 1 /\ pc = "calls" => Len(idxt) = Len(entries)

(* There is a chapter when an index is made, and so an entry in each index; *)
(* the records are those of the entries, and what the reader has found is   *)
(* what Parse finds in the beginning of the file that it was given.         *)
RecordsInv ==
  /\ pc # "calls" => Book # <<>>
  /\ Indexed =>
       /\ entries # <<>>
       /\ indx1 = INDX1(IsDeep, Len(entries)) /\ indx2 = INDX2
       /\ IsDeep <=> \E k \in DOMAIN entries : entries[k].kind = "child"
  /\ reader # NotRead =>
       Indexed /\ reader.size \in 0..Len(File) /\ reader = Parse(SubSeq(File, 1, reader.size))

IndexIndInv == IndexTypeOK /\ BuffersInv /\ IdxtInv /\ RecordsInv

-----------------------------------------------------------------------------
Whole == reader.result # "none" /\ reader.size = Len(File)

(* What a reader should find of the k-th entry, by the tags of ptagx.go. *)
Expected(k) ==
  LET e == entries[k]
      values == <<<<1, e.offset>>, <<2, e.len>>, <<3, labels[k].at>>>>
                  \o CASE e.kind = "single" -> <<<<4, 0>>>>
                       [] e.kind = "parent" -> <<<<4, 0>>, <<22, e.first>>, <<23, e.last>>>>
                       [] e.kind = "child" -> <<<<4, 1>>, <<21, e.parent>>>>
  IN  [label |-> Label(e.label), values |-> values]
AllExpected == [k \in DOMAIN entries |-> Expected(k)]

(* No offset of this WriteTo has wrapped: the last entry starts in Word. *)
NoOffsetWrapped == IndxHeaderLen + PlaceIn(AllEntries, Len(entries)) < Word

(* What a reader finds in the index of a book written once is what was     *)
(* written, values, links and labels of every entry, exactly as long as no *)
(* offset has wrapped in its uint16 (writer.go:375); the records are made  *)
(* and read all the same.                                                  *)
EntriesRead == Whole /\ writes = 1 => (reader.entries = AllExpected <=> NoOffsetWrapped)

(* Idxt.Offset keeps the offsets of the first WriteTo (writer.go:375): in  *)
(* the index of the second its own entries are the last a reader finds.    *)
(* Where the first book had nothing but its contents chapter, two equal    *)
(* offsets follow each other, and parsePtagx panics (reader.go:218).       *)
RewrittenTail ==
  Whole /\ writes = 2 /\ NoOffsetWrapped =>
    LET before == Len(idxt) - Len(entries)
    IN  IF before = 1
        THEN reader.result = "panic"
        ELSE SubSeq(reader.entries, before + 1, Len(idxt)) = AllExpected

(* Of a file that was cut, only one whose INDX1 is not whole is refused:   *)
(* in the rest of it nothing is found and nothing said (reader.go:238), and *)
(* a table of offsets that is cut in two makes parsePtagx panic.           *)
CutsOfIndex ==
  reader.result # "none" /\ reader.size < EndOfOffsets =>
    /\ reader.result = "error" <=> reader.size < EndOfIdxt1
    /\ reader.result = "panic" <=> reader.size >= EndOfEntries /\ Len(idxt) > 1
    /\ reader.size < EndOfEntries => reader.entries = <<>>

(* "Parse will parse the fields of the file into this Reader"              *)
(* (reader.go:44): when it returns no error the index has been read.       *)
NilMeansRead == reader.result = "nil" => Len(reader.entries) = Len(idxt)
=============================================================================
