------------------------------ MODULE BookFile ------------------------------
(***************************************************************************)
(* The file WriteTo makes: the records it collects, the numbers its        *)
(* headers give to them, the table of their offsets, and the bytes that go *)
(* to an io.Writer which may fail.  writer.go, with GetHeaderLenght and    *)
(* Add of exth.go; the text is records of some length here, and the index  *)
(* is the lengths of its records and entries and the table of offsets.     *)
(*                                                                         *)
(* Records are numbered from 0 as in the file: records[k + 1] is record k. *)
(***************************************************************************)
EXTENDS Sums, SequencesExt

CONSTANTS
  TextLens,    \* what convertHTMLToRecords may add: lengths of text records
  IndexLens,   \* lengths of INDX1, of each entry of INDX2, and of CNCX
  TitleLens, ImageLens, ValueLens,
  Word,        \* 2^16 in the program: the range of uint16
  Reserve,     \* 1024*10: room kept for the headers
  Failures,    \* how the io.Writer may fail: "never", "once", "for good"
  MaxImages, MaxExth, MaxWrites   \* bounds: calls of the builder's methods

PalmDBHeaderLen == 78
PalmDocHeaderLen == 16
MobiHeaderLen == 232
IndxHeaderLen == 192
NoIndex == -1        \* uint32Max

ASSUME WordAssumption == Word \in Nat \ {0} /\ Reserve \in Nat
ASSUME LensAssumption ==
  /\ \A t \in TextLens : t \in Seq(Nat) /\ Len(t) > 0
  /\ \A x \in IndexLens :
       /\ x \in [indx1 : Nat \ {0}, entries : Seq(1..(Word - 1)), cncx : Nat]
       /\ x.entries # <<>>
  /\ TitleLens \cup ImageLens \cup ValueLens \subseteq Nat
ASSUME BoundsAssumption == MaxImages \in Nat /\ MaxExth \in Nat /\ MaxWrites \in Nat

VARIABLES
  title, embedded, exth,    \* what the caller has set: see the actions
  records,                  \* w.records: what each is, and its length
  textCount,                \* Pdh.RecordCount
  idxt,                     \* w.Idxt.Offset
  header,                   \* the numbers of Header that name records and places
  pc, at,                   \* where WriteTo is, and the index of its loop
  failure,                  \* how out fails in this call
  down,                     \* out has failed for good
  failed,                   \* history: some out.Write has returned an error
  accepted,                 \* history: bytes out has taken
  writtenBytes,             \* bw.writtenBytes
  table,                    \* the record offsets written
  starts,                   \* history: where each record began in the file
  nameStart,                \* history: where the title began
  result,                   \* what WriteTo returned
  writes

callVars == <<title, embedded, exth>>
outVars == <<failure, down, failed, accepted, writtenBytes>>
fileVars == <<table, starts, nameStart>>
vars == <<callVars, records, textCount, idxt, header, pc, at, outVars, fileVars, result, writes>>

(* idxt is the table of offsets in INDX2, and empty in all other records. *)
Rec(kind, len) == [kind |-> kind, len |-> len, idxt |-> <<>>]
Kind(k) == records[k + 1].kind

NoHeader ==
  [FirstNonBookIndex |-> 0, IndxRecodOffset |-> 0, FirstImageIndex |-> 0,
   LastContentRecordNumber |-> 0, FlisRecordIndex |-> 0, FcisRecordIndex |-> 0,
   FullNameOffset |-> 0, HeaderLenght |-> 0]

Init ==
  /\ title \in TitleLens /\ embedded = <<>> /\ exth = <<>>
  /\ records = <<>> /\ textCount = 0 /\ idxt = <<>> /\ header = NoHeader
  /\ pc = "calls" /\ at = 0
  /\ failure = "never" /\ down = FALSE /\ failed = FALSE
  /\ accepted = 0 /\ writtenBytes = 0
  /\ table = <<>> /\ starts = <<>> /\ nameStart = 0
  /\ result = [n |-> 0, err |-> FALSE] /\ writes = 0

-----------------------------------------------------------------------------
(* The caller.                                                             *)

AddCover(coverLen, thumbLen) ==
  /\ pc = "calls" /\ Len(embedded) < MaxImages
  /\ embedded' = embedded \o <<[type |-> "cover", len |-> coverLen], [type |-> "thumb", len |-> thumbLen]>>
  /\ UNCHANGED <<title, exth, records, textCount, idxt, header, pc, at, outVars, fileVars, result, writes>>

(* Exth.Add: the record's length counts its type and its length field. *)
ExthRecord(type, value, valueLen) == [type |-> type, value |-> value, RecordLength |-> 8 + valueLen]

NewExthRecord(valueLen) ==
  /\ pc = "calls" /\ Len(exth) < MaxExth
  /\ exth' = Append(exth, ExthRecord("other", 0, valueLen))
  /\ UNCHANGED <<title, embedded, records, textCount, idxt, header, pc, at, outVars, fileVars, result, writes>>

-----------------------------------------------------------------------------
(* WriteTo, first half: records are collected.                             *)

(* Mutant of TextCount: record 0 is counted with the text. *)
CountRecordZero(recs) == Len(recs) % Word
(* Pdh.RecordCount is what there is without record 0. *)
TextCount(recs) == (Len(recs) - 1) % Word

(* Chapters are never taken away, and each WriteTo adds one for the        *)
(* contents: an index has more entries than those before it have on        *)
(* average.                                                                *)
MayFollow(lens) == idxt = <<>> \/ Len(idxt) < writes * Len(lens.entries)

(* Record 0 is reserved, then the text.  Bound: there is an index to come. *)
AddBookRecords(text, fault) ==
  /\ pc = "calls" /\ writes < MaxWrites /\ \E lens \in IndexLens : MayFollow(lens)
  /\ records' = records \o <<Rec("reserved", 1)>> \o [k \in DOMAIN text |-> Rec("text", text[k])]
  /\ textCount' = TextCount(records')
  /\ pc' = "index"
  /\ failure' = fault /\ down' = FALSE /\ failed' = FALSE /\ accepted' = 0 /\ writtenBytes' = 0
  /\ table' = <<>> /\ starts' = <<>> /\ nameStart' = 0
  /\ result' = [n |-> 0, err |-> FALSE]
  /\ UNCHANGED <<callVars, idxt, header, at, writes>>

(* Mutant of IndexNumber: taken before the zeros are added. *)
NumberBeforeZeros == Len(records)
IndexNumber == Len(records) + 1

(* What generateCNCX appends to Idxt.Offset: the place of each entry. *)
EntryOffsets(entries) == [k \in DOMAIN entries |-> (IndxHeaderLen + SumOfFirst(entries)[k - 1]) % Word]

(* generateINDX2: header, entries, the word IDXT, all of Idxt.Offset, zeros. *)
TablePadding(offsets) == (Len(offsets) + 4) % 4
Indx2(entries, offsets) ==
  [kind |-> "indx2", idxt |-> offsets,
   len |-> IndxHeaderLen + Total(entries) + 4 + 2 * Len(offsets) + TablePadding(offsets)]

(* The two zero bytes, generateINDX1 and generateINDX2, of the entries     *)
(* that generateCNCX has made before.                                      *)
AddIndexRecords(lens) ==
  /\ pc = "index" /\ MayFollow(lens)
  /\ idxt' = idxt \o EntryOffsets(lens.entries)
  /\ records' = records \o <<Rec("zeros", 2), Rec("indx1", lens.indx1),
                             Indx2(lens.entries, idxt'), Rec("cncx", lens.cncx)>>
  /\ header' = [header EXCEPT !.FirstNonBookIndex = Len(records) + 1,
                              !.IndxRecodOffset = IndexNumber]
  /\ pc' = "images"
  /\ UNCHANGED <<callVars, textCount, at, outVars, fileVars, result, writes>>

(* Mutant of ExthOfImage: images are counted from 1. *)
ExthFromOne(k) ==
  IF embedded[k].type = "cover"
  THEN <<ExthRecord("uri", k, 17), ExthRecord("coverOffset", k, 4)>>
  ELSE <<ExthRecord("thumbOffset", k, 4)>>

(* What WriteTo adds to the EXTH header for the k-th embedded image. *)
ExthOfImage(k) ==
  IF embedded[k].type = "cover"
  THEN <<ExthRecord("uri", k, 17), ExthRecord("coverOffset", k - 1, 4)>>
  ELSE <<ExthRecord("thumbOffset", k - 1, 4)>>

AddImages ==
  /\ pc = "images"
  /\ records' = records \o [k \in DOMAIN embedded |-> Rec(embedded[k].type, embedded[k].len)]
  /\ exth' = exth \o FlattenSeq([k \in DOMAIN embedded |-> ExthOfImage(k)])
  /\ header' = [header EXCEPT !.FirstImageIndex = IF embedded = <<>> THEN NoIndex ELSE Len(records)]
  /\ pc' = "trailer"
  /\ UNCHANGED <<title, embedded, textCount, idxt, at, outVars, fileVars, result, writes>>

AddTrailer ==
  /\ pc = "trailer"
  /\ records' = records \o <<Rec("flis", 36), Rec("fcis", 44), Rec("eof", 4)>>
  /\ header' = [header EXCEPT !.LastContentRecordNumber = (Len(records) - 1) % Word,
                              !.FlisRecordIndex = Len(records),
                              !.FcisRecordIndex = Len(records) + 1]
  /\ pc' = "headers" /\ at' = 1
  /\ UNCHANGED <<callVars, textCount, idxt, outVars, fileVars, result, writes>>

-----------------------------------------------------------------------------
(* The io.Writer.  A failing Write takes part of the bytes or none; after  *)
(* it has failed for good every Write fails.  Bound: the part is a half or *)
(* all but one byte.                                                       *)

OutTakes(len) ==
  /\ ~down
  /\ accepted' = accepted + len /\ writtenBytes' = writtenBytes + len
  /\ UNCHANGED <<failure, down, failed>>

(* Mutant of Counted: the bytes are counted before they are written. *)
CountedBefore(len, taken, binary) == len
(* writeBinary counts what was taken before the error, Write nothing. *)
Counted(len, taken, binary) == IF binary THEN taken ELSE 0

OutFails(len, binary) ==
  /\ down \/ (failure # "never" /\ ~failed)
  /\ \E taken \in IF down THEN {0} ELSE {0, len \div 2, len - 1} \cap Nat :
       /\ accepted' = accepted + taken
       /\ writtenBytes' = writtenBytes + Counted(len, taken, binary)
  /\ failed' = TRUE
  /\ down' = (failure = "for good")
  /\ UNCHANGED failure

-----------------------------------------------------------------------------
(* WriteTo, second half: bytes are written.                                *)

RecordsNum == Len(records) % Word
ExthLen == 12 + Total([k \in DOMAIN exth |-> exth[k].RecordLength])
(* GetHeaderLenght, and Exth.HeaderLenght after initExth. *)
ExthPadding == ExthLen % 4
ExthHeaderLen == ExthLen + ExthPadding

(* Mutant of NameOffset: the padding of the EXTH header is left out. *)
NameWithoutPadding == PalmDocHeaderLen + MobiHeaderLen + ExthLen + 1
NameOffset == PalmDocHeaderLen + MobiHeaderLen + ExthHeaderLen + 1
TextStart == textCount * 8 + Reserve

(* The lengths of record 1 and the records behind it. *)
Lengths == [j \in 1..(Len(records) - 1) |-> records[j + 1].len]

(* Mutant of Offset: a record's own length is added before it is placed. *)
OffsetPastRecord(k) ==
  IF k = 0 THEN ((RecordsNum * 8) + PalmDBHeaderLen + 2) % Word
  ELSE TextStart + SumOfFirst(Lengths)[k]

(* The offset written for record k; the first is computed in a uint16. *)
Offset(k) ==
  IF k = 0 THEN ((RecordsNum * 8) + PalmDBHeaderLen + 2) % Word
  ELSE TextStart + SumOfFirst(Lengths)[k - 1]

(* The calls of initPDF, initPDH, initHeader, initExth and WriteTo up to   *)
(* the seek, in order: what is written, how long it is, and whether        *)
(* writeBinary writes it.  pad of no bytes writes nothing.                 *)
Part(what, len, binary) == [what |-> what, len |-> len, binary |-> binary]
Pad(len) == IF len = 0 THEN <<>> ELSE <<Part("zeros", len, FALSE)>>

(* initPDF: the header and the table. *)
PdfParts ==
  <<Part("pdf", PalmDBHeaderLen, TRUE)>> \o [k \in 1..RecordsNum |-> Part("offset", 8, TRUE)]
    \o <<Part("zeros", 2, FALSE)>>

(* initPDH and initHeader. *)
MobiParts == <<Part("record0", PalmDocHeaderLen, TRUE), Part("mobi", MobiHeaderLen, TRUE)>>

(* initExth: magic, length and count, then type, length and value of each. *)
ExthParts ==
  <<Part("exth", 4, TRUE), Part("entry", 4, TRUE), Part("entry", 4, TRUE)>>
    \o FlattenSeq([k \in DOMAIN exth |->
         <<Part("entry", 4, TRUE), Part("entry", 4, TRUE),
           Part("entry", exth[k].RecordLength - 8, TRUE)>>])
    \o Pad(ExthPadding)

NameParts == <<Part("zeros", 1, FALSE), Part("title", title, FALSE)>>

HeaderParts == PdfParts \o MobiParts \o ExthParts \o NameParts

(* One of them; nobody looks at its error. *)
WriteHeaderPart ==
  /\ pc = "headers" /\ at <= Len(HeaderParts)
  /\ LET part == HeaderParts[at]
     IN  /\ OutTakes(part.len) \/ OutFails(part.len, part.binary)
         /\ table' = IF part.what = "offset" THEN Append(table, Offset(Len(table))) ELSE table
         /\ starts' = IF part.what = "record0" THEN Append(starts, accepted) ELSE starts
         /\ nameStart' = IF part.what = "title" THEN accepted ELSE nameStart
         /\ header' = CASE part.what = "mobi" -> [header EXCEPT !.FullNameOffset = NameOffset]
                        [] part.what = "exth" -> [header EXCEPT !.HeaderLenght = ExthHeaderLen]
                        [] OTHER -> header
  /\ at' = at + 1
  /\ UNCHANGED <<callVars, records, textCount, idxt, pc, result, writes>>

Return(n, err) ==
  /\ result' = [n |-> n, err |-> err]
  /\ pc' = "calls" /\ at' = 0 /\ writes' = writes + 1

(* seekForwardTo: nothing is written when the headers have passed the mark. *)
SeekToText ==
  /\ pc = "headers" /\ at > Len(HeaderParts)
  /\ LET gap == TextStart - writtenBytes
     IN  \/ /\ gap > 0 /\ OutTakes(gap)
            /\ pc' = "records" /\ at' = 1 /\ UNCHANGED <<result, writes>>
         \/ gap > 0 /\ OutFails(gap, FALSE) /\ Return(writtenBytes', TRUE)
         \/ /\ gap <= 0 /\ UNCHANGED outVars
            /\ pc' = "records" /\ at' = 1 /\ UNCHANGED <<result, writes>>
  /\ UNCHANGED <<callVars, records, textCount, idxt, header, fileVars>>

(* Mutant of WriteRecord: the error is not looked at. *)
WriteRecordAnyway ==
  /\ pc = "records" /\ at < Len(records)
  /\ LET len == records[at + 1].len
     IN  \/ OutTakes(len) /\ at' = at + 1 /\ UNCHANGED <<pc, result, writes>>
         \/ OutFails(len, FALSE) /\ at' = at + 1 /\ UNCHANGED <<pc, result, writes>>
  /\ starts' = Append(starts, accepted)
  /\ UNCHANGED <<callVars, records, textCount, idxt, header, table, nameStart>>

WriteRecord ==
  /\ pc = "records" /\ at < Len(records)
  /\ LET len == records[at + 1].len
     IN  \/ OutTakes(len) /\ at' = at + 1 /\ UNCHANGED <<pc, result, writes>>
         \/ OutFails(len, FALSE) /\ Return(writtenBytes', TRUE)
  /\ starts' = Append(starts, accepted)
  /\ UNCHANGED <<callVars, records, textCount, idxt, header, table, nameStart>>

(* Mutant of AllWritten: the loop stops one record early. *)
LastRecordLeft ==
  /\ pc = "records" /\ at >= Len(records) - 1
  /\ Return(writtenBytes, FALSE)
  /\ UNCHANGED <<callVars, records, textCount, idxt, header, outVars, fileVars>>

AllWritten ==
  /\ pc = "records" /\ at >= Len(records)
  /\ Return(writtenBytes, FALSE)
  /\ UNCHANGED <<callVars, records, textCount, idxt, header, outVars, fileVars>>

-----------------------------------------------------------------------------
Call ==
  \/ \E coverLen, thumbLen \in ImageLens : AddCover(coverLen, thumbLen)
  \/ \E valueLen \in ValueLens : NewExthRecord(valueLen)

WriteTo ==
  \/ \E text \in TextLens, fault \in Failures : AddBookRecords(text, fault)
  \/ \E lens \in IndexLens : AddIndexRecords(lens)
  \/ AddImages \/ AddTrailer
  \/ WriteHeaderPart \/ SeekToText \/ WriteRecord \/ AllWritten

(* The caller stops when it wants to. *)
Done == pc = "calls" /\ UNCHANGED vars

Next == Call \/ WriteTo \/ Done

Spec == Init /\ [][Next]_vars

-----------------------------------------------------------------------------
(* Properties                                                              *)

(* Types of the state. *)
TypeOK ==
  /\ title \in Nat
  /\ embedded \in Seq([type : {"cover", "thumb"}, len : Nat])
  /\ exth \in Seq([type : {"other", "uri", "coverOffset", "thumbOffset"}, value : Nat, RecordLength : Nat])
  /\ records \in Seq([kind : {"reserved", "text", "zeros", "indx1", "indx2", "cncx", "cover", "thumb",
                              "flis", "fcis", "eof"}, len : Nat, idxt : Seq(Nat)])
  /\ textCount \in Nat /\ idxt \in Seq(Nat)
  /\ header \in [FirstNonBookIndex : Nat, IndxRecodOffset : Nat, FirstImageIndex : Nat \cup {NoIndex},
                 LastContentRecordNumber : Nat, FlisRecordIndex : Nat, FcisRecordIndex : Nat,
                 FullNameOffset : Nat, HeaderLenght : Nat]
  /\ pc \in {"calls", "index", "images", "trailer", "headers", "records"} /\ at \in Nat
  /\ failure \in Failures \cup {"never"} /\ down \in BOOLEAN /\ failed \in BOOLEAN
  /\ accepted \in Nat /\ writtenBytes \in Nat
  /\ table \in Seq(Nat) /\ starts \in Seq(Nat) /\ nameStart \in Nat
  /\ result \in [n : Nat, err : BOOLEAN]
  /\ writes \in 0..MaxWrites /\ (pc # "calls" => writes < MaxWrites)

Finished == pc = "calls" /\ writes > 0
Undisturbed == Finished /\ ~failed

(* What the arithmetic of the table takes for granted: the headers end     *)
(* before the mark that seekForwardTo fills up to, and the offset of       *)
(* record 0 is a uint16.                                                   *)
HeadersFit == nameStart + title <= TextStart
NoWrap == PalmDBHeaderLen + 8 * Len(records) + 2 < Word

(* The table gives every record the offset it has in the file (mobi.go:33) *)
(* exactly as long as the headers fit and nothing wraps; else it is wrong  *)
(* and the file is written all the same.                                   *)
OffsetsTrue == Undisturbed => (table = starts <=> HeadersFit /\ NoWrap)

(* The title is where FullNameOffset says, counted from record 0           *)
(* (header.go:21).                                                         *)
NameFound == Undisturbed => nameStart = starts[1] + header.FullNameOffset

(* These numbers of the headers name records of the right kind: the index  *)
(* is three records in a row, the content of a book with images ends with  *)
(* the last of them, and the trailer is FLIS, FCIS and the end of file;    *)
(* also after the builder has been written before (writer.go:166-197).     *)
NumbersName ==
  Finished =>
    /\ \A k \in 0..2 : Kind(header.IndxRecodOffset + k) = <<"indx1", "indx2", "cncx">>[k + 1]
    /\ header.FirstImageIndex # NoIndex => Kind(header.LastContentRecordNumber) = "thumb"
    /\ Kind(header.FlisRecordIndex) = "flis" /\ Kind(header.FcisRecordIndex) = "fcis"
    /\ Kind(Len(records) - 1) = "eof"

(* "First record number (starting with 0) that's not the book's text"      *)
(* (header.go:20), in a book written once: all between record 0 and it is  *)
(* text, and it is not.                                                    *)
FirstNotText ==
  Finished /\ writes = 1 =>
    /\ \A k \in 1..(header.FirstNonBookIndex - 1) : Kind(k) = "text"
    /\ Kind(header.FirstNonBookIndex) # "text"

(* "Number of last image record or number of last text record if it        *)
(* contains no images" (header.go:44).                                     *)
LastContentNamed ==
  Finished =>
    Kind(header.LastContentRecordNumber) = IF header.FirstImageIndex = NoIndex THEN "text" ELSE "thumb"

(* Of the two numbers that tell where the content ends, one at least is    *)
(* what header.go says of it (:20 and :44). A book that has neither of     *)
(* them right refutes both comments at once.                               *)
TextEndNamed == FirstNotText \/ LastContentNamed

(* Cover and thumbnail are found from FirstImageIndex by the offsets of    *)
(* the EXTH records, each of them an image of its kind (writer.go:169-171). *)
CoversFound ==
  Finished /\ embedded # <<>> =>
    \A k \in DOMAIN exth :
      /\ exth[k].type = "coverOffset" => Kind(header.FirstImageIndex + exth[k].value) = "cover"
      /\ exth[k].type = "thumbOffset" => Kind(header.FirstImageIndex + exth[k].value) = "thumb"

(* The records a reader takes for the text are text (pdh.go:20). *)
TextIsText == Finished => \A k \in 1..textCount : Kind(k) = "text"
TextIsTextOnce == writes = 1 => TextIsText

(* The EXTH header is a multiple of four bytes long (writer.go:536).       *)
ExthAligned == Finished => header.HeaderLenght % 4 = 0

(* When the disk has filled up, or the connection is gone, WriteTo says so, *)
(* although it looks at no error before the seek.                          *)
FailureReported == Finished /\ failed /\ failure = "for good" => result.err

(* Failing writes included, WriteTo never claims more than out has taken. *)
NeverOverstated == Finished => result.n <= accepted

(* When nothing has failed the count is the size of the file, and the last *)
(* record is the last thing in it (writer.go:211-217).                     *)
CountsWholeFile ==
  Undisturbed => ~result.err /\ result.n = accepted
                 /\ accepted = Last(starts) + Last(records).len

-----------------------------------------------------------------------------
(* The inductive invariant behind the safety properties, in named parts.   *)

(* An EXTH record of this type names an image of this kind. *)
NamesImage(r, type, kind) ==
  r.type = type => r.value + 1 \in DOMAIN embedded /\ embedded[r.value + 1].type = kind

(* Images come in pairs, a thumbnail last; the reader's RecordLength - 8   *)
(* never wraps.                                                            *)
ImagesInv ==
  /\ embedded # <<>> => embedded[Len(embedded)].type = "thumb"
  /\ \A k \in DOMAIN exth :
       /\ exth[k].RecordLength >= 8
       /\ NamesImage(exth[k], "coverOffset", "cover") /\ NamesImage(exth[k], "thumbOffset", "thumb")

(* There are records once WriteTo has begun: record 0, and text first. *)
RecordsInv ==
  /\ IF pc = "calls" /\ writes = 0 THEN records = <<>>
     ELSE Len(records) >= 2 /\ Kind(0) = "reserved" /\ Kind(1) = "text"
  /\ \A k \in DOMAIN records : records[k].kind \in {"indx1", "indx2"} => records[k].len > 0
  /\ (writes = 0 /\ pc # "calls") \/ (writes = 1 /\ pc = "calls") =>
       \A k \in 1..textCount : k < Len(records) /\ Kind(k) = "text"

(* Record k is there, and of this kind. *)
IsRecord(k, kind) == k \in 0..(Len(records) - 1) /\ Kind(k) = kind
LastContent == IF header.FirstImageIndex = NoIndex THEN "cncx" ELSE "thumb"

(* The numbers of the header, from the moment they are taken on until the  *)
(* next WriteTo begins.                                                    *)
NumbersInv ==
  /\ pc \in {"images", "trailer", "headers", "records"} \/ Finished =>
       /\ header.FirstNonBookIndex = header.IndxRecodOffset /\ header.IndxRecodOffset >= 2
       /\ IsRecord(header.IndxRecodOffset, "indx1") /\ IsRecord(header.IndxRecodOffset + 1, "indx2")
       /\ IsRecord(header.IndxRecodOffset + 2, "cncx")
  /\ pc = "images" => IsRecord(Len(records) - 1, "cncx")
  /\ pc \in {"trailer", "headers", "records"} \/ Finished =>
       \A k \in DOMAIN exth :
         /\ exth[k].type = "coverOffset" => IsRecord(header.FirstImageIndex + exth[k].value, "cover")
         /\ exth[k].type = "thumbOffset" => IsRecord(header.FirstImageIndex + exth[k].value, "thumb")
  /\ pc = "trailer" => IsRecord(Len(records) - 1, LastContent)
  /\ pc \in {"headers", "records"} \/ Finished =>
       /\ IsRecord(Len(records) - 4, LastContent)
       /\ header.LastContentRecordNumber = (Len(records) - 4) % Word
       /\ header.FlisRecordIndex = Len(records) - 3 /\ IsRecord(Len(records) - 3, "flis")
       /\ header.FcisRecordIndex = Len(records) - 2 /\ IsRecord(Len(records) - 2, "fcis")
       /\ IsRecord(Len(records) - 1, "eof")

(* The two counts of bytes agree until a write fails; a lasting failure is *)
(* met again by the seek, or else by the write of record 1.                *)
OutInv ==
  /\ writtenBytes <= accepted /\ (~failed => writtenBytes = accepted)
  /\ failed => failure # "never"
  /\ down <=> failed /\ failure = "for good"
  /\ pc \in {"index", "images", "trailer"} =>
       ~failed /\ accepted = 0 /\ table = <<>> /\ starts = <<>>
  /\ pc = "records" => at \in 1..Len(records) /\ (down => at = 1)
  /\ Finished => /\ result.n <= accepted /\ (down => result.err)
                 /\ ~failed => result.n = accepted /\ ~result.err

(* The place of each part among the headers: the table, record 0 behind    *)
(* it, and the title last.                                                 *)
Record0Part == RecordsNum + 3
PartLens == [k \in DOMAIN HeaderParts |-> HeaderParts[k].len]

HeadersInv ==
  pc = "headers" =>
    /\ at \in 1..(Len(HeaderParts) + 1)
    /\ Len(table) = (CASE at <= 2 -> 0 [] at \in 3..(RecordsNum + 2) -> at - 2 [] OTHER -> RecordsNum)
    /\ \A k \in DOMAIN table : table[k] = Offset(k - 1)
    /\ Len(starts) = (IF at > Record0Part THEN 1 ELSE 0)
    /\ at > Record0Part + 1 => header.FullNameOffset = NameOffset
    /\ ~failed => /\ accepted = SumOfFirst(PartLens)[at - 1]
                  /\ at > Record0Part => starts[1] = PalmDBHeaderLen + 8 * RecordsNum + 2
                  /\ at > Len(HeaderParts) => nameStart + title = accepted

(* Where the text began: at the mark, or behind headers that passed it. *)
TextBegan == IF HeadersFit THEN TextStart ELSE nameStart + title

StartsTrue ==
  /\ starts[1] = PalmDBHeaderLen + 8 * RecordsNum + 2
  /\ nameStart = starts[1] + header.FullNameOffset
  /\ \A k \in 2..Len(starts) : starts[k] = TextBegan + SumOfFirst(Lengths)[k - 2]

(* Where the records are, and where the table says they are; the title is  *)
(* behind the MOBI header and an EXTH header of twelve bytes at least.     *)
PlacesInv ==
  pc = "records" \/ Finished =>
    /\ Len(table) = RecordsNum /\ \A k \in DOMAIN table : table[k] = Offset(k - 1)
    /\ header.FullNameOffset > PalmDocHeaderLen + MobiHeaderLen + 12
    /\ Len(starts) \in 1..Len(records)
    /\ pc = "records" => Len(starts) = at
    /\ Finished /\ ~failed => Len(starts) = Len(records)
    /\ ~failed \/ (down /\ Len(starts) > 2) => StartsTrue
    /\ ~failed => accepted = TextBegan + SumOfFirst(Lengths)[Len(starts) - 1]

(* The table of offsets in record k, the offset of its IDXT from its       *)
(* beginning, and whether no INDX2 of this builder has had a wrapped offset. *)
Table(k) == records[k + 1].idxt
IdxtOffset(k) == records[k + 1].len - 4 - 2 * Len(Table(k)) - TablePadding(Table(k))
OffsetsFit == \A k \in 0..(Len(records) - 1) : Kind(k) = "indx2" => IdxtOffset(k) < Word

(* A builder that had nothing but its contents chapter has been written    *)
(* again: its first table has one offset, and its latest has more.         *)
ContentsRewritten ==
  /\ \E k \in 0..(Len(records) - 1) : Kind(k) = "indx2" /\ Len(Table(k)) = 1
  /\ Len(idxt) > 1

(* How many indexes this builder has made. *)
Indexes == IF pc \in {"calls", "index"} THEN writes ELSE writes + 1
FirstOffset == IndxHeaderLen % Word

(* Each table is a beginning of Idxt.Offset, behind which the next index   *)
(* has begun with the place of its first entry; the latest is all of it.   *)
TablesInv ==
  /\ idxt # <<>> => idxt[1] = FirstOffset
  /\ Len(idxt) >= Indexes /\ (Indexes = 0 => idxt = <<>>)
  /\ \A k \in 0..(Len(records) - 1) :
       Kind(k) = "indx2" =>
         /\ Len(Table(k)) \in 1..Len(idxt)
         /\ Len(Table(k)) < Len(idxt) => idxt[Len(Table(k)) + 1] = FirstOffset
         /\ IdxtOffset(k) < Word => Last(Table(k)) < IdxtOffset(k)
  /\ Indexes > 0 =>
       IsRecord(header.IndxRecodOffset + 1, "indx2") /\ Table(header.IndxRecodOffset + 1) = idxt
  /\ OffsetsFit =>
       /\ idxt # <<>> /\ Last(idxt) = FirstOffset => Len(idxt) = 1
       /\ \A j \in 1..(Len(idxt) - 1) : idxt[j] = idxt[j + 1] => j = 1 /\ ContentsRewritten

(* All of it, in every state that the calls of the builder can reach.      *)
FileInv ==
  TypeOK /\ ImagesInv /\ RecordsInv /\ NumbersInv /\ OutInv /\ HeadersInv /\ PlacesInv
IndInv == FileInv /\ TablesInv
=============================================================================
