----------------------------- MODULE ExthRecords ----------------------------
(***************************************************************************)
(* The EXTH metadata of a book: values given by the caller, converted by   *)
(* tag (Add of exth.go), what WriteTo adds for the images and writes       *)
(* (initExth of writer.go), and what ExthParse of reader.go reads back.    *)
(*                                                                         *)
(* A caller's []byte is kept by reference and may be changed until it is   *)
(* written.  Add may panic, out of NewExthRecord, and the caller recover.  *)
(***************************************************************************)
EXTENDS Bytes, Sums, SequencesExt

CONSTANTS
  Calls,      \* arguments of NewExthRecord: [tag, value]
  Slices,     \* the caller's byte slices
  Contents,   \* what can be in them, all of one length
  MaxAdds, MaxImages, MaxWrites   \* bounds: calls of the builder's methods

NoSlice == "none"

ASSUME ContentsAssumption ==
  /\ Contents \subseteq Seq(Byte) /\ \A c, d \in Contents : Len(c) = Len(d)
ASSUME CallsAssumption ==
  /\ NoSlice \notin Slices
  /\ \A c \in Calls :
       /\ c.tag \in 0..(Uint32 - 1)
       /\ c.value.kind \in {"int", "string", "slice", "other"}
       /\ c.value.kind = "int" => c.value.n \in Int
       /\ c.value.kind = "string" => c.value.s \in Seq(Byte)
       /\ c.value.kind = "slice" => c.value.ref \in Slices

VARIABLES
  mem,          \* what is in each slice
  Records, RecordCount,   \* of mobiExth
  covers,       \* calls of AddCover
  adds,         \* calls of NewExthRecord
  given,        \* history: the calls that returned, and the places of their records
  pc,           \* "calls", "written" or "read"
  stream,       \* the EXTH header in the file
  parsed,       \* what ExthParse makes of it
  writes

vars == <<mem, Records, RecordCount, covers, adds, given, pc, stream, parsed, writes>>

Init ==
  /\ mem \in [Slices -> Contents]
  /\ Records = <<>> /\ RecordCount = 0 /\ covers = 0 /\ adds = 0 /\ given = <<>>
  /\ pc = "calls" /\ stream = <<>> /\ parsed = <<>> /\ writes = 0

-----------------------------------------------------------------------------
(* Conversion by tag.                                                      *)

CoverOffset == 201
ThumbOffset == 202
CoverURI == 129
StringTags ==
  1..3 \cup 99..114 \cup {117, 118, 119, 122, 123, 124, 126, 127, 128, CoverURI, 132, 200, 208,
   501, 502, 503, 504, 508, 517, 522, 524, 525, 527, 528, 529, 531, 532, 534, 535}
BinaryTags == {209, 300, 403, 405, 407} \cup 450..453

(* getExthMetaByTag: a tag that is not in the table is numeric. *)
MetaType(tag) ==
  IF tag \in StringTags THEN "string" ELSE IF tag \in BinaryTags THEN "binary" ELSE "numeric"

(* A value is an integer of one of the seven types that Add casts, a       *)
(* string, a slice, or of another type.                                    *)
Accepts(tag, value) ==
  CASE MetaType(tag) = "binary" -> value.kind = "slice"
    [] MetaType(tag) = "numeric" -> value.kind = "int"
    [] MetaType(tag) = "string" -> TRUE

Kept(bytes) == [Value |-> bytes, slice |-> NoSlice]

(* Mutant of Converted: an integer is cast to a uint16 first. *)
SixteenBits(tag, value) ==
  CASE value.kind = "int" /\ MetaType(tag) = "numeric" -> Kept(BE32(value.n % Short))
    [] value.kind = "string" -> Kept(value.s)
    [] value.kind = "slice" -> [Value |-> mem[value.ref], slice |-> value.ref]
    [] OTHER -> Kept(<<>>)

(* What is kept of a value that the tag accepts: a string tag keeps nothing *)
(* of a value that is neither string nor slice.                            *)
Converted(tag, value) ==
  CASE value.kind = "int" /\ MetaType(tag) = "numeric" -> Kept(BE32(value.n % Uint32))
    [] value.kind = "string" -> Kept(value.s)
    [] value.kind = "slice" -> [Value |-> mem[value.ref], slice |-> value.ref]
    [] OTHER -> Kept(<<>>)

(* Mutant of RecordLen: type and length are not counted. *)
ValueLen(value) == Len(value)
RecordLen(value) == 8 + Len(value)

Record(tag, value) ==
  LET c == Converted(tag, value)
  IN  [RecordType |-> tag, RecordLength |-> RecordLen(c.Value), Value |-> c.Value, slice |-> c.slice]

(* The bytes of a record's value now. *)
ValueOf(r) == IF r.slice = NoSlice THEN r.Value ELSE mem[r.slice]

-----------------------------------------------------------------------------
(* The caller.                                                             *)

NewExthRecord(tag, value) ==
  /\ pc = "calls" /\ adds < MaxAdds /\ Accepts(tag, value)
  /\ Records' = Append(Records, Record(tag, value))
  /\ RecordCount' = RecordCount + 1 /\ adds' = adds + 1
  /\ given' = Append(given, [at |-> Len(Records) + 1, tag |-> tag, value |-> value])
  /\ UNCHANGED <<mem, covers, pc, stream, parsed, writes>>

(* The count has been raised before the panic. *)
AddPanics(tag, value) ==
  /\ pc = "calls" /\ adds < MaxAdds /\ ~Accepts(tag, value)
  /\ RecordCount' = RecordCount + 1 /\ adds' = adds + 1
  /\ UNCHANGED <<mem, Records, covers, given, pc, stream, parsed, writes>>

ChangeSlice(ref, content) ==
  /\ pc = "calls" /\ content # mem[ref]
  /\ mem' = [mem EXCEPT ![ref] = content]
  /\ UNCHANGED <<Records, RecordCount, covers, adds, given, pc, stream, parsed, writes>>

AddCover ==
  /\ pc = "calls" /\ covers < MaxImages
  /\ covers' = covers + 1
  /\ UNCHANGED <<mem, Records, RecordCount, adds, given, pc, stream, parsed, writes>>

-----------------------------------------------------------------------------
(* WriteTo.                                                                *)

(* What is added for the pair of images i and i + 1 of w.embedded.  The    *)
(* digits of the URI are abstracted to the bytes of its number.            *)
ImageRecords(i) ==
  <<Record(CoverURI, [kind |-> "string", s |-> BE32(i + 1)]),
    Record(CoverOffset, [kind |-> "int", n |-> i]), Record(ThumbOffset, [kind |-> "int", n |-> i + 1])>>

HeaderBytes(recs) == 12 + Total([k \in DOMAIN recs |-> recs[k].RecordLength])
Padding(recs) == HeaderBytes(recs) % 4

(* Mutant of CountRecords: the count that Add keeps is trusted. *)
CountAdded(recs) == RecordCount + 3 * covers
CountRecords(recs) == Len(recs)

RecordBytes(r) == BE32(r.RecordType) \o BE32(r.RecordLength) \o ValueOf(r)

Magic == <<69, 88, 84, 72>>

initExth(recs) ==
  Magic \o BE32(HeaderBytes(recs) + Padding(recs)) \o BE32(CountRecords(recs))
    \o FlattenSeq([k \in DOMAIN recs |-> RecordBytes(recs[k])]) \o Zeros(Padding(recs))

WriteTo ==
  /\ pc = "calls" /\ writes < MaxWrites
  /\ Records' = Records \o FlattenSeq([c \in 1..covers |-> ImageRecords(2 * (c - 1))])
  /\ RecordCount' = CountRecords(Records')
  /\ stream' = initExth(Records')
  /\ pc' = "written" /\ writes' = writes + 1
  /\ UNCHANGED <<mem, covers, adds, given, parsed>>

-----------------------------------------------------------------------------
(* The reader, at the magic; the file goes on behind the padding.          *)

ReadRecord(f, at) ==
  [RecordType |-> Field(f, at), RecordLength |-> Field(f, at + 4),
   Value |-> BytesAt(f, at + 8, Field(f, at + 4) - 8)]

(* Where each record starts: where the one before it ends. *)
Places(f, count) ==
  LET place[i \in 1..count] ==
        IF i = 1 THEN 12 ELSE place[i - 1] + Field(f, place[i - 1] + 4)
  IN  place

Parsed(f) ==
  LET count == Field(f, 8)
      place == Places(f, count)
  IN  [HeaderLenght |-> Field(f, 4), RecordCount |-> count,
       Records |-> [i \in 1..count |-> ReadRecord(f, place[i])]]

ExthParse ==
  /\ pc = "written" /\ SubSeq(stream, 1, 4) = Magic
  /\ parsed' = Parsed(stream)
  /\ pc' = "read"
  /\ UNCHANGED <<mem, Records, RecordCount, covers, adds, given, stream, writes>>

CallerGoesOn ==
  /\ pc = "read" /\ pc' = "calls"
  /\ UNCHANGED <<mem, Records, RecordCount, covers, adds, given, stream, parsed, writes>>

Next ==
  \/ \E c \in Calls : NewExthRecord(c.tag, c.value) \/ AddPanics(c.tag, c.value)
  \/ \E ref \in Slices, content \in Contents : ChangeSlice(ref, content)
  \/ AddCover \/ WriteTo \/ ExthParse \/ CallerGoesOn

Spec == Init /\ [][Next]_vars

-----------------------------------------------------------------------------
(* Properties.                                                             *)

(* What a record is, and what the other variables hold.                    *)
ExthRecord ==
  [RecordType : 0..(Uint32 - 1), RecordLength : Nat, Value : Seq(Byte), slice : Slices \cup {NoSlice}]

ExthTypeOK ==
  /\ mem \in [Slices -> Contents] /\ pc \in {"calls", "written", "read"}
  /\ Records \in Seq(ExthRecord) /\ covers \in Nat
  /\ given \in Seq([at : Nat, tag : {c.tag : c \in Calls}, value : {c.value : c \in Calls}])

(* The length that Add counts stays the length of what is written, however *)
(* often the caller changes the slice: it covers type and length too, so   *)
(* the reader's RecordLength-8 does not wrap.                              *)
LengthsTrue ==
  \A k \in DOMAIN Records :
    LET r == Records[k]
    IN  /\ r.RecordLength = 8 + Len(r.Value)
        /\ r.slice # NoSlice => r.Value \in Contents

(* The record of a call that returned holds what Add made of its value,    *)
(* except that a slice may have been changed since.                        *)
Held(tag, value, at) ==
  /\ \E call \in Calls : call.tag = tag /\ call.value = value
  /\ Accepts(tag, value) /\ at \in DOMAIN Records
  /\ Records[at].slice = Converted(tag, value).slice
  /\ (Records[at].slice = NoSlice) => (Records[at].Value = Converted(tag, value).Value)

GivenHeld == \A k \in DOMAIN given : Held(given[k].tag, given[k].value, given[k].at)

(* Nothing changes between writing and reading.                            *)
FileHeld ==
  /\ pc # "calls" => stream = initExth(Records)
  /\ pc = "read" => parsed = Parsed(stream)

(* The invariant that the proofs rest on: records have the length they     *)
(* announce, calls find their records, and the file is the last written.   *)
ExthIndInv == ExthTypeOK /\ LengthsTrue /\ GivenHeld /\ FileHeld

(* ExthParse finds, in the file, every record that WriteTo wrote and no    *)
(* other, whatever was added before, panics of Add and earlier calls of    *)
(* WriteTo included, and the length in the header is that of all its bytes.*)
ReadBack ==
  pc = "read" =>
    /\ parsed.HeaderLenght = Len(stream)
    /\ parsed.RecordCount = Len(Records)
    /\ \A k \in DOMAIN Records :
         parsed.Records[k] = [RecordType |-> Records[k].RecordType,
                              RecordLength |-> 8 + Len(ValueOf(Records[k])),
                              Value |-> ValueOf(Records[k])]

(* What a reader makes of the values given: an integer is kept exactly     *)
(* when it is in the range of uint32, a string always, a slice as it is    *)
(* when WriteTo writes it and not as it was when it was added; any other   *)
(* value for a string tag is lost without an error.                        *)
ValuesKept ==
  pc = "read" =>
    \A k \in DOMAIN given :
      LET g == given[k]
          read == parsed.Records[g.at].Value
      IN  CASE g.value.kind = "slice" -> read = mem[g.value.ref]
            [] g.value.kind = "string" -> read = g.value.s
            [] g.value.kind = "int" /\ g.tag \notin StringTags ->
                 (U32(read) = g.value.n) <=> (g.value.n \in 0..(Uint32 - 1))
            [] OTHER -> read = <<>>
=============================================================================
