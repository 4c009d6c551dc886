------------------------------ MODULE NcxIndex ------------------------------
(***************************************************************************)
(* The bytes of the NCX index: what generateCNCX writes for each entry of  *)
(* Chapters, and the records INDX1, INDX2 and CNCX made of them.           *)
(* generateCNCX of writer.go, writer_indx.go, controlByte of util.go, and  *)
(* the layouts of indx.go, tagx.go, idxt.go and cncx.go.                   *)
(***************************************************************************)
EXTENDS Chapters, Vwi, Sums

CONSTANTS
  Word,       \* 2^16 in the program: the range of the uint16 of IDXT
  TitleLen    \* length of every title

IndxHeaderLen == 192

ASSUME WordAssumption == Word \in 256..Short /\ TitleLen \in Nat

VARIABLES
  idxt,     \* w.Idxt.Offset
  cncx,     \* cncxBuffer, bytes
  labels,   \* cncxLabelBuffer: which title begins where
  indx1, indx2   \* the records made of them by the last WriteTo, bytes

indexVars == <<idxt, cncx, labels, indx1, indx2>>

IndexInit == Init /\ idxt = <<>> /\ cncx = <<>> /\ labels = <<>> /\ indx1 = <<>> /\ indx2 = <<>>

-----------------------------------------------------------------------------
(* Layout of bytes.                                                        *)

AllOnes == <<255, 255, 255, 255>>   \* uint32Max
EncUTF8 == BE32(65001)

(* Magic words. *)
INDX == <<73, 78, 68, 88>>
TAGX == <<84, 65, 71, 88>>
IDXT == <<73, 68, 88, 84>>

(* The tags of an entry (Pos, Len, NameOffset, DepthLvl, Parent, Child1,    *)
(* ChildN), and the bit of the control byte that announces each.           *)
Bitmask ==
  [tag \in {1, 2, 3, 4, 21, 22, 23} |->
     CASE tag = 1 -> 1 [] tag = 2 -> 2 [] tag = 3 -> 4 [] tag = 4 -> 8
       [] tag = 21 -> 16 [] tag = 22 -> 32 [] tag = 23 -> 64]
EntryTags(kind) ==
  <<1, 2, 3, 4>> \o CASE kind = "parent" -> <<22, 23>>
                      [] kind = "child" -> <<21>>
                      [] kind = "single" -> <<>>

(* One bit for each tag: no tag of an entry has more than one value. *)
controlByte(tags) == Total([k \in DOMAIN tags |-> Bitmask[tags[k]]])

-----------------------------------------------------------------------------
(* generateCNCX: what one round of its loops writes.                       *)

(* "%03v" *)
Label(n) ==
  LET digits == Digits(n, 10)
      padded == Zeros(3 - Len(digits)) \o digits
  IN  [k \in DOMAIN padded |-> 48 + padded[k]]

(* Mutant of EntryValues: parent and first child change places. *)
FirstChildLast(e, labelAt) ==
  <<e.offset, e.len, labelAt, IF e.kind = "child" THEN 1 ELSE 0>>
    \o CASE e.kind = "parent" -> <<e.last, e.first>>
         [] e.kind = "child" -> <<e.parent>>
         [] e.kind = "single" -> <<>>

EntryValues(e, labelAt) ==
  <<e.offset, e.len, labelAt, IF e.kind = "child" THEN 1 ELSE 0>>
    \o CASE e.kind = "parent" -> <<e.first, e.last>>
         [] e.kind = "child" -> <<e.parent>>
         [] e.kind = "single" -> <<>>

EntryBytes(e, labelAt) ==
  LET label == Label(e.label)
      values == EntryValues(e, labelAt)
  IN  FlattenSeq(<<<<Len(label) % 256>>, label, <<controlByte(EntryTags(e.kind))>>,
                   FlattenSeq([k \in DOMAIN values |-> vwiEncInt(values[k])])>>)

LabelsLen == Len(labels) * (Len(vwiEncInt(TitleLen)) + TitleLen)

(* Mutant of EntryOffset: the header before the entries is left out. *)
OffsetInBuffer == Len(cncx) % Word
EntryOffset == (IndxHeaderLen + Len(cncx)) % Word

WriteEntry ==
  LET e == Last(entries')
  IN  /\ idxt' = Append(idxt, EntryOffset)
      /\ cncx' = cncx \o EntryBytes(e, LabelsLen)
      /\ labels' = Append(labels, [at |-> LabelsLen, title |-> e.title])
      /\ UNCHANGED <<indx1, indx2>>

(* Mutant of StartBuffers: the buffer of the entries does not start over. *)
KeepEntries == StartCNCX /\ labels' = <<>> /\ UNCHANGED <<idxt, cncx, indx1, indx2>>

(* Both buffers start over; w.Idxt.Offset does not. *)
StartBuffers == StartCNCX /\ cncx' = <<>> /\ labels' = <<>> /\ UNCHANGED <<idxt, indx1, indx2>>

WriteHeaderEntry == HeaderEntry /\ WriteEntry
WriteChildEntry == ChildEntry /\ WriteEntry

-----------------------------------------------------------------------------
(* generateINDX1 and generateINDX2.                                        *)

IndxHeader(f) ==
  FlattenSeq(<<INDX, BE32(IndxHeaderLen), Zeros(4), BE32(f.Unk1), BE32(f.IndxType),
               BE32(f.IdxtOffset), BE32(f.IdxtCount), f.IdxtEncoding, AllOnes,
               BE32(f.IdxtEntryCount), Zeros(12), BE32(f.CncxRecordsCount), Zeros(124),
               BE32(f.TagxOffset), Zeros(8)>>)

chapterIsDeep == \E c \in DOMAIN Book : Book[c].subs # <<>>

TagX(deep) ==
  LET tags == <<1, 2, 3, 4>> \o IF deep THEN <<21, 22, 23>> ELSE <<>>
  IN  FlattenSeq(<<TAGX, BE32((Len(tags) + 1) * 4 + 12), BE32(1),
                   FlattenSeq([k \in DOMAIN tags |-> <<tags[k], 1, Bitmask[tags[k]], 0>>]),
                   <<0, 0, 0, 1>>>>)

(* The label of the last entry and the byte before it, which is its        *)
(* length, looked up by its offset.                                        *)
LastLabel ==
  LET at == (Last(idxt) - IndxHeaderLen) % Word
  IN  SubSeq(cncx, at + 1, at + ((cncx[at + 1] + 1) % 256))

INDX1(deep, count) ==
  LET tagx == TagX(deep)
      padding == (Len(LastLabel) + 2) % 4
      header ==
        [Unk1 |-> 0, IndxType |-> 2,
         IdxtOffset |-> IndxHeaderLen + Len(tagx) + Len(LastLabel) + 2 + padding,
         IdxtCount |-> 1, IdxtEncoding |-> EncUTF8, IdxtEntryCount |-> count,
         CncxRecordsCount |-> 1, TagxOffset |-> IndxHeaderLen]
  IN  FlattenSeq(<<IndxHeader(header), tagx, LastLabel, BE16(Len(idxt)), Zeros(padding),
                   IDXT, BE16(IndxHeaderLen + Len(tagx)), Zeros(2)>>)

INDX2 ==
  LET header ==
        [Unk1 |-> 1, IndxType |-> 0, IdxtOffset |-> IndxHeaderLen + Len(cncx),
         IdxtCount |-> Len(idxt), IdxtEncoding |-> AllOnes, IdxtEntryCount |-> 0,
         CncxRecordsCount |-> 0, TagxOffset |-> 0]
  IN  FlattenSeq(<<IndxHeader(header), cncx, IDXT,
                   FlattenSeq([k \in DOMAIN idxt |-> BE16(idxt[k])]),
                   Zeros((Len(idxt) + 4) % 4)>>)

MakeRecords ==
  /\ Written
  /\ indx1' = INDX1(chapterIsDeep, chapterCount) /\ indx2' = INDX2
  /\ UNCHANGED <<idxt, cncx, labels>>

-----------------------------------------------------------------------------
IndexNext ==
  \/ (Call \/ CreateTOCChapter \/ GenerateHTML \/ StartChildren) /\ UNCHANGED indexVars
  \/ StartBuffers \/ WriteHeaderEntry \/ WriteChildEntry \/ MakeRecords
=============================================================================
