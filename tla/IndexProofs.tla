----------------------------- MODULE IndexProofs ----------------------------
(***************************************************************************)
(* The NCX index and its reader do to the chapters what Chapters says and  *)
(* no more: what is proved of Chapters is so of the composed system.  The  *)
(* buffers of the index hold its entries one after another, and what its   *)
(* records say of them is so.                                              *)
(***************************************************************************)
EXTENDS IndexReader, ChaptersProofs, BytesProofs

(* Each step of the index is a step of the chapters, or leaves them alone. *)
LEMMA IndexStep ==
  ASSUME IndexNext
  PROVE  Next
<1>1. CASE (Call \/ CreateTOCChapter \/ GenerateHTML \/ StartChildren) /\ UNCHANGED indexVars
  BY <1>1 DEF Next, WriteTo
<1>2. CASE StartBuffers
  BY <1>2 DEF StartBuffers, Next, WriteTo
<1>3. CASE WriteHeaderEntry
  BY <1>3 DEF WriteHeaderEntry, Next, WriteTo
<1>4. CASE WriteChildEntry
  BY <1>4 DEF WriteChildEntry, Next, WriteTo
<1>5. CASE MakeRecords
  BY <1>5 DEF MakeRecords, Next, WriteTo
<1> QED BY <1>1, <1>2, <1>3, <1>4, <1>5 DEF IndexNext

(* generateCNCX, the records and the reader implement the chapters.        *)
THEOREM IndexImplementsChapters == ReaderSpec => Spec
<1>1. ReaderInit => Init
  BY DEF ReaderInit, IndexInit
<1>2. [ReaderNext]_<<vars, indexVars, reader>> => [Next]_vars
  <2> SUFFICES ASSUME [ReaderNext]_<<vars, indexVars, reader>> PROVE [Next]_vars
    OBVIOUS
  <2>1. CASE IndexNext
    BY <2>1, IndexStep
  <2>2. CASE ReadIndex
    BY <2>2 DEF ReadIndex
  <2>3. CASE Done
    BY <2>3 DEF Done
  <2>4. CASE UNCHANGED <<vars, indexVars, reader>>
    BY <2>4
  <2> QED BY <2>1, <2>2, <2>3, <2>4 DEF ReaderNext
<1> QED BY <1>1, <1>2, PTL DEF ReaderSpec, Spec

(* So anchors, links, handles, ranges, tree and labels are right also      *)
(* while the bytes of the index are written and read.                      *)
THEOREM ChaptersOfIndex ==
  ReaderSpec => [](HandlesAttached /\ IdsUnique /\ LinksResolve /\ RangesTile /\ TreeConsistent /\ LabelsAreNumbers)
BY IndexImplementsChapters, HandlesStayAttached, AnchorsUnique, LinksLead, IndexCoversText, TreeIsConsistent,
   LabelsCount, PTL

-----------------------------------------------------------------------------
(* The bytes of an entry.                                                  *)

LEMMA ZerosType ==
  ASSUME NEW n \in Int
  PROVE  /\ Zeros(n) \in Seq(Byte) /\ Zeros(n) \in Seq(0..9)
         /\ Len(Zeros(n)) = IF n > 0 THEN n ELSE 0
         /\ \A k \in 1..Len(Zeros(n)) : Zeros(n)[k] = 0
<1>1. CASE n > 0
  <2>1. n \in Nat
    BY <1>1
  <2> QED BY <1>1, <2>1 DEF Zeros, Byte
<1>2. CASE ~(n > 0)
  <2>1. 1..n = {}
    BY <1>2
  <2>2. Zeros(n) = <<>>
    BY <2>1 DEF Zeros
  <2> QED BY <1>2, <2>2
<1> QED BY <1>1, <1>2

LEMMA LabelType ==
  ASSUME NEW n \in Nat
  PROVE  Label(n) \in Seq(Byte) /\ Len(Label(n)) \in Nat \ {0}
<1> DEFINE digits == Digits(n, 10)
           zeros == Zeros(3 - Len(digits))
           padded == zeros \o digits
           S == 0..9
<1>1. digits \in Seq(S) /\ Len(digits) \in Nat \ {0}
  <2>1. 10 \in Nat /\ 10 >= 2 /\ 0..(10 - 1) = 0..9
    OBVIOUS
  <2>2. \A m \in Nat : Digits(m, 10) \in Seq(0..(10 - 1)) /\ Len(Digits(m, 10)) \in Nat \ {0}
    BY ONLY <2>1, DigitsType, Zenon
  <2> QED BY <2>1, <2>2, Zenon
<1> HIDE DEF digits
<1>2. zeros \in Seq(S) /\ Len(zeros) \in Nat
  BY <1>1, ZerosType
<1>3. Label(n) = [k \in DOMAIN padded |-> 48 + padded[k]]
  BY DEF Label, digits
<1> HIDE DEF zeros, S
<1>4. padded \in Seq(S) /\ Len(padded) = Len(zeros) + Len(digits)
  BY ONLY <1>1, <1>2, ConcatElements
<1> HIDE DEF padded
<1>5. DOMAIN padded = 1..Len(padded) /\ Len(padded) \in Nat \ {0}
  BY <1>1, <1>2, <1>4
<1>6. \A k \in 1..Len(padded) : 48 + padded[k] \in Byte
  <2> TAKE k \in 1..Len(padded)
  <2>1. padded[k] \in S
    BY <1>4, <1>5, ElementOf
  <2>2. \A d \in S : 48 + d \in Byte
    BY DEF S, Byte
  <2> QED BY <2>1, <2>2
<1>7. Label(n) = [k \in 1..Len(padded) |-> 48 + padded[k]]
  BY <1>3, <1>5
<1> QED BY <1>5, <1>6, <1>7

LEMMA ValuesType ==
  ASSUME NEW e \in EntryType, NEW at \in Nat
  PROVE  EntryValues(e, at) \in Seq(Nat)
<1>1. e.offset \in Nat /\ e.len \in Nat /\ e.first \in Nat /\ e.last \in Nat /\ e.parent \in Nat
      /\ e.kind \in {"single", "parent", "child"}
  BY DEF EntryType
<1> DEFINE depth == IF e.kind = "child" THEN 1 ELSE 0
           head == <<e.offset, e.len, at, depth>>
           rest == CASE e.kind = "parent" -> <<e.first, e.last>>
                     [] e.kind = "child" -> <<e.parent>>
                     [] e.kind = "single" -> <<>>
<1>2. head \in Seq(Nat)
  <2>1. depth \in Nat
    OBVIOUS
  <2> HIDE DEF depth
  <2> QED BY <1>1, <2>1
<1>3. rest \in Seq(Nat)
  <2>1. CASE e.kind = "parent"
    <3>1. rest = <<e.first, e.last>>
      BY <2>1
    <3> QED BY <1>1, <3>1
  <2>2. CASE e.kind = "child"
    <3>1. rest = <<e.parent>>
      BY <2>2
    <3> QED BY <1>1, <3>1
  <2>3. CASE e.kind = "single"
    <3>1. rest = <<>>
      BY <2>3
    <3> HIDE DEF rest
    <3> QED BY <3>1
  <2> QED BY <1>1, <2>1, <2>2, <2>3
<1>4. EntryValues(e, at) = head \o rest
  BY DEF EntryValues
<1> HIDE DEF head, rest
<1> QED BY <1>2, <1>3, <1>4

LEMMA SameElements ==
  ASSUME NEW X, NEW s \in Seq(X), NEW t \in Seq(X), Len(s) = Len(t), \A i \in 1..Len(s) : s[i] = t[i]
  PROVE  s = t
OBVIOUS

(* What follows the first four. *)
LEMMA FourAndMore ==
  ASSUME NEW a, NEW b, NEW c, NEW d, NEW e, NEW f, NEW g
  PROVE  /\ <<a, b, c, d>> \o <<>> = <<a, b, c, d>>
         /\ <<a, b, c, d>> \o <<e>> = <<a, b, c, d, e>>
         /\ <<a, b, c, d>> \o <<e, f>> = <<a, b, c, d, e, f>>
         /\ <<a, b, c, d>> \o <<e, f, g>> = <<a, b, c, d, e, f, g>>
<1> DEFINE X == {a, b, c, d, e, f, g}
           p == <<a, b, c, d>>
<1>1. p \in Seq(X) /\ Len(p) = 4 /\ p[1] = a /\ p[2] = b /\ p[3] = c /\ p[4] = d
  OBVIOUS
<1>2. ASSUME NEW q \in Seq(X), NEW s \in Seq(X), Len(s) = 4 + Len(q),
             s[1] = a, s[2] = b, s[3] = c, s[4] = d, \A j \in 1..Len(q) : s[4 + j] = q[j]
      PROVE  p \o q = s
  <2> HIDE DEF p, X
  <2> DEFINE t == p \o q
  <2>1. /\ t \in Seq(X) /\ Len(t) = 4 + Len(q) /\ \A i \in 1..4 : t[i] = p[i]
        /\ \A j \in 1..Len(q) : t[4 + j] = q[j]
    <3>1. p \in Seq(X) /\ q \in Seq(X)
      BY <1>1
    <3>2. /\ t \in Seq(X) /\ Len(t) = Len(p) + Len(q) /\ \A i \in 1..Len(p) : t[i] = p[i]
          /\ \A j \in 1..Len(q) : t[Len(p) + j] = q[j]
      BY ONLY <3>1, ConcatElements
    <3> HIDE DEF t
    <3> QED BY <1>1, <3>2
  <2> HIDE DEF t
  <2>2. ASSUME NEW i \in 1..(4 + Len(q)) PROVE t[i] = s[i]
    <3>1. CASE i \in 1..4
      <4>1. i = 1 \/ i = 2 \/ i = 3 \/ i = 4
        BY <3>1
      <4> QED BY <1>1, <1>2, <2>1, <4>1
    <3>2. CASE i \notin 1..4
      <4>1. i - 4 \in 1..Len(q) /\ 4 + (i - 4) = i
        BY <3>2
      <4>2. t[4 + (i - 4)] = q[i - 4] /\ s[4 + (i - 4)] = q[i - 4]
        BY <1>2, <2>1, <4>1
      <4> QED BY <4>1, <4>2
    <3> QED BY <3>1, <3>2
  <2>3. Len(s) = Len(t) /\ \A i \in 1..Len(s) : s[i] = t[i]
    BY <1>2, <2>1, <2>2
  <2>4. s = t
    BY <2>1, <2>3, SameElements
  <2> QED BY <2>4 DEF t
<1>3. p \o <<>> = <<a, b, c, d>>
  BY <1>1
<1>4. p \o <<e>> = <<a, b, c, d, e>>
  <2> DEFINE q == <<e>>
             s == <<a, b, c, d, e>>
  <2>1. q \in Seq(X) /\ Len(q) = 1 /\ s \in Seq(X) /\ Len(s) = 5
        /\ s[1] = a /\ s[2] = b /\ s[3] = c /\ s[4] = d /\ s[5] = q[1]
    OBVIOUS
  <2> HIDE DEF p, q, s, X
  <2>2. Len(s) = 4 + Len(q) /\ \A j \in 1..Len(q) : s[4 + j] = q[j]
    BY <2>1
  <2> QED BY <1>2, <2>1, <2>2 DEF q, s
<1>5. p \o <<e, f>> = <<a, b, c, d, e, f>>
  <2> DEFINE q == <<e, f>>
             s == <<a, b, c, d, e, f>>
  <2>1. q \in Seq(X) /\ Len(q) = 2 /\ s \in Seq(X) /\ Len(s) = 6
        /\ s[1] = a /\ s[2] = b /\ s[3] = c /\ s[4] = d /\ s[5] = q[1] /\ s[6] = q[2]
    OBVIOUS
  <2> HIDE DEF p, q, s, X
  <2>2. Len(s) = 4 + Len(q) /\ \A j \in 1..Len(q) : s[4 + j] = q[j]
    BY <2>1
  <2> QED BY <1>2, <2>1, <2>2 DEF q, s
<1>6. p \o <<e, f, g>> = <<a, b, c, d, e, f, g>>
  <2> DEFINE q == <<e, f, g>>
             s == <<a, b, c, d, e, f, g>>
  <2>1. q \in Seq(X) /\ Len(q) = 3 /\ s \in Seq(X) /\ Len(s) = 7
        /\ s[1] = a /\ s[2] = b /\ s[3] = c /\ s[4] = d /\ s[5] = q[1] /\ s[6] = q[2] /\ s[7] = q[3]
    OBVIOUS
  <2> HIDE DEF p, q, s, X
  <2>2. Len(s) = 4 + Len(q) /\ \A j \in 1..Len(q) : s[4 + j] = q[j]
    BY <2>1
  <2> QED BY <1>2, <2>1, <2>2 DEF q, s
<1> QED BY <1>3, <1>4, <1>5, <1>6

(* A sum of at most six. *)
LEMMA TotalOf ==
  ASSUME NEW s \in Seq(Nat), Len(s) >= 4
  PROVE  /\ Len(s) = 4 => Total(s) = s[1] + s[2] + s[3] + s[4]
         /\ Len(s) = 5 => Total(s) = s[1] + s[2] + s[3] + s[4] + s[5]
         /\ Len(s) = 6 => Total(s) = s[1] + s[2] + s[3] + s[4] + s[5] + s[6]
<1> DEFINE T == SumOfFirst(s)
<1>1. T[0] = 0 /\ \A k \in 1..Len(s) : T[k] = T[k - 1] + s[k]
  BY SumSteps
<1>2. \A k \in 1..Len(s) : s[k] \in Nat
  OBVIOUS
<1> HIDE DEF T
<1>3. T[1] = T[1 - 1] + s[1] /\ T[2] = T[2 - 1] + s[2] /\ T[3] = T[3 - 1] + s[3] /\ T[4] = T[4 - 1] + s[4]
  BY <1>1
<1>4. T[4] = s[1] + s[2] + s[3] + s[4]
  BY <1>1, <1>2, <1>3
<1>5. Len(s) >= 5 => T[5] = s[1] + s[2] + s[3] + s[4] + s[5]
  <2>1. SUFFICES ASSUME Len(s) >= 5 PROVE T[5] = s[1] + s[2] + s[3] + s[4] + s[5]
    OBVIOUS
  <2>2. T[5] = T[5 - 1] + s[5]
    BY <1>1, <2>1
  <2> QED BY <1>4, <2>2
<1>6. Len(s) >= 6 => T[6] = s[1] + s[2] + s[3] + s[4] + s[5] + s[6]
  <2>1. SUFFICES ASSUME Len(s) >= 6 PROVE T[6] = s[1] + s[2] + s[3] + s[4] + s[5] + s[6]
    OBVIOUS
  <2>2. T[6] = T[6 - 1] + s[6]
    BY <1>1, <2>1
  <2> QED BY <1>5, <2>1, <2>2
<1>7. Total(s) = T[Len(s)]
  BY DEF Total, T
<1>8. 5 >= 5 /\ 6 >= 6
  OBVIOUS
<1> QED BY ONLY <1>4, <1>5, <1>6, <1>7, <1>8, ZenonT(20)

(* The control byte announces exactly the tags of the entry. *)
LEMMA ControlByteIs ==
  /\ controlByte(EntryTags("single")) = 15
  /\ controlByte(EntryTags("parent")) = 111
  /\ controlByte(EntryTags("child")) = 31
<1> DEFINE masks(t) == [k \in DOMAIN t |-> Bitmask[t[k]]]
<1>1. EntryTags("single") = <<1, 2, 3, 4>> /\ EntryTags("parent") = <<1, 2, 3, 4, 22, 23>>
      /\ EntryTags("child") = <<1, 2, 3, 4, 21>>
  <2>1. /\ EntryTags("single") = <<1, 2, 3, 4>> \o <<>>
        /\ EntryTags("parent") = <<1, 2, 3, 4>> \o <<22, 23>>
        /\ EntryTags("child") = <<1, 2, 3, 4>> \o <<21>>
    BY DEF EntryTags
  <2> QED BY ONLY <2>1, FourAndMore
<1>2. masks(<<1, 2, 3, 4>>) = <<1, 2, 4, 8>>
  BY DEF Bitmask
<1>3. masks(<<1, 2, 3, 4, 22, 23>>) = <<1, 2, 4, 8, 32, 64>>
  BY DEF Bitmask
<1>4. masks(<<1, 2, 3, 4, 21>>) = <<1, 2, 4, 8, 16>>
  BY DEF Bitmask
<1>5. \A t : controlByte(t) = Total(masks(t))
  BY DEF controlByte
<1> HIDE DEF masks
<1>6. Total(<<1, 2, 4, 8>>) = 15
  <2> DEFINE s == <<1, 2, 4, 8>>
  <2>1. s \in Seq(Nat) /\ Len(s) = 4 /\ s[1] = 1 /\ s[2] = 2 /\ s[3] = 4 /\ s[4] = 8
    OBVIOUS
  <2> HIDE DEF s
  <2>2. Total(s) = s[1] + s[2] + s[3] + s[4]
    BY <2>1, TotalOf
  <2>3. Total(s) = 15
    BY <2>1, <2>2
  <2> QED BY <2>3 DEF s
<1>7. Total(<<1, 2, 4, 8, 32, 64>>) = 111
  <2> DEFINE s == <<1, 2, 4, 8, 32, 64>>
  <2>1. s \in Seq(Nat) /\ Len(s) = 6 /\ s[1] = 1 /\ s[2] = 2 /\ s[3] = 4 /\ s[4] = 8 /\ s[5] = 32 /\ s[6] = 64
    OBVIOUS
  <2> HIDE DEF s
  <2>2. Total(s) = s[1] + s[2] + s[3] + s[4] + s[5] + s[6]
    BY <2>1, TotalOf
  <2>3. Total(s) = 111
    BY <2>1, <2>2
  <2> QED BY <2>3 DEF s
<1>8. Total(<<1, 2, 4, 8, 16>>) = 31
  <2> DEFINE s == <<1, 2, 4, 8, 16>>
  <2>1. s \in Seq(Nat) /\ Len(s) = 5 /\ s[1] = 1 /\ s[2] = 2 /\ s[3] = 4 /\ s[4] = 8 /\ s[5] = 16
    OBVIOUS
  <2> HIDE DEF s
  <2>2. Total(s) = s[1] + s[2] + s[3] + s[4] + s[5]
    <3>1. Len(s) >= 4
      BY <2>1
    <3> QED BY <2>1, <3>1, TotalOf, ZenonT(20)
  <2>3. Total(s) = 31
    BY <2>1, <2>2
  <2> QED BY <2>3 DEF s
<1> QED BY <1>1, <1>2, <1>3, <1>4, <1>5, <1>6, <1>7, <1>8

ValueSeqs(values) == [k \in DOMAIN values |-> vwiEncInt(values[k])]
ValueBytes(values) == FlattenSeq(ValueSeqs(values))

LEMMA ValueBytesType ==
  ASSUME NEW values \in Seq(Nat)
  PROVE  ValueSeqs(values) \in Seq(Seq(Byte)) /\ Len(ValueSeqs(values)) = Len(values)
         /\ ValueBytes(values) \in Seq(Byte)
<1>1. \A k \in DOMAIN values : vwiEncInt(values[k]) \in Seq(Byte)
  <2> TAKE k \in DOMAIN values
  <2>1. values[k] \in Nat
    OBVIOUS
  <2> QED BY <2>1, Encoded
<1>2. DOMAIN values = 1..Len(values) /\ Len(values) \in Nat
  OBVIOUS
<1>3. ValueSeqs(values) \in Seq(Seq(Byte)) /\ Len(ValueSeqs(values)) = Len(values)
  BY <1>1, <1>2 DEF ValueSeqs
<1> QED BY <1>3, FlattenAppend, <<>> \in Seq(Byte) DEF ValueBytes

(* Where the parts of an entry are: the length of the label, the label,    *)
(* the control byte and the values.                                        *)
EntryIs(b, label, control, values) ==
  /\ b \in Seq(Byte) /\ Len(b) = Len(label) + 2 + Len(values)
  /\ b[1] = Len(label) % 256 /\ b[Len(label) + 2] = control
  /\ \A i \in 1..Len(label) : b[1 + i] = label[i]
  /\ \A j \in 1..Len(values) : b[Len(label) + 2 + j] = values[j]

LEMMA EntryShape ==
  ASSUME NEW e \in EntryType, NEW at \in Nat
  PROVE  EntryIs(EntryBytes(e, at), Label(e.label), controlByte(EntryTags(e.kind)),
                 ValueBytes(EntryValues(e, at)))
<1> DEFINE label == Label(e.label)
           control == controlByte(EntryTags(e.kind))
           values == ValueBytes(EntryValues(e, at))
           first == <<Len(label) % 256>>
           third == <<control>>
           ss == <<first, label, third, values>>
           b == EntryBytes(e, at)
<1>1. label \in Seq(Byte) /\ Len(label) \in Nat \ {0}
  <2>1. e.label \in Nat
    BY DEF EntryType
  <2> QED BY <2>1, LabelType
<1>2. control \in Byte
  <2>1. e.kind \in {"single", "parent", "child"}
    BY DEF EntryType
  <2>2. control = 15 \/ control = 111 \/ control = 31
    BY <2>1, ControlByteIs
  <2> QED BY <2>2 DEF Byte
<1>3. values \in Seq(Byte) /\ Len(values) \in Nat
  <2>1. values \in Seq(Byte)
    BY ValuesType, ValueBytesType
  <2> HIDE DEF values
  <2> QED BY <2>1
<1>4. b = FlattenSeq(ss)
  BY DEF EntryBytes, ValueBytes, ValueSeqs
<1> HIDE DEF label, control, values, b
<1>5. Len(label) % 256 \in Byte
  <2> DEFINE n == Len(label)
  <2>1. n \in Nat
    BY <1>1
  <2> HIDE DEF n
  <2>2. n % 256 \in Byte
    BY <2>1 DEF Byte
  <2> QED BY <2>2 DEF n
<1>6. first \in Seq(Byte) /\ Len(first) = 1 /\ first[1] = Len(label) % 256
      /\ third \in Seq(Byte) /\ Len(third) = 1 /\ third[1] = control
  BY <1>2, <1>5
<1> HIDE DEF first, third
<1>7. ss \in Seq(Seq(Byte)) /\ Len(ss) = 4 /\ ss[1] = first /\ ss[2] = label /\ ss[3] = third /\ ss[4] = values
  BY <1>1, <1>3, <1>6
<1> HIDE DEF ss
<1>8. 1 \in 1..Len(ss) /\ 2 \in 1..Len(ss) /\ 3 \in 1..Len(ss) /\ 4 \in 1..Len(ss)
      /\ 0 = 1 - 1 /\ 1 = 2 - 1 /\ 2 = 3 - 1 /\ 3 = 4 - 1
  BY <1>7
<1>9. Before(ss, 0) = 0 /\ b \in Seq(Byte) /\ Len(b) = Before(ss, 4)
  BY <1>4, <1>7, AllParts
<1>10. PartAt(ss, 1, 0, first)
  BY ONLY <1>7, <1>8, <1>9, NextPart
<1>11. Before(ss, 1) = 1 /\ b[1] = Len(label) % 256
  BY <1>4, <1>6, <1>10 DEF PartAt
<1>12. PartAt(ss, 2, 1, label)
  BY ONLY <1>7, <1>8, <1>11, NextPart
<1>13. Before(ss, 2) = 1 + Len(label) /\ \A i \in 1..Len(label) : b[1 + i] = label[i]
  BY <1>4, <1>12 DEF PartAt
<1>14. PartAt(ss, 3, 1 + Len(label), third)
  BY ONLY <1>7, <1>8, <1>13, NextPart
<1>15. Before(ss, 3) = Len(label) + 2 /\ b[Len(label) + 2] = control
  <2>1. 1 + Len(label) + 1 = Len(label) + 2 /\ 1 \in 1..1
    BY <1>1
  <2> QED BY <1>4, <1>6, <1>14, <2>1 DEF PartAt
<1>16. PartAt(ss, 4, Len(label) + 2, values)
  BY ONLY <1>7, <1>8, <1>15, NextPart
<1>17. Before(ss, 4) = Len(label) + 2 + Len(values)
       /\ \A j \in 1..Len(values) : b[Len(label) + 2 + j] = values[j]
  BY <1>4, <1>16 DEF PartAt
<1> QED BY <1>9, <1>11, <1>13, <1>15, <1>17 DEF EntryIs, label, control, values, b

-----------------------------------------------------------------------------
(* The records.                                                            *)

HeaderSet ==
  [Unk1 : Nat, IndxType : Nat, IdxtOffset : Nat, IdxtCount : Nat, IdxtEncoding : {b \in Seq(Byte) : Len(b) = 4},
   IdxtEntryCount : Nat, CncxRecordsCount : Nat, TagxOffset : Nat]

(* Where the fields of the header are that the reader looks at. *)
HeaderIs(h, f) ==
  /\ h \in Seq(Byte) /\ Len(h) = 192
  /\ \A j \in 1..4 :
       /\ h[0 + j] = INDX[j]
       /\ h[20 + j] = BE32(f.IdxtOffset)[j] /\ h[24 + j] = BE32(f.IdxtCount)[j]
       /\ h[28 + j] = f.IdxtEncoding[j]
       /\ h[48 + j] = 0 /\ h[168 + j] = 0
       /\ h[180 + j] = BE32(f.TagxOffset)[j]

LEMMA FourLong ==
  ASSUME NEW n \in Nat
  PROVE  BE32(n) \in Seq(Byte) /\ Len(BE32(n)) = 4
BY NumberBytes

LEMMA HeaderShape ==
  ASSUME NEW f \in HeaderSet
  PROVE  HeaderIs(IndxHeader(f), f)
<1> DEFINE p1 == INDX
           p2 == BE32(IndxHeaderLen)
           p3 == Zeros(4)
           p4 == BE32(f.Unk1)
           p5 == BE32(f.IndxType)
           p6 == BE32(f.IdxtOffset)
           p7 == BE32(f.IdxtCount)
           p8 == f.IdxtEncoding
           p9 == AllOnes
           p10 == BE32(f.IdxtEntryCount)
           p11 == Zeros(12)
           p12 == BE32(f.CncxRecordsCount)
           p13 == Zeros(124)
           p14 == BE32(f.TagxOffset)
           p15 == Zeros(8)
           ss == <<p1, p2, p3, p4, p5, p6, p7, p8, p9, p10, p11, p12, p13, p14, p15>>
           h == IndxHeader(f)
<1>1. /\ f.Unk1 \in Nat /\ f.IndxType \in Nat /\ f.IdxtOffset \in Nat /\ f.IdxtCount \in Nat
      /\ f.IdxtEntryCount \in Nat /\ f.CncxRecordsCount \in Nat /\ f.TagxOffset \in Nat
      /\ f.IdxtEncoding \in Seq(Byte) /\ Len(f.IdxtEncoding) = 4
  BY DEF HeaderSet
<1>2. h = FlattenSeq(ss)
  BY DEF IndxHeader
<1>3. /\ p2 \in Seq(Byte) /\ Len(p2) = 4 /\ p4 \in Seq(Byte) /\ Len(p4) = 4 /\ p5 \in Seq(Byte) /\ Len(p5) = 4
      /\ p6 \in Seq(Byte) /\ Len(p6) = 4 /\ p7 \in Seq(Byte) /\ Len(p7) = 4 /\ p10 \in Seq(Byte) /\ Len(p10) = 4
      /\ p12 \in Seq(Byte) /\ Len(p12) = 4 /\ p14 \in Seq(Byte) /\ Len(p14) = 4
  <2>1. IndxHeaderLen \in Nat
    BY DEF IndxHeaderLen
  <2> QED BY ONLY <1>1, <2>1, FourLong
<1>4. /\ p3 \in Seq(Byte) /\ Len(p3) = 4 /\ p11 \in Seq(Byte) /\ Len(p11) = 12 /\ p13 \in Seq(Byte) /\ Len(p13) = 124
      /\ p15 \in Seq(Byte) /\ Len(p15) = 8
      /\ (\A k \in 1..12 : p11[k] = 0) /\ (\A k \in 1..124 : p13[k] = 0)
  BY DEF Zeros, Byte
<1>5. p1 \in Seq(Byte) /\ Len(p1) = 4 /\ p8 \in Seq(Byte) /\ Len(p8) = 4 /\ p9 \in Seq(Byte) /\ Len(p9) = 4
  BY <1>1 DEF INDX, AllOnes, Byte
<1> HIDE DEF h, p1, p2, p3, p4, p5, p6, p7, p8, p9, p10, p11, p12, p13, p14, p15
<1>6. /\ ss \in Seq(Seq(Byte)) /\ Len(ss) = 15
      /\ ss[1] = p1 /\ ss[2] = p2 /\ ss[3] = p3 /\ ss[4] = p4 /\ ss[5] = p5 /\ ss[6] = p6 /\ ss[7] = p7 /\ ss[8] = p8
      /\ ss[9] = p9 /\ ss[10] = p10 /\ ss[11] = p11 /\ ss[12] = p12 /\ ss[13] = p13 /\ ss[14] = p14 /\ ss[15] = p15
  BY <1>3, <1>4, <1>5
<1> HIDE DEF ss
<1>7. /\ 1 \in 1..Len(ss) /\ 2 \in 1..Len(ss) /\ 3 \in 1..Len(ss) /\ 4 \in 1..Len(ss) /\ 5 \in 1..Len(ss) /\ 6 \in 1..Len(ss) /\ 7 \in 1..Len(ss) /\ 8 \in 1..Len(ss)
      /\ 9 \in 1..Len(ss) /\ 10 \in 1..Len(ss) /\ 11 \in 1..Len(ss) /\ 12 \in 1..Len(ss) /\ 13 \in 1..Len(ss) /\ 14 \in 1..Len(ss) /\ 15 \in 1..Len(ss)
      /\ 0 = 1 - 1 /\ 1 = 2 - 1 /\ 2 = 3 - 1 /\ 3 = 4 - 1 /\ 4 = 5 - 1 /\ 5 = 6 - 1 /\ 6 = 7 - 1 /\ 7 = 8 - 1 /\ 8 = 9 - 1 /\ 9 = 10 - 1 /\ 10 = 11 - 1 /\ 11 = 12 - 1 /\ 12 = 13 - 1 /\ 13 = 14 - 1 /\ 14 = 15 - 1
  BY <1>6
<1>8. Before(ss, 0) = 0 /\ h \in Seq(Byte) /\ Len(h) = Before(ss, 15)
  BY <1>2, <1>6, AllParts
<1>9. PartAt(ss, 1, 0, p1)
  BY ONLY <1>6, <1>7, <1>8, NextPart
<1>10. Before(ss, 1) = 4 /\ \A j \in 1..4 : h[0 + j] = p1[j]
  BY <1>2, <1>3, <1>4, <1>5, <1>9 DEF PartAt
<1>11. PartAt(ss, 2, 4, p2)
  BY ONLY <1>6, <1>7, <1>10, NextPart
<1>12. Before(ss, 2) = 8
  BY <1>2, <1>3, <1>4, <1>5, <1>11 DEF PartAt
<1>13. PartAt(ss, 3, 8, p3)
  BY ONLY <1>6, <1>7, <1>12, NextPart
<1>14. Before(ss, 3) = 12
  BY <1>2, <1>3, <1>4, <1>5, <1>13 DEF PartAt
<1>15. PartAt(ss, 4, 12, p4)
  BY ONLY <1>6, <1>7, <1>14, NextPart
<1>16. Before(ss, 4) = 16
  BY <1>2, <1>3, <1>4, <1>5, <1>15 DEF PartAt
<1>17. PartAt(ss, 5, 16, p5)
  BY ONLY <1>6, <1>7, <1>16, NextPart
<1>18. Before(ss, 5) = 20
  BY <1>2, <1>3, <1>4, <1>5, <1>17 DEF PartAt
<1>19. PartAt(ss, 6, 20, p6)
  BY ONLY <1>6, <1>7, <1>18, NextPart
<1>20. Before(ss, 6) = 24 /\ \A j \in 1..4 : h[20 + j] = p6[j]
  BY <1>2, <1>3, <1>4, <1>5, <1>19 DEF PartAt
<1>21. PartAt(ss, 7, 24, p7)
  BY ONLY <1>6, <1>7, <1>20, NextPart
<1>22. Before(ss, 7) = 28 /\ \A j \in 1..4 : h[24 + j] = p7[j]
  BY <1>2, <1>3, <1>4, <1>5, <1>21 DEF PartAt
<1>23. PartAt(ss, 8, 28, p8)
  BY ONLY <1>6, <1>7, <1>22, NextPart, ZenonT(40)
<1>24. Before(ss, 8) = 32 /\ \A j \in 1..4 : h[28 + j] = p8[j]
  BY <1>2, <1>3, <1>4, <1>5, <1>23 DEF PartAt
<1>25. PartAt(ss, 9, 32, p9)
  BY ONLY <1>6, <1>7, <1>24, NextPart, ZenonT(40)
<1>26. Before(ss, 9) = 36
  BY <1>2, <1>3, <1>4, <1>5, <1>25 DEF PartAt
<1>27. PartAt(ss, 10, 36, p10)
  BY ONLY <1>6, <1>7, <1>26, NextPart
<1>28. Before(ss, 10) = 40
  BY <1>2, <1>3, <1>4, <1>5, <1>27 DEF PartAt
<1>29. PartAt(ss, 11, 40, p11)
  BY ONLY <1>6, <1>7, <1>28, NextPart
<1>30. Before(ss, 11) = 52 /\ \A j \in 1..12 : h[40 + j] = p11[j]
  BY <1>2, <1>3, <1>4, <1>5, <1>29 DEF PartAt
<1>31. PartAt(ss, 12, 52, p12)
  BY ONLY <1>6, <1>7, <1>30, NextPart, ZenonT(40)
<1>32. Before(ss, 12) = 56
  BY <1>2, <1>3, <1>4, <1>5, <1>31 DEF PartAt
<1>33. PartAt(ss, 13, 56, p13)
  BY ONLY <1>6, <1>7, <1>32, NextPart, ZenonT(40)
<1>34. Before(ss, 13) = 180 /\ \A j \in 1..124 : h[56 + j] = p13[j]
  BY <1>2, <1>3, <1>4, <1>5, <1>33 DEF PartAt
<1>35. PartAt(ss, 14, 180, p14)
  <2>1. ss \in Seq(Seq(Byte)) /\ 14 \in 1..Len(ss) /\ 13 = 14 - 1 /\ ss[14] = p14 /\ Before(ss, 13) = 180
    BY <1>6, <1>7, <1>34
  <2> QED BY ONLY <2>1, NextPart
<1>36. Before(ss, 14) = 184 /\ \A j \in 1..4 : h[180 + j] = p14[j]
  BY <1>2, <1>3, <1>4, <1>5, <1>35 DEF PartAt
<1>37. PartAt(ss, 15, 184, p15)
  <2>1. ss \in Seq(Seq(Byte)) /\ 15 \in 1..Len(ss) /\ 14 = 15 - 1 /\ ss[15] = p15 /\ Before(ss, 14) = 184
    BY <1>6, <1>7, <1>36
  <2> QED BY ONLY <2>1, NextPart
<1>38. Before(ss, 15) = 192
  BY <1>2, <1>3, <1>4, <1>5, <1>37 DEF PartAt
<1>39. \A j \in 1..4 : h[48 + j] = 0
  <2> TAKE j \in 1..4
  <2>1. 8 + j \in 1..12 /\ 48 + j = 40 + (8 + j)
    OBVIOUS
  <2>2. h[40 + (8 + j)] = p11[8 + j] /\ p11[8 + j] = 0
    BY <1>4, <1>30, <2>1
  <2> QED BY <2>1, <2>2
<1>40. \A j \in 1..4 : h[168 + j] = 0
  <2> TAKE j \in 1..4
  <2>1. 112 + j \in 1..124 /\ 168 + j = 56 + (112 + j)
    OBVIOUS
  <2>2. h[56 + (112 + j)] = p13[112 + j] /\ p13[112 + j] = 0
    BY <1>4, <1>34, <2>1, ZenonT(40)
  <2> QED BY <2>1, <2>2
<1> QED BY <1>8, <1>10, <1>20, <1>22, <1>24, <1>30, <1>34, <1>36, <1>38, <1>39, <1>40 DEF HeaderIs, h, p1, p6, p7, p8, p14

AllTags(deep) == IF deep THEN <<1, 2, 3, 4, 21, 22, 23>> ELSE <<1, 2, 3, 4>>

(* Where the tags are, each of four bytes, and the one that ends them. *)
TagxIs(t, tags) ==
  /\ t \in Seq(Byte) /\ Len(t) = 16 + 4 * Len(tags)
  /\ \A j \in 1..4 : t[0 + j] = TAGX[j] /\ t[4 + j] = BE32((Len(tags) + 1) * 4 + 12)[j]
  /\ \A k \in 1..Len(tags) :
       LET at == 12 + 4 * (k - 1)
       IN  t[at + 1] = tags[k] /\ t[at + 3] = Bitmask[tags[k]] /\ t[at + 4] = 0
  /\ t[12 + 4 * Len(tags) + 4] = 1

LEMMA TagsType ==
  ASSUME NEW deep \in BOOLEAN
  PROVE  /\ AllTags(deep) \in Seq(Byte) /\ Len(AllTags(deep)) = IF deep THEN 7 ELSE 4
         /\ \A k \in 1..Len(AllTags(deep)) :
              AllTags(deep)[k] \in Byte /\ Bitmask[AllTags(deep)[k]] \in Byte
<1>1. CASE deep
  <2> DEFINE t == <<1, 2, 3, 4, 21, 22, 23>>
  <2>1. AllTags(deep) = t
    BY <1>1 DEF AllTags
  <2>2. t \in Seq(Byte) /\ Len(t) = 7 /\ \A k \in 1..7 : t[k] \in {1, 2, 3, 4, 21, 22, 23}
    BY DEF Byte
  <2> HIDE DEF t
  <2>3. \A tag \in {1, 2, 3, 4, 21, 22, 23} : tag \in Byte /\ Bitmask[tag] \in Byte
    BY DEF Byte, Bitmask
  <2> QED BY <1>1, <2>1, <2>2, <2>3
<1>2. CASE ~deep
  <2> DEFINE t == <<1, 2, 3, 4>>
  <2>1. AllTags(deep) = t
    BY <1>2 DEF AllTags
  <2>2. t \in Seq(Byte) /\ Len(t) = 4 /\ \A k \in 1..4 : t[k] \in {1, 2, 3, 4}
    BY DEF Byte
  <2> HIDE DEF t
  <2>3. \A tag \in {1, 2, 3, 4} : tag \in Byte /\ Bitmask[tag] \in Byte
    BY DEF Byte, Bitmask
  <2> QED BY <1>2, <2>1, <2>2, <2>3
<1> QED BY <1>1, <1>2

LEMMA TagxShape ==
  ASSUME NEW deep \in BOOLEAN
  PROVE  TagxIs(TagX(deep), AllTags(deep))
<1> DEFINE tags == AllTags(deep)
           n == Len(tags)
           one(k) == <<tags[k], 1, Bitmask[tags[k]], 0>>
           each == [k \in DOMAIN tags |-> one(k)]
           p1 == TAGX
           p2 == BE32((n + 1) * 4 + 12)
           p3 == BE32(1)
           p4 == FlattenSeq(each)
           p5 == <<0, 0, 0, 1>>
           ss == <<p1, p2, p3, p4, p5>>
           t == TagX(deep)
<1>1. /\ tags \in Seq(Byte) /\ n \in Nat /\ DOMAIN tags = 1..n
      /\ \A k \in 1..n : tags[k] \in Byte /\ Bitmask[tags[k]] \in Byte
  BY TagsType
<1>2. t = FlattenSeq(ss)
  <2>1. <<1, 2, 3, 4>> \o (IF deep THEN <<21, 22, 23>> ELSE <<>>) = tags
    BY FourAndMore, ZenonT(40) DEF AllTags
  <2> HIDE DEF tags
  <2> QED BY <2>1 DEF TagX
<1> HIDE DEF tags, n
<1>3. each \in Seq(Seq(Byte)) /\ Len(each) = n /\ \A k \in 1..n : each[k] = one(k) /\ Len(one(k)) = 4
  <2>1. \A k \in 1..n : one(k) \in Seq(Byte) /\ Len(one(k)) = 4
    BY <1>1 DEF Byte
  <2> HIDE DEF one
  <2> QED BY <1>1, <2>1
<1>4. /\ p4 \in Seq(Byte) /\ Len(p4) = 4 * n
      /\ \A k \in 1..n : \A j \in 1..4 : p4[4 * (k - 1) + j] = one(k)[j]
  <2> HIDE DEF each, one
  <2>1. Placed(Byte, each, p4) /\ \A k \in 0..n : Before(each, k) = 4 * k
    <3>1. \A k \in 1..Len(each) : Len(each[k]) = 4
      BY <1>3
    <3>2. \A k \in 0..Len(each) : Before(each, k) = 4 * k
      BY <1>3, <3>1, FlattenEqual
    <3> QED BY <1>3, <3>2, FlattenPlaces
  <2>2. p4 \in Seq(Byte) /\ Len(p4) = 4 * n
    BY <1>1, <1>3, <2>1 DEF Placed
  <2>3. ASSUME NEW k \in 1..n, NEW j \in 1..4 PROVE p4[4 * (k - 1) + j] = one(k)[j]
    <3>0. each[k] = one(k) /\ Len(each[k]) = 4
      BY <1>3
    <3>1. k \in 1..Len(each) /\ j \in 1..Len(each[k]) /\ k - 1 \in 0..n
      BY <1>1, <1>3, <3>0
    <3>2. p4[Before(each, k - 1) + j] = each[k][j]
      BY <2>1, <3>1 DEF Placed
    <3>3. Before(each, k - 1) = 4 * (k - 1)
      BY <2>1, <3>1
    <3> QED BY <3>0, <3>2, <3>3
  <2> QED BY <2>2, <2>3
<1>5. /\ p1 \in Seq(Byte) /\ Len(p1) = 4 /\ p5 \in Seq(Byte) /\ Len(p5) = 4 /\ p5[4] = 1
      /\ p2 \in Seq(Byte) /\ Len(p2) = 4 /\ p3 \in Seq(Byte) /\ Len(p3) = 4
  <2>1. (n + 1) * 4 + 12 \in Nat /\ 1 \in Nat
    BY <1>1
  <2>2. p2 \in Seq(Byte) /\ Len(p2) = 4 /\ p3 \in Seq(Byte) /\ Len(p3) = 4
    BY ONLY <2>1, FourLong
  <2> QED BY <2>2 DEF TAGX, Byte
<1> HIDE DEF t, p1, p2, p3, p4, p5
<1>6. ss \in Seq(Seq(Byte)) /\ Len(ss) = 5
      /\ ss[1] = p1 /\ ss[2] = p2 /\ ss[3] = p3 /\ ss[4] = p4 /\ ss[5] = p5
  BY <1>4, <1>5
<1> HIDE DEF ss
<1>7. 1 \in 1..Len(ss) /\ 2 \in 1..Len(ss) /\ 3 \in 1..Len(ss) /\ 4 \in 1..Len(ss) /\ 5 \in 1..Len(ss)
      /\ 0 = 1 - 1 /\ 1 = 2 - 1 /\ 2 = 3 - 1 /\ 3 = 4 - 1 /\ 4 = 5 - 1
  BY <1>6
<1>8. Before(ss, 0) = 0 /\ t \in Seq(Byte) /\ Len(t) = Before(ss, 5)
  BY <1>2, <1>6, AllParts
<1>9. PartAt(ss, 1, 0, p1)
  BY ONLY <1>6, <1>7, <1>8, NextPart
<1>10. Before(ss, 1) = 4 /\ \A j \in 1..4 : t[0 + j] = p1[j]
  BY <1>2, <1>5, <1>9 DEF PartAt
<1>11. PartAt(ss, 2, 4, p2)
  BY ONLY <1>6, <1>7, <1>10, NextPart
<1>12. Before(ss, 2) = 8 /\ \A j \in 1..4 : t[4 + j] = p2[j]
  BY <1>2, <1>5, <1>11 DEF PartAt
<1>13. PartAt(ss, 3, 8, p3)
  BY ONLY <1>6, <1>7, <1>12, NextPart
<1>14. Before(ss, 3) = 12
  BY <1>5, <1>13 DEF PartAt
<1>15. PartAt(ss, 4, 12, p4)
  BY ONLY <1>6, <1>7, <1>14, NextPart
<1>16. Before(ss, 4) = 12 + 4 * n /\ \A j \in 1..(4 * n) : t[12 + j] = p4[j]
  BY <1>2, <1>4, <1>15 DEF PartAt
<1>17. PartAt(ss, 5, 12 + 4 * n, p5)
  BY ONLY <1>6, <1>7, <1>16, NextPart
<1>18. Before(ss, 5) = 12 + 4 * n + 4 /\ t[12 + 4 * n + 4] = 1
  BY <1>2, <1>5, <1>17 DEF PartAt
<1>19. ASSUME NEW k \in 1..n
       PROVE  t[12 + 4 * (k - 1) + 1] = tags[k] /\ t[12 + 4 * (k - 1) + 3] = Bitmask[tags[k]]
              /\ t[12 + 4 * (k - 1) + 4] = 0
  <2> DEFINE m == k - 1
  <2>1. m \in Nat /\ m + 1 <= n
    BY <1>1
  <2>2. one(k)[1] = tags[k] /\ one(k)[3] = Bitmask[tags[k]] /\ one(k)[4] = 0
    OBVIOUS
  <2>3. ASSUME NEW j \in 1..4 PROVE t[12 + 4 * m + j] = one(k)[j]
    <3> HIDE DEF one, m
    <3>1. 4 * m + j \in 1..(4 * n) /\ 12 + (4 * m + j) = 12 + 4 * m + j
      BY <1>1, <2>1
    <3>2. p4[4 * m + j] = one(k)[j]
      BY <1>4 DEF m
    <3>3. t[12 + (4 * m + j)] = p4[4 * m + j]
      BY <1>16, <3>1
    <3> QED BY <3>1, <3>2, <3>3
  <2> HIDE DEF one, m
  <2>4. t[12 + 4 * m + 1] = one(k)[1] /\ t[12 + 4 * m + 3] = one(k)[3] /\ t[12 + 4 * m + 4] = one(k)[4]
    BY <2>3
  <2> QED BY <2>2, <2>4 DEF m
<1>20. Len(t) = 16 + 4 * n
  BY <1>1, <1>8, <1>18
<1> QED BY <1>8, <1>10, <1>12, <1>18, <1>19, <1>20 DEF TagxIs, t, n, tags, p1, p2

(* Where the parts of the first record are that the reader looks at. *)
FirstIs(r, deep, offset) ==
  /\ r \in Seq(Byte) /\ offset \in Nat /\ offset >= 192 + Len(TagX(deep)) /\ Len(r) = offset + 8
  /\ \A j \in 1..4 :
       /\ r[0 + j] = INDX[j] /\ r[20 + j] = BE32(offset)[j] /\ r[24 + j] = BE32(1)[j]
       /\ r[28 + j] = EncUTF8[j] /\ r[48 + j] = 0 /\ r[168 + j] = 0 /\ r[180 + j] = BE32(192)[j]
       /\ r[offset + j] = IDXT[j]
  /\ \A j \in 1..Len(TagX(deep)) : r[192 + j] = TagX(deep)[j]

LEMMA ShortBytes ==
  ASSUME NEW n \in Nat
  PROVE  BE16(n) \in Seq(Byte) /\ Len(BE16(n)) = 2 /\ BE16(n)[1] = (n \div 256) % 256 /\ BE16(n)[2] = n % 256
<1>1. (n \div 256) % 256 \in Byte /\ n % 256 \in Byte
  BY Base256, SMTT(30)
<1> DEFINE a == (n \div 256) % 256
           b == n % 256
<1>2. BE16(n) = <<a, b>> /\ a \in Byte /\ b \in Byte
  BY <1>1 DEF BE16
<1> HIDE DEF a, b
<1>3. BE16(n) \in Seq(Byte) /\ Len(BE16(n)) = 2 /\ BE16(n)[1] = a /\ BE16(n)[2] = b
  BY <1>2
<1> QED BY <1>3 DEF a, b

LEMMA FirstShape ==
  ASSUME LastLabel \in Seq(Byte), idxt \in Seq(0..(Word - 1)), NEW deep \in BOOLEAN, NEW count \in Nat
  PROVE  \E offset : FirstIs(INDX1(deep, count), deep, offset)
<1> DEFINE tagx == TagX(deep)
           label == LastLabel
           padding == (Len(label) + 2) % 4
           n == Len(tagx)
           offset == 192 + n + Len(label) + 2 + padding
           f == [Unk1 |-> 0, IndxType |-> 2, IdxtOffset |-> offset,
                 IdxtCount |-> 1, IdxtEncoding |-> EncUTF8, IdxtEntryCount |-> count,
                 CncxRecordsCount |-> 1, TagxOffset |-> 192]
           p1 == IndxHeader(f)
           p4 == BE16(Len(idxt))
           p5 == Zeros(padding)
           p6 == IDXT
           p7 == BE16(192 + n)
           p8 == Zeros(2)
           ss == <<p1, tagx, label, p4, p5, p6, p7, p8>>
           r == INDX1(deep, count)
<1>1. /\ tagx \in Seq(Byte) /\ n \in Nat /\ label \in Seq(Byte) /\ Len(label) \in Nat
  <2>1. tagx \in Seq(Byte)
    BY TagxShape DEF TagxIs
  <2> HIDE DEF tagx, label
  <2>2. label \in Seq(Byte)
    BY DEF label
  <2> QED BY <2>1, <2>2
<1>2. r = FlattenSeq(ss)
  BY DEF INDX1, IndxHeaderLen
<1> HIDE DEF tagx, label, n, r
<1>3. padding \in 0..3
  <2> DEFINE m == Len(label) + 2
  <2>1. m \in Nat
    BY <1>1
  <2> HIDE DEF m
  <2>2. m % 4 \in 0..3
    BY <2>1
  <2> QED BY <2>2 DEF m
<1> HIDE DEF padding
<1>4. offset \in Nat /\ offset >= 192 + n
  BY <1>1, <1>3
<1>5. f \in HeaderSet
  <2>1. EncUTF8 \in Seq(Byte) /\ Len(EncUTF8) = 4
    BY FourLong DEF EncUTF8
  <2> DEFINE enc == EncUTF8
             offs == offset
  <2>2. enc \in {b \in Seq(Byte) : Len(b) = 4} /\ offs \in Nat
    BY <1>4, <2>1
  <2>3. f = [Unk1 |-> 0, IndxType |-> 2, IdxtOffset |-> offs,
             IdxtCount |-> 1, IdxtEncoding |-> enc, IdxtEntryCount |-> count,
             CncxRecordsCount |-> 1, TagxOffset |-> 192]
    OBVIOUS
  <2> HIDE DEF enc, offs, f
  <2> QED BY <2>2, <2>3 DEF HeaderSet
<1>6. f.IdxtOffset = offset /\ f.IdxtCount = 1 /\ f.IdxtEncoding = EncUTF8 /\ f.TagxOffset = 192
  OBVIOUS
<1> HIDE DEF f, offset
<1>7. HeaderIs(p1, f)
  BY <1>5, HeaderShape
<1> HIDE DEF p1
<1>8. /\ p1 \in Seq(Byte) /\ Len(p1) = 192
      /\ \A j \in 1..4 :
           /\ p1[0 + j] = INDX[j] /\ p1[20 + j] = BE32(offset)[j] /\ p1[24 + j] = BE32(1)[j]
           /\ p1[28 + j] = EncUTF8[j] /\ p1[48 + j] = 0 /\ p1[168 + j] = 0 /\ p1[180 + j] = BE32(192)[j]
  BY <1>6, <1>7 DEF HeaderIs
<1>9. p4 \in Seq(Byte) /\ Len(p4) = 2 /\ p7 \in Seq(Byte) /\ Len(p7) = 2
  <2>1. Len(idxt) \in Nat /\ 192 + n \in Nat
    BY <1>1
  <2> QED BY ONLY <2>1, ShortBytes
<1>10. p5 \in Seq(Byte) /\ Len(p5) = padding /\ p8 \in Seq(Byte) /\ Len(p8) = 2
  BY <1>3 DEF Zeros, Byte
<1>11. p6 \in Seq(Byte) /\ Len(p6) = 4
  BY DEF IDXT, Byte
<1> HIDE DEF p4, p5, p6, p7, p8
<1>12. /\ ss \in Seq(Seq(Byte)) /\ Len(ss) = 8 /\ ss[1] = p1 /\ ss[2] = tagx /\ ss[3] = label /\ ss[4] = p4
       /\ ss[5] = p5 /\ ss[6] = p6 /\ ss[7] = p7 /\ ss[8] = p8
  BY <1>1, <1>8, <1>9, <1>10, <1>11
<1> HIDE DEF ss
<1>13. /\ 1 \in 1..Len(ss) /\ 2 \in 1..Len(ss) /\ 3 \in 1..Len(ss) /\ 4 \in 1..Len(ss)
       /\ 5 \in 1..Len(ss) /\ 6 \in 1..Len(ss) /\ 7 \in 1..Len(ss) /\ 8 \in 1..Len(ss)
       /\ 0 = 1 - 1 /\ 1 = 2 - 1 /\ 2 = 3 - 1 /\ 3 = 4 - 1 /\ 4 = 5 - 1 /\ 5 = 6 - 1 /\ 6 = 7 - 1 /\ 7 = 8 - 1
  BY <1>12
<1>14. Before(ss, 0) = 0 /\ r \in Seq(Byte) /\ Len(r) = Before(ss, 8)
  BY <1>2, <1>12, AllParts
<1>15. PartAt(ss, 1, 0, p1)
  BY ONLY <1>12, <1>13, <1>14, NextPart
<1>16. Before(ss, 1) = 192 /\ \A j \in 1..192 : r[0 + j] = p1[j]
  BY <1>2, <1>8, <1>15 DEF PartAt
<1>17. PartAt(ss, 2, 192, tagx)
  <2>1. ss \in Seq(Seq(Byte)) /\ 2 \in 1..Len(ss) /\ 1 = 2 - 1 /\ ss[2] = tagx /\ Before(ss, 1) = 192
    BY <1>12, <1>13, <1>16
  <2> QED BY ONLY <2>1, NextPart
<1>18. Before(ss, 2) = 192 + n /\ \A j \in 1..n : r[192 + j] = tagx[j]
  BY <1>2, <1>17 DEF PartAt, n
<1>19. PartAt(ss, 3, 192 + n, label)
  BY ONLY <1>12, <1>13, <1>18, NextPart, ZenonT(40)
<1>20. Before(ss, 3) = 192 + n + Len(label)
  BY <1>19 DEF PartAt
<1>21. PartAt(ss, 4, 192 + n + Len(label), p4)
  BY ONLY <1>12, <1>13, <1>20, NextPart, ZenonT(40)
<1>22. Before(ss, 4) = 192 + n + Len(label) + 2
  BY <1>9, <1>21 DEF PartAt
<1>23. PartAt(ss, 5, 192 + n + Len(label) + 2, p5)
  BY ONLY <1>12, <1>13, <1>22, NextPart, ZenonT(40)
<1>24. Before(ss, 5) = offset
  BY <1>10, <1>23 DEF PartAt, offset
<1>25. PartAt(ss, 6, offset, p6)
  BY ONLY <1>12, <1>13, <1>24, NextPart
<1>26. Before(ss, 6) = offset + 4 /\ \A j \in 1..4 : r[offset + j] = p6[j]
  BY <1>2, <1>11, <1>25 DEF PartAt
<1>27. PartAt(ss, 7, offset + 4, p7)
  BY ONLY <1>12, <1>13, <1>26, NextPart
<1>28. Before(ss, 7) = offset + 6
  BY <1>4, <1>9, <1>27 DEF PartAt
<1>29. PartAt(ss, 8, offset + 6, p8)
  BY ONLY <1>12, <1>13, <1>28, NextPart
<1>30. Before(ss, 8) = offset + 8
  BY <1>4, <1>10, <1>29 DEF PartAt
<1>31. \A j \in 1..4 :
         /\ r[0 + j] = INDX[j] /\ r[20 + j] = BE32(offset)[j] /\ r[24 + j] = BE32(1)[j]
         /\ r[28 + j] = EncUTF8[j] /\ r[48 + j] = 0 /\ r[168 + j] = 0 /\ r[180 + j] = BE32(192)[j]
  <2> TAKE j \in 1..4
  <2>0. ASSUME NEW i \in 1..192 PROVE r[i] = p1[i]
    <3>1. \A k \in 1..192 : r[0 + k] = p1[k]
      BY <1>16
    <3>2. r[0 + i] = p1[i]
      BY ONLY <3>1, i \in 1..192
    <3>3. 0 + i = i
      OBVIOUS
    <3> QED BY ONLY <3>2, <3>3
  <2>1. /\ 0 + j \in 1..192 /\ 20 + j \in 1..192 /\ 24 + j \in 1..192 /\ 28 + j \in 1..192
        /\ 48 + j \in 1..192 /\ 168 + j \in 1..192 /\ 180 + j \in 1..192
    OBVIOUS
  <2>2. /\ r[0 + j] = p1[0 + j] /\ r[20 + j] = p1[20 + j] /\ r[24 + j] = p1[24 + j] /\ r[28 + j] = p1[28 + j]
        /\ r[48 + j] = p1[48 + j] /\ r[168 + j] = p1[168 + j] /\ r[180 + j] = p1[180 + j]
    BY ONLY <2>0, <2>1, ZenonT(20)
  <2>3. /\ p1[0 + j] = INDX[j] /\ p1[20 + j] = BE32(offset)[j] /\ p1[24 + j] = BE32(1)[j]
        /\ p1[28 + j] = EncUTF8[j] /\ p1[48 + j] = 0 /\ p1[168 + j] = 0 /\ p1[180 + j] = BE32(192)[j]
    BY <1>8, ZenonT(20)
  <2> QED BY ONLY <2>2, <2>3, SMTT(30)
<1>32. FirstIs(r, deep, offset)
  BY <1>4, <1>14, <1>18, <1>26, <1>30, <1>31 DEF FirstIs, tagx, n, p6
<1> QED BY <1>32 DEF r
(* Where the parts of the second record are. *)
SecondIs(r) ==
  LET n == Len(cncx)
      m == Len(idxt)
  IN  /\ r \in Seq(Byte) /\ Len(r) >= 196 + n + 2 * m
      /\ \A j \in 1..4 :
           /\ r[0 + j] = INDX[j] /\ r[20 + j] = BE32(192 + n)[j] /\ r[24 + j] = BE32(m)[j]
           /\ r[28 + j] = 255 /\ r[48 + j] = 0 /\ r[168 + j] = 0 /\ r[180 + j] = BE32(0)[j]
           /\ r[192 + n + j] = IDXT[j]
      /\ \A j \in 1..n : r[192 + j] = cncx[j]
      /\ \A k \in 1..m : \A j \in 1..2 : r[196 + n + 2 * (k - 1) + j] = BE16(idxt[k])[j]

LEMMA SecondShape ==
  ASSUME cncx \in Seq(Byte), idxt \in Seq(0..(Word - 1))
  PROVE  SecondIs(INDX2)
<1> DEFINE n == Len(cncx)
           m == Len(idxt)
           offset == 192 + n
           f == [Unk1 |-> 1, IndxType |-> 0, IdxtOffset |-> offset,
                 IdxtCount |-> m, IdxtEncoding |-> AllOnes, IdxtEntryCount |-> 0,
                 CncxRecordsCount |-> 0, TagxOffset |-> 0]
           one(k) == BE16(idxt[k])
           each == [k \in DOMAIN idxt |-> one(k)]
           padding == (m + 4) % 4
           p1 == IndxHeader(f)
           p2 == cncx
           p3 == IDXT
           p4 == FlattenSeq(each)
           p5 == Zeros(padding)
           ss == <<p1, p2, p3, p4, p5>>
           r == INDX2
<1>1. /\ n \in Nat /\ m \in Nat /\ DOMAIN idxt = 1..m /\ p2 \in Seq(Byte) /\ Len(p2) = n
      /\ \A k \in 1..m : idxt[k] \in Nat
  BY WordAssumption
<1>2. r = FlattenSeq(ss)
  BY DEF INDX2, IndxHeaderLen
<1> HIDE DEF n, m, r, p2
<1>3. each \in Seq(Seq(Byte)) /\ Len(each) = m /\ \A k \in 1..m : each[k] = one(k) /\ Len(one(k)) = 2
  <2>1. \A k \in 1..m : one(k) \in Seq(Byte) /\ Len(one(k)) = 2
    BY <1>1, ShortBytes, ZenonT(40)
  <2> HIDE DEF one
  <2> QED BY <1>1, <2>1
<1>4. /\ p4 \in Seq(Byte) /\ Len(p4) = 2 * m
      /\ \A k \in 1..m : \A j \in 1..2 : p4[2 * (k - 1) + j] = one(k)[j]
  <2> HIDE DEF each, one
  <2>1. Placed(Byte, each, p4) /\ \A k \in 0..m : Before(each, k) = 2 * k
    <3>1. \A k \in 1..Len(each) : Len(each[k]) = 2
      BY <1>3
    <3>2. \A k \in 0..Len(each) : Before(each, k) = 2 * k
      BY <1>3, <3>1, FlattenEqual
    <3> QED BY <1>3, <3>2, FlattenPlaces
  <2>2. p4 \in Seq(Byte) /\ Len(p4) = 2 * m
    BY <1>1, <1>3, <2>1 DEF Placed
  <2>3. ASSUME NEW k \in 1..m, NEW j \in 1..2 PROVE p4[2 * (k - 1) + j] = one(k)[j]
    <3>0. each[k] = one(k) /\ Len(each[k]) = 2
      BY <1>3
    <3>1. k \in 1..Len(each) /\ j \in 1..Len(each[k]) /\ k - 1 \in 0..m
      BY <1>1, <1>3, <3>0
    <3>2. p4[Before(each, k - 1) + j] = each[k][j]
      BY <2>1, <3>1 DEF Placed
    <3>3. Before(each, k - 1) = 2 * (k - 1)
      BY <2>1, <3>1
    <3> QED BY <3>0, <3>2, <3>3
  <2> QED BY <2>2, <2>3
<1>5. padding \in 0..3
  <2> DEFINE x == m + 4
  <2>1. x \in Nat
    BY <1>1
  <2> HIDE DEF x
  <2>2. x % 4 \in 0..3
    BY <2>1
  <2> QED BY <2>2 DEF x
<1>6. p5 \in Seq(Byte) /\ Len(p5) \in Nat
  <2> HIDE DEF padding
  <2>1. padding \in Int
    BY <1>5
  <2> QED BY ONLY <2>1, ZerosType
<1>7. AllOnes \in Seq(Byte) /\ Len(AllOnes) = 4 /\ \A j \in 1..4 : AllOnes[j] = 255
  BY DEF AllOnes, Byte
<1>8. f \in HeaderSet
  <2> DEFINE ones == AllOnes
             offs == offset
  <2>1. ones \in {b \in Seq(Byte) : Len(b) = 4} /\ offs \in Nat
    BY <1>1, <1>7
  <2>2. f = [Unk1 |-> 1, IndxType |-> 0, IdxtOffset |-> offs,
             IdxtCount |-> m, IdxtEncoding |-> ones, IdxtEntryCount |-> 0,
             CncxRecordsCount |-> 0, TagxOffset |-> 0]
    OBVIOUS
  <2> HIDE DEF ones, offs, f
  <2> QED BY <1>1, <2>1, <2>2 DEF HeaderSet
<1>9. f.IdxtOffset = offset /\ f.IdxtCount = m /\ f.IdxtEncoding = AllOnes /\ f.TagxOffset = 0
  OBVIOUS
<1> HIDE DEF f
<1>10. HeaderIs(p1, f)
  BY <1>8, HeaderShape
<1> HIDE DEF p1
<1>11. /\ p1 \in Seq(Byte) /\ Len(p1) = 192
       /\ \A j \in 1..4 :
            /\ p1[0 + j] = INDX[j] /\ p1[20 + j] = BE32(offset)[j] /\ p1[24 + j] = BE32(m)[j]
            /\ p1[28 + j] = 255 /\ p1[48 + j] = 0 /\ p1[168 + j] = 0 /\ p1[180 + j] = BE32(0)[j]
  BY <1>7, <1>9, <1>10 DEF HeaderIs
<1>12. p3 \in Seq(Byte) /\ Len(p3) = 4
  BY DEF IDXT, Byte
<1> HIDE DEF p3, p4, p5, one, each, padding
<1>13. /\ ss \in Seq(Seq(Byte)) /\ Len(ss) = 5
       /\ ss[1] = p1 /\ ss[2] = p2 /\ ss[3] = p3 /\ ss[4] = p4 /\ ss[5] = p5
  BY <1>1, <1>4, <1>6, <1>11, <1>12
<1> HIDE DEF ss
<1>14. 1 \in 1..Len(ss) /\ 2 \in 1..Len(ss) /\ 3 \in 1..Len(ss) /\ 4 \in 1..Len(ss) /\ 5 \in 1..Len(ss)
       /\ 0 = 1 - 1 /\ 1 = 2 - 1 /\ 2 = 3 - 1 /\ 3 = 4 - 1 /\ 4 = 5 - 1
  BY <1>13
<1>15. Before(ss, 0) = 0 /\ r \in Seq(Byte) /\ Len(r) = Before(ss, 5)
  BY <1>2, <1>13, AllParts
<1>16. PartAt(ss, 1, 0, p1)
  BY ONLY <1>13, <1>14, <1>15, NextPart
<1>17. Before(ss, 1) = 192 /\ \A j \in 1..192 : r[0 + j] = p1[j]
  BY <1>2, <1>11, <1>16 DEF PartAt
<1>18. PartAt(ss, 2, 192, p2)
  <2>1. ss \in Seq(Seq(Byte)) /\ 2 \in 1..Len(ss) /\ 1 = 2 - 1 /\ ss[2] = p2 /\ Before(ss, 1) = 192
    BY <1>13, <1>14, <1>17
  <2> QED BY ONLY <2>1, NextPart
<1>19. Before(ss, 2) = offset /\ \A j \in 1..n : r[192 + j] = p2[j]
  BY <1>1, <1>2, <1>18 DEF PartAt
<1>20. PartAt(ss, 3, offset, p3)
  <2>1. ss \in Seq(Seq(Byte)) /\ 3 \in 1..Len(ss) /\ 2 = 3 - 1 /\ ss[3] = p3 /\ Before(ss, 2) = offset
    BY <1>13, <1>14, <1>19
  <2> HIDE DEF offset
  <2> QED BY ONLY <2>1, NextPart
<1>21. Before(ss, 3) = 196 + n /\ \A j \in 1..4 : r[192 + n + j] = p3[j]
  BY <1>1, <1>2, <1>12, <1>20 DEF PartAt
<1>22. PartAt(ss, 4, 196 + n, p4)
  <2>1. ss \in Seq(Seq(Byte)) /\ 4 \in 1..Len(ss) /\ 3 = 4 - 1 /\ ss[4] = p4 /\ Before(ss, 3) = 196 + n
    BY <1>13, <1>14, <1>21
  <2> QED BY ONLY <2>1, NextPart
<1>23. Before(ss, 4) = 196 + n + 2 * m /\ \A j \in 1..(2 * m) : r[196 + n + j] = p4[j]
  BY <1>1, <1>2, <1>4, <1>22 DEF PartAt
<1>24. PartAt(ss, 5, 196 + n + 2 * m, p5)
  <2> DEFINE at == 196 + n + 2 * m
  <2>1. ss \in Seq(Seq(Byte)) /\ 5 \in 1..Len(ss) /\ 4 = 5 - 1 /\ ss[5] = p5 /\ Before(ss, 4) = at
    BY <1>13, <1>14, <1>23
  <2> HIDE DEF at
  <2>2. PartAt(ss, 5, at, p5)
    BY ONLY <2>1, NextPart
  <2> QED BY <2>2 DEF at
<1>25. Len(r) >= 196 + n + 2 * m
  BY <1>1, <1>6, <1>15, <1>24 DEF PartAt
<1>26. \A j \in 1..4 :
         /\ r[0 + j] = INDX[j] /\ r[20 + j] = BE32(offset)[j] /\ r[24 + j] = BE32(m)[j]
         /\ r[28 + j] = 255 /\ r[48 + j] = 0 /\ r[168 + j] = 0 /\ r[180 + j] = BE32(0)[j]
  <2> HIDE DEF offset
  <2> TAKE j \in 1..4
  <2>0. ASSUME NEW i \in 1..192 PROVE r[i] = p1[i]
    <3>1. \A k \in 1..192 : r[0 + k] = p1[k]
      BY <1>17
    <3>2. r[0 + i] = p1[i]
      BY ONLY <3>1, i \in 1..192
    <3>3. 0 + i = i
      OBVIOUS
    <3> QED BY ONLY <3>2, <3>3
  <2>1. /\ 0 + j \in 1..192 /\ 20 + j \in 1..192 /\ 24 + j \in 1..192 /\ 28 + j \in 1..192
        /\ 48 + j \in 1..192 /\ 168 + j \in 1..192 /\ 180 + j \in 1..192
    OBVIOUS
  <2>2. /\ r[0 + j] = p1[0 + j] /\ r[20 + j] = p1[20 + j] /\ r[24 + j] = p1[24 + j] /\ r[28 + j] = p1[28 + j]
        /\ r[48 + j] = p1[48 + j] /\ r[168 + j] = p1[168 + j] /\ r[180 + j] = p1[180 + j]
    BY ONLY <2>0, <2>1, ZenonT(20)
  <2>3. /\ p1[0 + j] = INDX[j] /\ p1[20 + j] = BE32(offset)[j] /\ p1[24 + j] = BE32(m)[j]
        /\ p1[28 + j] = 255 /\ p1[48 + j] = 0 /\ p1[168 + j] = 0 /\ p1[180 + j] = BE32(0)[j]
    BY <1>11, ZenonT(20)
  <2> QED BY ONLY <2>2, <2>3, SMTT(30)
<1>27. ASSUME NEW k \in 1..m, NEW j \in 1..2
       PROVE  r[196 + n + 2 * (k - 1) + j] = BE16(idxt[k])[j]
  <2> DEFINE i == 2 * (k - 1) + j
  <2>1. i \in 1..(2 * m) /\ 196 + n + i = 196 + n + 2 * (k - 1) + j
    BY <1>1
  <2>2. p4[i] = one(k)[j]
    BY <1>4
  <2> HIDE DEF i
  <2>3. r[196 + n + i] = p4[i]
    BY <1>23, <2>1
  <2> QED BY <2>1, <2>2, <2>3 DEF one
<1> QED BY <1>15, <1>19, <1>21, <1>25, <1>26, <1>27 DEF SecondIs, n, m, r, p2, p3
-----------------------------------------------------------------------------
(* The buffers.                                                            *)

(* What of an entry the place of the others depends on. *)
LEMMA AllEntriesType ==
  ASSUME entries \in Seq(EntryType), labels \in Seq([at : Nat, title : NodeType]), Len(labels) = Len(entries)
  PROVE  /\ AllEntries \in Seq(Seq(Byte)) /\ Len(AllEntries) = Len(entries)
         /\ \A k \in 1..Len(entries) :
              /\ AllEntries[k] = EntryBytes(entries[k], labels[k].at)
              /\ EntryIs(AllEntries[k], Label(entries[k].label), controlByte(EntryTags(entries[k].kind)),
                         ValueBytes(EntryValues(entries[k], labels[k].at)))
<1> DEFINE n == Len(entries)
<1>1. n \in Nat /\ DOMAIN entries = 1..n /\ \A k \in 1..n : entries[k] \in EntryType /\ labels[k].at \in Nat
  <2> DEFINE R == [at : Nat, title : NodeType]
  <2>1. \A l \in R : l.at \in Nat
    OBVIOUS
  <2> HIDE DEF R
  <2>2. n \in Nat /\ DOMAIN entries = 1..n /\ \A k \in 1..n : entries[k] \in EntryType
    OBVIOUS
  <2>3. labels \in Seq(R) /\ Len(labels) = n
    BY DEF R
  <2>4. \A k \in 1..n : labels[k] \in R
    BY ONLY <2>3
  <2> QED BY <2>1, <2>2, <2>4
<1>2. ASSUME NEW k \in 1..n
      PROVE  /\ EntryBytes(entries[k], labels[k].at) \in Seq(Byte)
             /\ EntryIs(EntryBytes(entries[k], labels[k].at), Label(entries[k].label),
                        controlByte(EntryTags(entries[k].kind)), ValueBytes(EntryValues(entries[k], labels[k].at)))
  <2> DEFINE e == entries[k]
             at == labels[k].at
  <2>1. e \in EntryType /\ at \in Nat
    BY <1>1
  <2> HIDE DEF e, at
  <2>2. EntryIs(EntryBytes(e, at), Label(e.label), controlByte(EntryTags(e.kind)), ValueBytes(EntryValues(e, at)))
    BY <2>1, EntryShape
  <2>3. EntryBytes(e, at) \in Seq(Byte)
    BY <2>2 DEF EntryIs
  <2> QED BY <2>2, <2>3 DEF e, at
<1>3. AllEntries = [k \in 1..n |-> EntryBytes(entries[k], labels[k].at)]
  BY <1>1 DEF AllEntries
<1>4. AllEntries \in Seq(Seq(Byte)) /\ Len(AllEntries) = n
  BY <1>1, <1>2, <1>3
<1>5. \A k \in 1..n : AllEntries[k] = EntryBytes(entries[k], labels[k].at)
  BY <1>3
<1> QED BY <1>2, <1>4, <1>5

(* The places of sequences are not moved by one that is appended. *)
LEMMA PlacesKept ==
  ASSUME NEW X, NEW ss \in Seq(X), NEW s \in X
  PROVE  /\ \A k \in 1..Len(ss) : PlaceIn(Append(ss, s), k) = PlaceIn(ss, k)
         /\ PlaceIn(Append(ss, s), Len(ss) + 1) = Len(FlattenSeq(ss))
<1> DEFINE tt == Append(ss, s)
           n == Len(ss)
<1>1. n \in Nat /\ tt \in Seq(X) /\ Len(tt) = n + 1 /\ \A k \in 1..n : tt[k] = ss[k]
  OBVIOUS
<1> HIDE DEF tt, n
<1>2. ASSUME NEW j \in 0..n PROVE SubSeq(tt, 1, j) = SubSeq(ss, 1, j)
  BY <1>1 DEF n
<1>3. SubSeq(ss, 1, n) = ss
  BY DEF n
<1>4. ASSUME NEW k \in 1..n PROVE PlaceIn(tt, k) = PlaceIn(ss, k)
  <2>1. k - 1 \in 0..n
    BY <1>1
  <2>2. SubSeq(tt, 1, k - 1) = SubSeq(ss, 1, k - 1)
    BY <1>2, <2>1
  <2> QED BY <2>2 DEF PlaceIn
<1>5. PlaceIn(tt, n + 1) = Len(FlattenSeq(ss))
  <2>1. (n + 1) - 1 = n /\ n \in 0..n
    BY <1>1
  <2>2. SubSeq(tt, 1, n) = ss
    BY <1>2, <1>3, <2>1
  <2>3. PlaceIn(tt, n + 1) = Len(FlattenSeq(SubSeq(tt, 1, (n + 1) - 1)))
    BY DEF PlaceIn
  <2>4. SubSeq(tt, 1, (n + 1) - 1) = ss
    BY ONLY <2>1, <2>2, Zenon
  <2> QED BY ONLY <2>3, <2>4, Zenon
<1> QED BY <1>4, <1>5 DEF tt, n

LEMMA RemainderType ==
  ASSUME NEW n \in Nat
  PROVE  n % Word \in 0..(Word - 1)
<1>1. Word \in Nat /\ Word > 0
  BY WordAssumption
<1> QED BY <1>1, Division

(* writer.go:371-386: one entry more. *)
LEMMA BuffersGrow ==
  ASSUME IndexTypeOK, Buffers, NEW e \in EntryType, entries' = Append(entries, e),
         idxt' = Append(idxt, EntryOffset), cncx' = cncx \o EntryBytes(e, LabelsLen),
         labels' = Append(labels, [at |-> LabelsLen, title |-> e.title])
  PROVE  /\ Buffers' /\ Len(idxt') - Len(entries') = Len(idxt) - Len(entries)
         /\ idxt' \in Seq(0..(Word - 1)) /\ cncx' \in Seq(Byte) /\ labels' \in Seq([at : Nat, title : NodeType])
<1> DEFINE n == Len(entries)
           c == Len(vwiEncInt(TitleLen)) + TitleLen
           all == AllEntries
           one == EntryBytes(e, LabelsLen)
           label == [at |-> LabelsLen, title |-> e.title]
           before == Len(idxt) - n
           offset == EntryOffset
<1>1. /\ entries \in Seq(EntryType) /\ labels \in Seq([at : Nat, title : NodeType])
      /\ idxt \in Seq(0..(Word - 1)) /\ cncx \in Seq(Byte)
  BY DEF IndexTypeOK, TypeOK
<1>2. /\ Len(labels) = n /\ before \in Nat /\ cncx = FlattenSeq(all) /\ n \in Nat /\ DOMAIN entries = 1..n
      /\ \A k \in 1..n :
           labels[k].at = (k - 1) * c /\ labels[k].title = entries[k].title
           /\ idxt[before + k] = (IndxHeaderLen + PlaceIn(all, k)) % Word
  <2>1. n \in Nat /\ DOMAIN entries = 1..n
    BY <1>1
  <2> HIDE DEF n, c, all
  <2>2. /\ Len(labels) = n /\ before \in Nat /\ cncx = FlattenSeq(all)
        /\ \A k \in DOMAIN entries :
             labels[k].at = (k - 1) * c /\ labels[k].title = entries[k].title
             /\ idxt[before + k] = (IndxHeaderLen + PlaceIn(all, k)) % Word
    BY DEF Buffers, n, c, all
  <2> QED BY <2>1, <2>2
<1>3. c \in Nat
  <2>1. Len(vwiEncInt(TitleLen)) \in Nat /\ TitleLen \in Nat
    BY WordAssumption, Encoded
  <2> QED BY <2>1
<1> HIDE DEF c
<1>4. LabelsLen = n * c /\ LabelsLen \in Nat
  <2>1. LabelsLen = n * c
    BY <1>2 DEF LabelsLen, c
  <2> QED BY <1>2, <1>3, <2>1
<1>5. label \in [at : Nat, title : NodeType] /\ label.at = n * c /\ label.title = e.title
  BY <1>4 DEF EntryType
<1>6. all \in Seq(Seq(Byte)) /\ Len(all) = n /\ \A k \in 1..n : all[k] = EntryBytes(entries[k], labels[k].at)
  BY <1>1, <1>2, AllEntriesType
<1>7. one \in Seq(Byte)
  BY <1>4, EntryShape DEF EntryIs
<1>8. offset = (IndxHeaderLen + Len(cncx)) % Word /\ offset \in 0..(Word - 1)
  <2> DEFINE x == IndxHeaderLen + Len(cncx)
  <2>1. x \in Nat
    BY <1>1 DEF IndxHeaderLen
  <2> HIDE DEF x
  <2>2. x % Word \in 0..(Word - 1)
    BY <2>1, RemainderType
  <2> QED BY <2>2 DEF x, EntryOffset
<1> HIDE DEF offset, label
<1>9. idxt' = Append(idxt, offset) /\ labels' = Append(labels, label) /\ cncx' = cncx \o one
  BY DEF offset, label
<1>10. /\ idxt' \in Seq(0..(Word - 1)) /\ cncx' \in Seq(Byte) /\ labels' \in Seq([at : Nat, title : NodeType])
       /\ Len(idxt') = Len(idxt) + 1 /\ Len(labels') = n + 1 /\ Len(entries') = n + 1
       /\ DOMAIN entries' = 1..(n + 1)
  <2> DEFINE R == [at : Nat, title : NodeType]
             W == 0..(Word - 1)
  <2>1. labels \in Seq(R) /\ label \in R /\ idxt \in Seq(W) /\ offset \in W
    BY <1>1, <1>5, <1>8
  <2> HIDE DEF R, W
  <2>2. labels' \in Seq(R) /\ Len(labels') = n + 1
    BY <1>2, <1>9, <2>1
  <2>3. idxt' \in Seq(W) /\ Len(idxt') = Len(idxt) + 1
    BY <1>9, <2>1
  <2>4. cncx' \in Seq(Byte)
    BY <1>1, <1>7, <1>9
  <2>5. Len(entries') = n + 1 /\ DOMAIN entries' = 1..(n + 1)
    BY <1>1
  <2> QED BY <2>2, <2>3, <2>4, <2>5 DEF R, W
<1>11. AllEntries' = Append(all, one)
  <2>1. AllEntries' = [k \in 1..(n + 1) |-> EntryBytes(entries'[k], labels'[k].at)]
    BY <1>10 DEF AllEntries
  <2>2. \A k \in 1..n : entries'[k] = entries[k] /\ labels'[k] = labels[k]
    BY <1>1, <1>2, <1>9
  <2>3. entries'[n + 1] = e /\ labels'[n + 1] = label
    BY <1>1, <1>2, <1>9
  <2>4. \A k \in 1..n : EntryBytes(entries'[k], labels'[k].at) = all[k]
    BY <1>6, <2>2
  <2>5. EntryBytes(entries'[n + 1], labels'[n + 1].at) = one
    <3>1. labels'[n + 1].at = LabelsLen
      BY <1>4, <1>5, <2>3
    <3> QED BY <2>3, <3>1
  <2> DEFINE one1(k) == EntryBytes(entries'[k], labels'[k].at)
             new == AllEntries'
  <2> HIDE DEF all, one
  <2>6. \A k \in 1..(n + 1) : one1(k) = (IF k = n + 1 THEN one ELSE all[k]) /\ one1(k) \in Seq(Byte)
    <3> TAKE k \in 1..(n + 1)
    <3>1. CASE k = n + 1
      <4>1. one1(k) = one
        BY ONLY <2>5, <3>1
      <4> HIDE DEF one1
      <4> QED BY ONLY <1>7, <3>1, <4>1
    <3>2. CASE k \in 1..n
      <4>1. one1(k) = all[k]
        BY ONLY <2>4, <3>2
      <4>2. all[k] \in Seq(Byte) /\ k # n + 1
        BY <1>2, <1>6, <3>2
      <4> HIDE DEF one1
      <4> QED BY ONLY <4>1, <4>2
    <3> QED BY <1>2, <3>1, <3>2
  <2>7. new = [k \in 1..(n + 1) |-> one1(k)]
    BY <2>1
  <2> HIDE DEF one1, new
  <2>8. new \in Seq(Seq(Byte)) /\ Len(new) = n + 1
    BY <1>2, <2>6, <2>7
  <2>9. /\ Append(all, one) \in Seq(Seq(Byte)) /\ Len(Append(all, one)) = n + 1
        /\ \A k \in 1..(n + 1) : Append(all, one)[k] = IF k = n + 1 THEN one ELSE all[k]
    <3> DEFINE X == Seq(Byte)
    <3>1. all \in Seq(X) /\ one \in X /\ Len(all) = n
      BY <1>6, <1>7
    <3> HIDE DEF X, n
    <3>2. /\ Append(all, one) \in Seq(X) /\ Len(Append(all, one)) = n + 1
          /\ \A k \in 1..(n + 1) : Append(all, one)[k] = IF k = n + 1 THEN one ELSE all[k]
      BY ONLY <3>1
    <3> QED BY <3>2 DEF X, n
  <2>10. \A k \in 1..(n + 1) : new[k] = Append(all, one)[k]
    BY <2>6, <2>7, <2>9
  <2>11. new = Append(all, one)
    <3> DEFINE t == Append(all, one)
               X == Seq(Byte)
    <3>1. new \in Seq(X) /\ t \in Seq(X) /\ Len(new) = Len(t) /\ \A k \in 1..Len(new) : new[k] = t[k]
      BY <2>8, <2>9, <2>10
    <3> HIDE DEF t, X
    <3>2. new = t
      BY ONLY <3>1, SameElements
    <3> QED BY <3>2 DEF t
  <2> QED BY <2>11 DEF new
<1>12. cncx' = FlattenSeq(Append(all, one))
  BY <1>2, <1>6, <1>7, <1>9, FlattenAppend
<1> HIDE DEF all, one
<1>13. Len(idxt') - Len(entries') = before
  BY <1>1, <1>2, <1>10
<1>14. ASSUME NEW k \in 1..(n + 1)
       PROVE  /\ labels'[k].at = (k - 1) * c /\ labels'[k].title = entries'[k].title
              /\ idxt'[before + k] = (IndxHeaderLen + PlaceIn(Append(all, one), k)) % Word
  <2>1. CASE k = n + 1
    <3>1. labels'[k] = label /\ entries'[k] = e
      BY <1>1, <1>2, <1>9, <2>1
    <3>2. before + k = Len(idxt) + 1 /\ Len(idxt) \in Nat
      BY <1>1, <1>2, <2>1
    <3>3. idxt'[before + k] = offset
      BY <1>1, <1>8, <1>9, <3>2
    <3>4. PlaceIn(Append(all, one), k) = Len(cncx)
      BY <1>2, <1>6, <1>7, <2>1, PlacesKept
    <3>5. k - 1 = n
      BY <1>2, <2>1
    <3> QED BY <1>5, <1>8, <3>1, <3>3, <3>4, <3>5
  <2>2. CASE k \in 1..n
    <3>1. labels'[k] = labels[k] /\ entries'[k] = entries[k]
      BY <1>1, <1>2, <1>9, <2>2
    <3>2. before + k \in 1..Len(idxt)
      BY <1>1, <1>2, <2>2
    <3>3. idxt'[before + k] = idxt[before + k]
      BY <1>1, <1>8, <1>9, <3>2
    <3>4. PlaceIn(Append(all, one), k) = PlaceIn(all, k)
      BY <1>6, <1>7, <2>2, PlacesKept
    <3> QED BY <1>2, <2>2, <3>1, <3>3, <3>4
  <2> QED BY <1>2, <2>1, <2>2
<1>15. Buffers'
  <2> DEFINE c1 == (Len(vwiEncInt(TitleLen)) + TitleLen)'
  <2>1. c1 = c
    BY DEF c
  <2>2. PlaceIn(AllEntries, 1)' = PlaceIn(AllEntries', 1)
    OBVIOUS
  <2> QED BY <1>2, <1>10, <1>11, <1>12, <1>13, <1>14 DEF Buffers, c, PlaceIn
<1> QED BY <1>10, <1>13, <1>15
(* What is left of the place of an entry when it has been through the      *)
(* uint16: the place, or one at least a Word before it.                    *)
LEMMA PlaceAgain ==
  ASSUME NEW s \in Nat, NEW u, u = (((IndxHeaderLen + s) % Word) - IndxHeaderLen) % Word
  PROVE  u \in Nat /\ (u = s \/ u + Word <= s) /\ (s < Word => u = s)
<1>0. Word \in Nat /\ Word > 0 /\ IndxHeaderLen \in Nat
  BY WordAssumption DEF IndxHeaderLen
<1> DEFINE x == IndxHeaderLen + s
           t == x % Word
           p == x \div Word
           y == t - IndxHeaderLen
           q == y \div Word
<1>1. x \in Nat
  BY <1>0
<1> HIDE DEF x
<1>2. p \in Nat /\ t \in 0..(Word - 1) /\ x = Word * p + t
  BY <1>0, <1>1, Division
<1> HIDE DEF t, p
<1>3. y \in Int
  BY <1>0, <1>2
<1>4. u = y % Word
  BY DEF x, t
<1> HIDE DEF y
<1>5. q \in Int /\ u \in 0..(Word - 1) /\ y = Word * q + u
  BY <1>0, <1>3, <1>4
<1> HIDE DEF q
<1> DEFINE m == p + q
<1>6. m \in Int /\ s = Word * m + u
  <2>1. s = (Word * p + t) - IndxHeaderLen
    BY <1>0, <1>2 DEF x
  <2>2. Word * p \in Int /\ Word * q \in Int /\ Word * m = Word * p + Word * q
    BY <1>0, <1>2, <1>5
  <2> QED BY <1>0, <1>2, <1>5, <2>1, <2>2 DEF y
<1> HIDE DEF m
<1>7. m >= 0
  <2>1. SUFFICES ASSUME m <= -1 PROVE FALSE
    BY <1>6
  <2>2. Word * m <= Word * (-1)
    BY <1>0, <1>6, <2>1
  <2> QED BY <1>0, <1>5, <1>6, <2>2
<1>8. CASE m = 0
  <2>1. s = u
    BY <1>0, <1>5, <1>6, <1>8
  <2> QED BY <1>5, <2>1
<1>9. CASE m >= 1
  <2>1. Word * m >= Word * 1
    BY <1>0, <1>6, <1>9
  <2> QED BY <1>0, <1>5, <1>6, <2>1
<1> QED BY <1>6, <1>7, <1>8, <1>9

(* writer_indx.go:37-42: the label of the last entry, or of whatever lies  *)
(* where its offset has wrapped to, is cut out of the buffer itself.       *)
LEMMA LastLabelType ==
  ASSUME IndexTypeOK, Buffers, entries # <<>>
  PROVE  LastLabel \in Seq(Byte)
<1> DEFINE n == Len(entries)
           all == AllEntries
           s == PlaceIn(all, n)
           at == (Last(idxt) - IndxHeaderLen) % Word
           len == (cncx[at + 1] + 1) % 256
           label == Label(entries[n].label)
           control == controlByte(EntryTags(entries[n].kind))
           values == ValueBytes(EntryValues(entries[n], labels[n].at))
<1>1. /\ entries \in Seq(EntryType) /\ labels \in Seq([at : Nat, title : NodeType])
      /\ idxt \in Seq(0..(Word - 1)) /\ cncx \in Seq(Byte)
  BY DEF IndexTypeOK, TypeOK
<1>2. n \in Nat /\ n >= 1 /\ DOMAIN entries = 1..n
  BY <1>1
<1>3. /\ Len(labels) = n /\ Len(idxt) - n \in Nat /\ cncx = FlattenSeq(all)
      /\ idxt[Len(idxt) - n + n] = (IndxHeaderLen + s) % Word
  BY <1>2 DEF Buffers
<1>4. /\ all \in Seq(Seq(Byte)) /\ Len(all) = n /\ EntryIs(all[n], label, control, values)
  BY <1>1, <1>2, <1>3, AllEntriesType
<1>5. label \in Seq(Byte) /\ Len(label) \in Nat /\ values \in Seq(Byte) /\ Len(values) \in Nat
  <2>1. entries[n] \in EntryType /\ labels[n].at \in Nat
    <3> DEFINE R == [at : Nat, title : NodeType]
    <3>1. \A l \in R : l.at \in Nat
      OBVIOUS
    <3> HIDE DEF R
    <3>2. labels \in Seq(R) /\ Len(labels) = n
      BY <1>1, <1>3 DEF R
    <3>3. labels[n] \in R
      BY ONLY <1>2, <3>2
    <3> QED BY <1>1, <1>2, <3>1, <3>3
  <2>2. label \in Seq(Byte) /\ Len(label) \in Nat
    BY <2>1, LabelType DEF EntryType
  <2>3. values \in Seq(Byte)
    BY <2>1, ValuesType, ValueBytesType
  <2> HIDE DEF values
  <2> QED BY <2>2, <2>3
<1> HIDE DEF all, label, control, values, n
<1>6. s \in Nat /\ Len(cncx) = s + Len(all[n]) /\ \A j \in 1..Len(all[n]) : cncx[s + j] = all[n][j]
  <2> DEFINE m == n - 1
             last == all[n]
  <2>1. s = Before(all, m)
    BY DEF PlaceIn, Before, FlatPrefix
  <2>2. n \in 1..Len(all) /\ Len(all) = n /\ all \in Seq(Seq(Byte))
    BY <1>2, <1>4
  <2>3. m = n - 1 /\ last = all[n]
    OBVIOUS
  <2> HIDE DEF s, m, last
  <2>4. PartAt(all, n, s, last)
    BY ONLY <2>1, <2>2, <2>3, NextPart, ZenonT(40)
  <2>5. Len(cncx) = Before(all, n)
    BY ONLY <1>3, <2>2, AllParts, ZenonT(40)
  <2>6. s \in Nat /\ Before(all, n) = s + Len(last) /\ \A j \in 1..Len(last) : cncx[s + j] = last[j]
    BY ONLY <1>3, <2>4 DEF PartAt
  <2> QED BY ONLY <2>3, <2>5, <2>6
<1> HIDE DEF s
<1>7. at \in Nat /\ (at = s \/ at + Word <= s)
  <2>1. Len(idxt) - n + n = Len(idxt) /\ Len(idxt) \in Nat
    BY <1>1, <1>2
  <2>2. Last(idxt) = (IndxHeaderLen + s) % Word
    BY <1>3, <2>1 DEF Last
  <2>3. at = (((IndxHeaderLen + s) % Word) - IndxHeaderLen) % Word
    BY <2>2
  <2> HIDE DEF at
  <2> QED BY <1>6, <2>3, PlaceAgain
<1> HIDE DEF at
<1>8. Len(all[n]) = Len(label) + 2 + Len(values) /\ all[n][1] = Len(label) % 256
  BY <1>4 DEF EntryIs
<1>9. at + 1 \in 1..Len(cncx) /\ cncx[at + 1] \in Byte
  <2>1. at + 1 \in 1..Len(cncx)
    BY <1>5, <1>6, <1>7, <1>8, WordAssumption, SMTT(30)
  <2> QED BY <1>1, <2>1
<1> DEFINE b == cncx[at + 1]
<1>10. len \in 0..255 /\ len <= b + 1
  <2>1. b \in 0..255
    BY <1>9 DEF Byte
  <2> HIDE DEF b
  <2>2. (b + 1) % 256 \in 0..255 /\ (b + 1) % 256 <= b + 1
    BY <2>1
  <2> QED BY <2>2 DEF b
<1>11. at + len <= Len(cncx)
  <2>1. CASE at = s
    <3>1. b = Len(label) % 256
      <4>1. 1 \in 1..Len(all[n])
        BY <1>5, <1>8
      <4> QED BY <1>6, <1>8, <2>1, <4>1
    <3>2. b <= Len(label)
      <4> DEFINE m == Len(label)
      <4>1. m \in Nat
        BY <1>5
      <4> HIDE DEF m
      <4>2. m % 256 <= m
        BY <4>1
      <4> QED BY <3>1, <4>2 DEF m
    <3>3. b \in Nat
      <4>1. b \in Byte
        BY <1>9
      <4>2. \A c \in Byte : c \in Nat
        BY DEF Byte
      <4> HIDE DEF b
      <4> QED BY <4>1, <4>2
    <3> HIDE DEF len, b
    <3> QED BY <1>5, <1>6, <1>8, <1>10, <2>1, <3>2, <3>3
  <2>2. CASE at + Word <= s
    <3> HIDE DEF len, b
    <3> QED BY <1>5, <1>6, <1>7, <1>8, <1>10, <2>2, WordAssumption
  <2> QED BY <1>7, <2>1, <2>2
<1>12. LastLabel = SubSeq(cncx, at + 1, at + len)
  BY DEF LastLabel, at
<1> HIDE DEF len
<1>13. SubSeq(cncx, at + 1, at + len) \in Seq(Byte)
  <2>1. \A i \in (at + 1)..(at + len) : cncx[i] \in Byte
    BY <1>1, <1>7, <1>10, <1>11
  <2> QED BY <1>1, <1>7, <1>10, <1>11, <2>1
<1> QED BY <1>12, <1>13
-----------------------------------------------------------------------------
(* The file and its reader.                                                *)

RecordsOf(deep, count) == indx1 = INDX1(deep, count) /\ indx2 = INDX2

LEMMA RecordsType ==
  ASSUME IndexTypeOK, Buffers, entries # <<>>, NEW deep \in BOOLEAN, NEW count \in Nat
  PROVE  /\ \E offset : FirstIs(INDX1(deep, count), deep, offset)
         /\ SecondIs(INDX2) /\ INDX1(deep, count) \in Seq(Byte) /\ INDX2 \in Seq(Byte)
<1>1. idxt \in Seq(0..(Word - 1)) /\ cncx \in Seq(Byte)
  BY DEF IndexTypeOK
<1>2. LastLabel \in Seq(Byte)
  BY LastLabelType
<1>3. PICK offset : FirstIs(INDX1(deep, count), deep, offset)
  BY <1>1, <1>2, FirstShape
<1>4. SecondIs(INDX2)
  BY <1>1, SecondShape
<1>5. INDX1(deep, count) \in Seq(Byte)
  BY <1>3 DEF FirstIs
<1>6. INDX2 \in Seq(Byte)
  BY <1>4 DEF SecondIs
<1> QED BY <1>3, <1>4, <1>5, <1>6

(* A section of the records ends inside the file. *)
LEMMA SectionsInside ==
  ASSUME IndexTypeOK, Buffers, entries # <<>>, NEW deep \in BOOLEAN, NEW count \in Nat, RecordsOf(deep, count),
         NEW end \in SectionEnds
  PROVE  end \in 1..Len(File) /\ File \in Seq(Byte)
<1> DEFINE tagx == TagX(deep)
           tags == AllTags(deep)
<1>1. PICK offset : FirstIs(indx1, deep, offset)
  BY RecordsType DEF RecordsOf
<1>2. SecondIs(indx2)
  BY RecordsType DEF RecordsOf
<1>3. /\ indx1 \in Seq(Byte) /\ offset \in Nat /\ offset >= 192 + Len(tagx) /\ Len(indx1) = offset + 8
      /\ \A j \in 1..Len(tagx) : indx1[192 + j] = tagx[j]
  BY <1>1 DEF FirstIs
<1>4. /\ indx2 \in Seq(Byte) /\ Len(indx2) >= 196 + Len(cncx) + 2 * Len(idxt)
      /\ Len(cncx) \in Nat /\ Len(idxt) \in Nat
  <2>1. /\ indx2 \in Seq(Byte) /\ Len(indx2) >= 196 + Len(cncx) + 2 * Len(idxt)
    BY <1>2 DEF SecondIs
  <2>2. idxt \in Seq(0..(Word - 1)) /\ cncx \in Seq(Byte)
    BY DEF IndexTypeOK
  <2> QED BY <2>1, <2>2
<1>5. TagxIs(tagx, tags) /\ (Len(tags) = 4 \/ Len(tags) = 7)
  BY TagxShape, TagsType
<1> DEFINE size == (Len(tags) + 1) * 4 + 12
<1>6. size \in {32, 44} /\ size < Uint32 /\ size = Len(tagx)
  <2>1. Len(tagx) = 16 + 4 * Len(tags)
    BY <1>5 DEF TagxIs
  <2> HIDE DEF tagx, tags
  <2>2. size = 32 \/ size = 44
    <3> DEFINE m == Len(tags)
    <3>1. m = 4 \/ m = 7
      BY <1>5
    <3> HIDE DEF m
    <3>2. (m + 1) * 4 + 12 = 32 \/ (m + 1) * 4 + 12 = 44
      BY ONLY <3>1
    <3> QED BY <3>2 DEF m
  <2>3. size = Len(tagx)
    BY <1>5, <2>1
  <2> HIDE DEF size
  <2>4. Uint32 \in Nat /\ Uint32 > 255
    BY Uint32Assumption
  <2>5. size < Uint32
    BY ONLY <2>2, <2>4
  <2> QED BY ONLY <2>2, <2>3, <2>5
<1>7. Field(indx1, 196) = size
  <2> HIDE DEF tagx, tags
  <2>1. \A j \in 1..4 : tagx[4 + j] = BE32(size)[j]
    BY <1>5 DEF TagxIs
  <2> HIDE DEF size
  <2>2. \A j \in 1..4 : indx1[196 + j] = BE32(size)[j]
    <3> TAKE j \in 1..4
    <3>0. Len(tagx) \in {32, 44}
      BY <1>6
    <3>1. 4 + j \in 1..Len(tagx) /\ 192 + (4 + j) = 196 + j
      <4> DEFINE m == Len(tagx)
      <4>1. m = 32 \/ m = 44
        BY <3>0
      <4> HIDE DEF m
      <4>2. 4 + j \in 1..m /\ 192 + (4 + j) = 196 + j
        BY ONLY <4>1, j \in 1..4
      <4> QED BY <4>2 DEF m
    <3>2. indx1[192 + (4 + j)] = tagx[4 + j]
      BY <1>3, <3>1
    <3> QED BY <2>1, <3>1, <3>2
  <2>3. 196 + 4 <= Len(indx1) /\ size \in Nat /\ 196 \in Nat
    BY <1>3, <1>6
  <2>4. indx1 \in Seq(Byte) /\ size < Uint32
    BY <1>3, <1>6
  <2> QED BY ONLY <2>2, <2>3, <2>4, FieldWhere
<1> HIDE DEF tagx, tags, size
<1>8. File \in Seq(Byte) /\ Len(File) = Len(indx1) + Len(indx2)
  BY <1>3, <1>4, SMTT(30) DEF File
<1>9. 192 + Field(indx1, 192 + 4) = 192 + size
  <2>1. 192 + 4 = 196
    OBVIOUS
  <2> QED BY <1>7, <2>1
<1>10. end \in {4, 192, 192 + size, Len(indx1) - 4, Len(indx1), Len(indx1) + 192, Len(indx1) + 192 + Len(cncx) + 4,
                Len(indx1) + 192 + Len(cncx) + 4 + 2 * Len(idxt), Len(File)}
  BY <1>9 DEF SectionEnds, EndOfIdxt1, EndOfEntries, EndOfOffsets, IndxHeaderLen
<1>11. end \in 1..Len(File)
  BY <1>3, <1>4, <1>6, <1>8, <1>10
<1> QED BY <1>8, <1>11

LEMMA ParseFacts ==
  ASSUME NEW f
  PROVE  Parse(f).size = Len(f) /\ Parse(f).result \in {"nil", "error", "panic"}
<1> DEFINE ok(r) == r.size = Len(f) /\ r.result \in {"nil", "error", "panic"}
<1>1. \A result \in {"nil", "error", "panic"} : \A es : ok(Found(f, result, es))
  BY DEF Found
<1>2. ASSUME NEW at, NEW tags PROVE ok(IndexRecord(f, at, tags))
  <2> DEFINE es1 == <<>>
  <2>1. \E result \in {"nil", "error", "panic"} : \E es : IndexRecord(f, at, tags) = Found(f, result, es)
    <3> DEFINE idxtOffset == Field(f, at + 20)
               offsets == Offsets(f, at + idxtOffset, Field(f, at + 24))
               len(k) == BytesAt(f, at + offsets[k], 1)[1]
               label(k) == BytesAt(f, at + offsets[k] + 1, len(k))
               data(k) == BytesAt(f, at + offsets[k] + 1 + len(k), DataLen(offsets, idxtOffset, k))
               all == [k \in DOMAIN offsets |-> [label |-> label(k), values |-> parsePtagx(data(k), tags)]]
               stops == \E k \in DOMAIN offsets : DataLen(offsets, idxtOffset, k) = 0
    <3>1. IndexRecord(f, at, tags) = IF stops THEN Found(f, "panic", <<>>) ELSE Found(f, "nil", all)
      BY DEF IndexRecord
    <3> HIDE DEF stops, all
    <3> QED BY <3>1
  <2> QED BY <1>1, <2>1
<1> HIDE DEF ok
<1>3. ok(Parse(f))
  BY <1>1, <1>2 DEF Parse
<1> QED BY <1>3 DEF ok
-----------------------------------------------------------------------------
(* Each step keeps the inductive invariant.                                *)

(* What depends on the buffers and the entries alone. *)
LEMMA SameIndex ==
  ASSUME UNCHANGED <<entries, labels, cncx, idxt>>
  PROVE  /\ Buffers' <=> Buffers
         /\ IsDeep' = IsDeep /\ INDX2' = INDX2
         /\ INDX1(IsDeep, Len(entries))' = INDX1(IsDeep, Len(entries))
<1>1. AllEntries' = AllEntries
  BY DEF AllEntries
<1>2. Buffers' <=> Buffers
  BY <1>1 DEF Buffers, PlaceIn
<1>3. IsDeep' = IsDeep
  BY DEF IsDeep
<1>4. INDX2' = INDX2
  BY DEF INDX2, IndxHeader
<1>5. LastLabel' = LastLabel
  BY DEF LastLabel
<1>6. INDX1(IsDeep, Len(entries))' = INDX1(IsDeep, Len(entries))
  BY <1>3, <1>5 DEF INDX1, TagX
<1> QED BY <1>2, <1>3, <1>4, <1>6

LEMMA IndexInitInd ==
  ASSUME ReaderInit
  PROVE  IndexIndInv
<1>1. /\ Init /\ idxt = <<>> /\ cncx = <<>> /\ labels = <<>> /\ indx1 = <<>> /\ indx2 = <<>> /\ reader = NotRead
  BY DEF ReaderInit, IndexInit
<1>2. TypeOK
  BY <1>1, InitInd DEF IndInv
<1>3. pc = "calls" /\ writes = 0
  BY <1>1 DEF Init
<1>4. IndexTypeOK
  <2> DEFINE R == [at : Nat, title : NodeType]
             W == 0..(Word - 1)
  <2>1. <<>> \in Seq(R) /\ <<>> \in Seq(W) /\ <<>> \in Seq(Byte)
    OBVIOUS
  <2> HIDE DEF R, W
  <2>2. reader.result = "none"
    BY <1>1 DEF NotRead
  <2>3. labels \in Seq(R) /\ idxt \in Seq(W) /\ cncx \in Seq(Byte) /\ indx1 \in Seq(Byte) /\ indx2 \in Seq(Byte)
    BY <1>1, <2>1
  <2> QED BY <1>2, <2>2, <2>3 DEF IndexTypeOK, R, W
<1>5. BuffersInv
  BY <1>3 DEF BuffersInv, Indexed
<1>6. IdxtInv
  BY <1>1, <1>3 DEF IdxtInv
<1>7. RecordsInv
  BY <1>1, <1>3 DEF RecordsInv, Indexed
<1> QED BY <1>4, <1>5, <1>6, <1>7 DEF IndexIndInv

(* A step that leaves the index alone, between two of its own. *)
LEMMA IndexKeptInd ==
  ASSUME IndexIndInv, TypeOK', UNCHANGED indexVars, UNCHANGED reader, reader = NotRead, UNCHANGED <<entries, writes>>,
         \/ pc = "calls" /\ pc' \in {"calls", "html"}
         \/ pc = "html" /\ pc' = "html"
         \/ pc = "headers" /\ pc' \in {"headers", "children"},
         pc' # "calls" => Book' # <<>>
  PROVE  IndexIndInv'
<1>1. /\ idxt' = idxt /\ cncx' = cncx /\ labels' = labels /\ indx1' = indx1 /\ indx2' = indx2 /\ reader' = reader
      /\ entries' = entries /\ writes' = writes
  BY DEF indexVars
<1>2. /\ Buffers' <=> Buffers
      /\ IsDeep' = IsDeep /\ INDX2' = INDX2
      /\ INDX1(IsDeep, Len(entries))' = INDX1(IsDeep, Len(entries))
  BY <1>1, SameIndex
<1>3. IndexTypeOK /\ BuffersInv /\ IdxtInv /\ RecordsInv
  BY DEF IndexIndInv
<1>4. IndexTypeOK'
  BY <1>1, <1>3 DEF IndexTypeOK
<1>5. BuffersInv'
  BY <1>1, <1>2, <1>3 DEF BuffersInv, Indexed
<1>6. IdxtInv'
  BY <1>1, <1>3 DEF IdxtInv
<1>7. RecordsInv'
  <2>1. ASSUME Indexed'
        PROVE  /\ entries' # <<>> /\ indx1' = INDX1(IsDeep, Len(entries))' /\ indx2' = INDX2'
               /\ IsDeep' <=> \E k \in DOMAIN entries' : entries'[k].kind = "child"
    <3>1. Indexed
      BY <1>1, <2>1 DEF Indexed
    <3>2. /\ entries # <<>> /\ indx1 = INDX1(IsDeep, Len(entries)) /\ indx2 = INDX2
          /\ IsDeep <=> \E k \in DOMAIN entries : entries[k].kind = "child"
      BY <1>3, <3>1 DEF RecordsInv
    <3> QED BY <1>1, <1>2, <3>2
  <2> QED BY <1>1, <2>1 DEF RecordsInv
<1> QED BY <1>4, <1>5, <1>6, <1>7 DEF IndexIndInv
LEMMA LastAppended ==
  ASSUME NEW T, NEW s \in Seq(T), NEW e, Append(s, e) \in Seq(T)
  PROVE  e \in T /\ Last(Append(s, e)) = e
<1> DEFINE X == T \cup {e}
           t == Append(s, e)
<1>1. s \in Seq(X) /\ e \in X
  OBVIOUS
<1> HIDE DEF X
<1>2. Len(t) = Len(s) + 1 /\ t[Len(s) + 1] = e /\ Len(s) \in Nat
  BY <1>1
<1> HIDE DEF t
<1>3. t[Len(t)] \in T
  <2>1. t \in Seq(T) /\ Len(t) \in 1..Len(t)
    BY <1>2 DEF t
  <2> QED BY ONLY <2>1
<1> QED BY <1>2, <1>3 DEF Last, t

(* A chapter is appended: the book is not empty. *)
LEMMA AppendNotEmpty ==
  ASSUME TypeOK, NEW ch, AppendChapter(ch)
  PROVE  Book' # <<>>
<1> DEFINE X == ChapterType \cup {ch}
           grown == Append(Book, ch)
<1>1. arrays \in Seq(Seq(X)) /\ live \in DOMAIN arrays /\ ch \in X
  <2>1. Seq(ChapterType) \subseteq Seq(X)
    OBVIOUS
  <2> DEFINE S == Seq(ChapterType)
             T == Seq(X)
  <2>2. arrays \in Seq(S) /\ S \subseteq T /\ live \in DOMAIN arrays /\ ch \in X
    BY <2>1 DEF TypeOK
  <2> HIDE DEF S, T, X
  <2>3. arrays \in Seq(T)
    BY <2>2
  <2> QED BY <2>2, <2>3 DEF T
<1> HIDE DEF X
<1>2. grown \in Seq(X) /\ grown # <<>>
  <2>1. Book \in Seq(X)
    BY <1>1 DEF Book
  <2> DEFINE book == Book
  <2>2. book \in Seq(X) /\ ch \in X
    BY <1>1, <2>1
  <2> HIDE DEF book
  <2>3. Append(book, ch) \in Seq(X) /\ Len(Append(book, ch)) = Len(book) + 1 /\ Len(book) \in Nat
    BY ONLY <2>2
  <2>4. Len(<<>>) = 0
    OBVIOUS
  <2>5. Append(book, ch) # <<>>
    <3> DEFINE t == Append(book, ch)
    <3>1. Len(t) = Len(book) + 1 /\ Len(book) \in Nat
      BY <2>3
    <3> HIDE DEF t
    <3>2. t # <<>>
      BY ONLY <2>4, <3>1
    <3> QED BY <3>2 DEF t
  <2> QED BY <2>3, <2>5 DEF book
<1> HIDE DEF grown
<1>3. Book' = grown
  <2> DEFINE T == Seq(X)
  <2>1. arrays \in Seq(T) /\ grown \in T /\ live \in DOMAIN arrays
    BY <1>1, <1>2
  <2> HIDE DEF T
  <2>2. CASE arrays' = [arrays EXCEPT ![live] = grown] /\ live' = live
    BY <2>1, <2>2 DEF Book
  <2>3. CASE arrays' = Append(arrays, grown) /\ live' = Len(arrays) + 1
    BY <2>1, <2>3 DEF Book
  <2> QED BY <2>2, <2>3 DEF AppendChapter, grown, Book
<1> QED BY <1>2, <1>3

LEMMA StartBuffersInd ==
  ASSUME IndInv, IndInv', IndexIndInv, StartBuffers, UNCHANGED reader, reader = NotRead
  PROVE  IndexIndInv'
<1>1. /\ idxt' = idxt /\ cncx' = <<>> /\ labels' = <<>> /\ indx1' = indx1 /\ indx2' = indx2 /\ reader' = reader
      /\ entries' = <<>> /\ writes' = writes /\ pc = "html" /\ pc' = "headers"
  BY DEF StartBuffers, StartCNCX
<1>2. IndexTypeOK /\ BuffersInv /\ IdxtInv /\ RecordsInv
  BY DEF IndexIndInv
<1>3. IndexTypeOK'
  <2> DEFINE R == [at : Nat, title : NodeType]
  <2>1. <<>> \in Seq(R) /\ <<>> \in Seq(Byte)
    OBVIOUS
  <2> HIDE DEF R
  <2>2. labels' \in Seq(R) /\ cncx' \in Seq(Byte)
    BY <1>1, <2>1
  <2>3. TypeOK'
    BY DEF IndInv
  <2> QED BY <1>1, <1>2, <2>2, <2>3 DEF IndexTypeOK, R
<1>4. BuffersInv'
  <2>1. AllEntries' = <<>>
    BY <1>1 DEF AllEntries
  <2>2. cncx' = FlattenSeq(AllEntries')
    BY <1>1, <2>1, FlattenEmpty
  <2>3. Len(idxt') - Len(entries') \in Nat
    BY <1>1, <1>2 DEF IndexTypeOK
  <2>4. Len(labels') = Len(entries') /\ DOMAIN entries' = {}
    BY <1>1
  <2>5. Buffers'
    BY <2>2, <2>3, <2>4 DEF Buffers
  <2> QED BY <2>5 DEF BuffersInv
<1>5. IdxtInv'
  BY <1>1, <1>2 DEF IdxtInv
<1>6. RecordsInv'
  <2>1. Book' = Book
    BY SameChapters DEF StartBuffers, StartCNCX, bookVars
  <2> QED BY <1>1, <1>2, <2>1 DEF RecordsInv, Indexed
<1> QED BY <1>3, <1>4, <1>5, <1>6 DEF IndexIndInv

(* One entry more. *)
LEMMA WriteEntryInd ==
  ASSUME IndexIndInv, IndInv', WriteEntry, UNCHANGED <<reader, arrays, live, writes, pc>>, reader = NotRead,
         pc \in {"headers", "children"}, NEW e, entries' = Append(entries, e)
  PROVE  IndexIndInv'
<1>1. IndexTypeOK /\ BuffersInv /\ IdxtInv /\ RecordsInv
  BY DEF IndexIndInv
<1>2. TypeOK' /\ entries \in Seq(EntryType) /\ entries' \in Seq(EntryType)
  BY <1>1 DEF IndInv, IndexTypeOK, TypeOK
<1>3. e \in EntryType /\ Last(entries') = e
  BY <1>2, LastAppended
<1>4. /\ idxt' = Append(idxt, EntryOffset) /\ cncx' = cncx \o EntryBytes(e, LabelsLen)
      /\ labels' = Append(labels, [at |-> LabelsLen, title |-> e.title]) /\ indx1' = indx1 /\ indx2' = indx2
  BY <1>3 DEF WriteEntry
<1>5. Buffers
  BY <1>1 DEF BuffersInv
<1>6. /\ Buffers' /\ Len(idxt') - Len(entries') = Len(idxt) - Len(entries)
      /\ idxt' \in Seq(0..(Word - 1)) /\ cncx' \in Seq(Byte) /\ labels' \in Seq([at : Nat, title : NodeType])
  BY ONLY <1>1, <1>3, <1>4, <1>5, entries' = Append(entries, e), BuffersGrow
<1>7. IndexTypeOK'
  BY <1>1, <1>2, <1>4, <1>6 DEF IndexTypeOK
<1>8. BuffersInv'
  BY <1>6 DEF BuffersInv
<1>9. IdxtInv'
  <2>1. writes = 0 => Len(idxt) = Len(entries)
    BY <1>1 DEF IdxtInv
  <2>2. Len(idxt) \in Nat /\ Len(entries) \in Nat /\ Len(idxt') \in Nat /\ Len(entries') \in Nat
    BY <1>1, <1>2, <1>6 DEF IndexTypeOK
  <2>3. writes = 0 => Len(idxt') = Len(entries')
    BY <1>6, <2>1, <2>2
  <2> QED BY <2>3 DEF IdxtInv
<1>10. RecordsInv'
  <2>1. Book' = Book
    BY SameChapters
  <2> QED BY <1>1, <2>1 DEF RecordsInv, Indexed
<1> QED BY <1>7, <1>8, <1>9, <1>10 DEF IndexIndInv

(* A book has sub-chapters if its index has a parent, and a child. *)
LEMMA DeepIndex ==
  ASSUME IndInv, pc = "children", next > Len(Children)
  PROVE  /\ chapterIsDeep = IsDeep
         /\ IsDeep <=> \E k \in DOMAIN entries : entries[k].kind = "child"
<1>1. TypeOK
  BY DEF IndInv
<1>2. /\ BookLen = Len(Book) /\ BookLen \in Nat /\ Len(Children) \in Nat /\ DOMAIN Book = 1..BookLen
      /\ Len(entries) = BookLen + Len(Children) /\ DOMAIN entries = 1..Len(entries)
      /\ \A c \in 1..BookLen : Count(c) \in Nat /\ (Count(c) > 0 <=> Book[c].subs # <<>>)
  <2>1. \A c \in 1..BookLen : Count(c) \in Nat /\ Book[c].subs \in Seq(SubType)
    BY <1>1, BookFacts
  <2>2. \A c \in 1..BookLen : Count(c) > 0 <=> Book[c].subs # <<>>
    BY <2>1 DEF Count
  <2> QED BY <1>1, <2>1, <2>2, FinishedIndex, BookFacts
<1>3. \A c \in 1..BookLen : entries[c].kind = IF Count(c) = 0 THEN "single" ELSE "parent"
  BY FinishedIndex DEF EntryOfChapter, Count
<1>4. \A k \in 1..Len(Children) : entries[BookLen + k].kind = "child"
  BY FinishedIndex DEF EntryOfChild
<1> DEFINE deep == \E c \in 1..BookLen : Count(c) > 0
<1>5. chapterIsDeep <=> deep
  BY <1>2 DEF chapterIsDeep
<1>6. ASSUME NEW k \in DOMAIN entries
      PROVE  k \in 1..BookLen \/ (\E j \in 1..Len(Children) : k = BookLen + j)
  <2>1. CASE k <= BookLen
    BY <1>2, <2>1
  <2>2. CASE k > BookLen
    <3>1. k - BookLen \in 1..Len(Children) /\ k = BookLen + (k - BookLen)
      BY <1>2, <2>2
    <3> QED BY <3>1
  <2> QED BY <1>2, <2>1, <2>2
<1>7. IsDeep <=> deep
  <2>1. ASSUME NEW k \in DOMAIN entries, entries[k].kind = "parent" PROVE deep
    <3>1. k \in 1..BookLen
      BY <1>4, <1>6, <2>1
    <3> QED BY <1>2, <1>3, <2>1, <3>1
  <2>2. ASSUME NEW c \in 1..BookLen, Count(c) > 0 PROVE IsDeep
    <3>1. c \in DOMAIN entries
      BY <1>2
    <3>2. entries[c].kind = "parent"
      BY <1>3, <2>2
    <3> QED BY <3>1, <3>2 DEF IsDeep
  <2> QED BY <2>1, <2>2 DEF IsDeep
<1>8. (\E k \in DOMAIN entries : entries[k].kind = "child") <=> deep
  <2>1. ASSUME NEW k \in DOMAIN entries, entries[k].kind = "child" PROVE deep
    <3>1. k \notin 1..BookLen
      BY <1>3, <2>1
    <3>2. PICK j \in 1..Len(Children) : k = BookLen + j
      BY <1>6, <3>1
    <3>3. \E c \in 1..BookLen : \E s \in 1..Count(c) : j = ChildrenBefore(c) + s
      BY <1>1, ChildrenFacts
    <3>4. PICK c \in 1..BookLen : \E s \in 1..Count(c) : TRUE
      BY <3>3
    <3> QED BY <1>2, <3>4
  <2>2. ASSUME NEW c \in 1..BookLen, Count(c) > 0
        PROVE  \E k \in DOMAIN entries : entries[k].kind = "child"
    <3>1. 1 \in 1..Count(c)
      BY <1>2, <2>2
    <3>2. ChildrenBefore(c) + 1 \in 1..Len(Children)
      BY <1>1, <3>1, ChildrenFacts
    <3>3. 1 \in 1..Len(Children)
      BY <1>2, <3>2
    <3>4. BookLen + 1 \in DOMAIN entries
      BY <1>2, <3>3
    <3> QED BY <1>4, <3>3, <3>4
  <2> QED BY <2>1, <2>2
<1>9. chapterIsDeep \in BOOLEAN /\ IsDeep \in BOOLEAN
  BY DEF chapterIsDeep, IsDeep
<1> QED BY <1>5, <1>7, <1>8, <1>9
(* writer.go:155-171: the records are those of the entries. *)
LEMMA MakeRecordsInd ==
  ASSUME IndInv, IndInv', IndexIndInv, MakeRecords, UNCHANGED reader, reader = NotRead
  PROVE  IndexIndInv'
<1>1. /\ pc = "children" /\ next > Len(Children) /\ pc' = "calls" /\ writes' = writes + 1
      /\ idxt' = idxt /\ cncx' = cncx /\ labels' = labels /\ entries' = entries /\ reader' = reader
      /\ indx1' = INDX1(chapterIsDeep, chapterCount) /\ indx2' = INDX2
  BY DEF MakeRecords, Written
<1>2. IndexTypeOK /\ BuffersInv /\ IdxtInv /\ RecordsInv
  BY DEF IndexIndInv
<1>3. Buffers
  BY <1>1, <1>2 DEF BuffersInv
<1>4. /\ BookLen = Len(Book) /\ BookLen \in Nat /\ Len(Children) \in Nat
      /\ Len(entries) = BookLen + Len(Children) /\ chapterCount = Len(entries)
  BY <1>1, FinishedIndex
<1>5. entries # <<>> /\ Len(entries) \in Nat
  <2>1. Book # <<>> /\ Book \in Seq(ChapterType)
    BY <1>1, <1>2, BookFacts DEF RecordsInv, IndInv
  <2>2. Len(Book) > 0
    <3> DEFINE book == Book
    <3>1. book # <<>> /\ book \in Seq(ChapterType)
      BY <2>1
    <3> HIDE DEF book
    <3>2. Len(book) > 0
      BY ONLY <3>1
    <3> QED BY <3>2 DEF book
  <2>3. Len(entries) > 0
    BY <1>4, <2>2
  <2> QED BY <1>4, <2>3
<1>6. /\ chapterIsDeep = IsDeep /\ IsDeep \in BOOLEAN
      /\ IsDeep <=> \E k \in DOMAIN entries : entries[k].kind = "child"
  BY <1>1, DeepIndex DEF IsDeep
<1>7. indx1' = INDX1(IsDeep, Len(entries)) /\ indx1' \in Seq(Byte) /\ indx2' \in Seq(Byte)
  <2>1. PICK deep \in BOOLEAN : deep = IsDeep
    BY <1>6
  <2>2. INDX1(deep, Len(entries)) \in Seq(Byte) /\ INDX2 \in Seq(Byte)
    BY ONLY <1>2, <1>3, <1>5, RecordsType
  <2>3. indx1' = INDX1(deep, Len(entries))
    BY <1>1, <1>4, <1>6, <2>1
  <2> QED BY <1>1, <2>1, <2>2, <2>3
<1>8. IndexTypeOK'
  <2>1. TypeOK'
    BY DEF IndInv
  <2> QED BY <1>1, <1>2, <1>7, <2>1 DEF IndexTypeOK
<1>9. BuffersInv'
  BY <1>1, <1>3, SameIndex DEF BuffersInv
<1>10. IdxtInv'
  <2>1. writes \in Nat
    BY <1>2, BoundsAssumption DEF IndexTypeOK, TypeOK
  <2>2. writes = 0 => Len(idxt) = Len(entries)
    BY <1>1, <1>2 DEF IdxtInv
  <2> QED BY <1>1, <2>1, <2>2 DEF IdxtInv
<1>11. RecordsInv'
  <2>1. INDX1(IsDeep, Len(entries))' = INDX1(IsDeep, Len(entries)) /\ INDX2' = INDX2 /\ IsDeep' = IsDeep
    BY <1>1, SameIndex
  <2> QED BY <1>1, <1>2, <1>5, <1>6, <1>7, <2>1 DEF RecordsInv
<1> QED BY <1>8, <1>9, <1>10, <1>11 DEF IndexIndInv

(* parseIndexRecord, over a beginning of the file. *)
LEMMA ReadIndexInd ==
  ASSUME IndexIndInv, ReadIndex
  PROVE  IndexIndInv'
<1>1. /\ pc = "calls" /\ writes > 0 /\ UNCHANGED <<vars, indexVars>>
      /\ \E end \in SectionEnds : \E size \in {end, end - 1} : reader' = Parse(SubSeq(File, 1, size))
  BY DEF ReadIndex
<1>2. IndexTypeOK /\ BuffersInv /\ IdxtInv /\ RecordsInv
  BY DEF IndexIndInv
<1>3. /\ idxt' = idxt /\ cncx' = cncx /\ labels' = labels /\ indx1' = indx1 /\ indx2' = indx2
      /\ entries' = entries /\ writes' = writes /\ pc' = pc /\ arrays' = arrays /\ live' = live
  BY <1>1 DEF indexVars, vars, bookVars
<1>4. Indexed /\ Buffers
  BY <1>1, <1>2 DEF Indexed, BuffersInv
<1>5. /\ entries # <<>> /\ indx1 = INDX1(IsDeep, Len(entries)) /\ indx2 = INDX2
      /\ IsDeep <=> \E k \in DOMAIN entries : entries[k].kind = "child"
  BY <1>2, <1>4 DEF RecordsInv
<1>6. PICK end \in SectionEnds : \E size \in {end, end - 1} : reader' = Parse(SubSeq(File, 1, size))
  BY <1>1
<1>7. end \in 1..Len(File) /\ File \in Seq(Byte)
  <2>1. IsDeep \in BOOLEAN
    BY DEF IsDeep
  <2>2. PICK deep \in BOOLEAN : deep = IsDeep
    BY <2>1
  <2>3. Len(entries) \in Nat
    BY <1>2 DEF IndexTypeOK, TypeOK
  <2>4. RecordsOf(deep, Len(entries))
    BY <1>5, <2>2 DEF RecordsOf
  <2> QED BY ONLY <1>2, <1>4, <1>5, <1>6, <2>3, <2>4, SectionsInside
<1>8. PICK size \in {end, end - 1} : reader' = Parse(SubSeq(File, 1, size))
  BY <1>6
<1> DEFINE f == SubSeq(File, 1, size)
<1>9. size \in 0..Len(File) /\ Len(f) = size
  BY <1>7
<1>10. reader' = Parse(f) /\ Parse(f).size = Len(f) /\ Parse(f).result \in {"nil", "error", "panic"}
  BY <1>8, ParseFacts
<1> HIDE DEF f
<1>11. reader'.size = size /\ reader'.result \in {"nil", "error", "panic"}
  BY <1>9, <1>10
<1>12. File' = File /\ Parse(SubSeq(File, 1, reader.size))' = Parse(SubSeq(File, 1, reader'.size))
  BY <1>3 DEF File, Parse
<1>13. IndexTypeOK'
  <2>1. TypeOK'
    BY <1>1, <1>2 DEF IndexTypeOK, TypeOK, vars, bookVars
  <2> QED BY <1>2, <1>3, <1>11, <2>1 DEF IndexTypeOK
<1>14. BuffersInv' /\ IdxtInv'
  BY <1>2, <1>3, SameIndex DEF BuffersInv, IdxtInv, Indexed
<1>15. RecordsInv'
  <2>1. INDX1(IsDeep, Len(entries))' = INDX1(IsDeep, Len(entries)) /\ INDX2' = INDX2 /\ IsDeep' = IsDeep
    BY <1>3, SameIndex
  <2>2. reader' = Parse(SubSeq(File, 1, reader'.size))
    BY <1>8, <1>11
  <2>3. Indexed'
    BY <1>3, <1>4 DEF Indexed
  <2> QED BY <1>1, <1>3, <1>5, <1>9, <1>11, <1>12, <2>1, <2>2, <2>3 DEF RecordsInv
<1> QED BY <1>13, <1>14, <1>15 DEF IndexIndInv

(* Nothing happens. *)
LEMMA IndexDoneInd ==
  ASSUME IndexIndInv, UNCHANGED <<vars, indexVars, reader>>
  PROVE  IndexIndInv'
<1>1. IndexTypeOK /\ BuffersInv /\ IdxtInv /\ RecordsInv
  BY DEF IndexIndInv
<1>2. /\ idxt' = idxt /\ cncx' = cncx /\ labels' = labels /\ indx1' = indx1 /\ indx2' = indx2 /\ reader' = reader
      /\ entries' = entries /\ writes' = writes /\ pc' = pc /\ arrays' = arrays /\ live' = live
  BY DEF indexVars, vars, bookVars
<1>3. IndexTypeOK'
  <2>1. TypeOK'
    BY <1>1 DEF IndexTypeOK, TypeOK, vars, bookVars
  <2> QED BY <1>1, <1>2, <2>1 DEF IndexTypeOK
<1>4. BuffersInv' /\ IdxtInv'
  BY <1>1, <1>2, SameIndex DEF BuffersInv, IdxtInv, Indexed
<1>5. RecordsInv'
  <2>1. INDX1(IsDeep, Len(entries))' = INDX1(IsDeep, Len(entries)) /\ INDX2' = INDX2 /\ IsDeep' = IsDeep
    BY <1>2, SameIndex
  <2>2. File' = File /\ Parse(SubSeq(File, 1, reader.size))' = Parse(SubSeq(File, 1, reader.size)) /\ Book' = Book
        /\ (Indexed' <=> Indexed)
    BY <1>2 DEF File, Parse, Book, Indexed
  <2> QED BY <1>1, <1>2, <2>1, <2>2 DEF RecordsInv
<1> QED BY <1>3, <1>4, <1>5 DEF IndexIndInv

LEMMA IndexNextInd ==
  ASSUME IndInv, IndexIndInv, [ReaderNext]_<<vars, indexVars, reader>>
  PROVE  IndInv' /\ IndexIndInv'
<1>1. IndInv'
  <2>1. CASE IndexNext
    BY <2>1, IndexStep, NextInd
  <2>2. CASE UNCHANGED vars
    BY <2>2, DoneInd
  <2> QED BY <2>1, <2>2 DEF ReaderNext, ReadIndex, Done
<1>2. TypeOK' /\ TypeOK /\ HandlesInv
  BY <1>1 DEF IndInv
<1>3. ASSUME reader = NotRead, UNCHANGED reader, Call \/ CreateTOCChapter \/ GenerateHTML \/ StartChildren,
             UNCHANGED indexVars
      PROVE  IndexIndInv'
  <2>1. CASE Call
    <3>1. pc = "calls" /\ pc' = "calls" /\ UNCHANGED <<entries, writes>>
      BY <2>1 DEF Call, NewChapter, AddSubChapter
    <3> QED BY <1>2, <1>3, <3>1, IndexKeptInd
  <2>2. CASE CreateTOCChapter
    <3>1. pc = "calls" /\ pc' = "html" /\ UNCHANGED <<entries, writes>>
          /\ \E ch : AppendChapter(ch)
      BY <2>2 DEF CreateTOCChapter
    <3>2. Book' # <<>>
      BY <1>2, <3>1, AppendNotEmpty
    <3> QED BY <1>2, <1>3, <3>1, <3>2, IndexKeptInd
  <2>3. CASE GenerateHTML
    <3>1. pc = "html" /\ pc' = "html" /\ UNCHANGED <<entries, writes>>
      BY <2>3 DEF GenerateHTML
    <3>2. DOMAIN Book' = DOMAIN Book
      <4>1. PICK nd : nd = Nodes[next]
        OBVIOUS
      <4> QED BY <1>2, <2>3, <4>1, GenerateFacts
    <3>3. Book # <<>> /\ Book \in Seq(ChapterType)
      BY <1>2, <3>1, BookFacts DEF IndexIndInv, RecordsInv
    <3>4. Book' # <<>>
      <4>1. SUFFICES ASSUME Book' = <<>> PROVE FALSE
        OBVIOUS
      <4>2. DOMAIN Book = {}
        BY <3>2, <4>1
      <4> DEFINE book == Book
      <4>3. book # <<>> /\ book \in Seq(ChapterType) /\ DOMAIN book = {}
        BY <3>3, <4>2
      <4> HIDE DEF book
      <4> QED BY ONLY <4>3
    <3> QED BY <1>2, <1>3, <3>1, <3>4, IndexKeptInd
  <2>4. CASE StartChildren
    <3>1. pc = "headers" /\ pc' = "children" /\ UNCHANGED <<entries, writes>> /\ UNCHANGED <<arrays, live>>
      BY <2>4 DEF StartChildren, bookVars
    <3>2. Book' # <<>>
      BY <3>1, SameChapters DEF IndexIndInv, RecordsInv
    <3> QED BY <1>2, <1>3, <3>1, <3>2, IndexKeptInd
  <2> QED BY <1>3, <2>1, <2>2, <2>3, <2>4
<1>4. ASSUME reader = NotRead, UNCHANGED reader, StartBuffers PROVE IndexIndInv'
  BY <1>1, <1>4, StartBuffersInd
<1>5. ASSUME reader = NotRead, UNCHANGED reader, WriteHeaderEntry PROVE IndexIndInv'
  <2>1. /\ pc = "headers" /\ UNCHANGED <<arrays, live, writes, pc>> /\ WriteEntry
        /\ \E e : entries' = Append(entries, e)
    BY <1>5 DEF WriteHeaderEntry, HeaderEntry, bookVars
  <2> QED BY <1>1, <1>5, <2>1, WriteEntryInd
<1>6. ASSUME reader = NotRead, UNCHANGED reader, WriteChildEntry PROVE IndexIndInv'
  <2>1. /\ pc = "children" /\ UNCHANGED <<arrays, live, writes, pc>> /\ WriteEntry
        /\ \E e : entries' = Append(entries, e)
    BY <1>6 DEF WriteChildEntry, ChildEntry, bookVars
  <2> QED BY <1>1, <1>6, <2>1, WriteEntryInd
<1>7. ASSUME reader = NotRead, UNCHANGED reader, MakeRecords PROVE IndexIndInv'
  BY <1>1, <1>7, MakeRecordsInd
<1>8. CASE ReadIndex
  <2>1. IndexIndInv'
    BY <1>8, ReadIndexInd
  <2> QED BY <1>1, <2>1
<1>9. CASE UNCHANGED <<vars, indexVars, reader>>
  <2>1. IndexIndInv'
    BY <1>9, IndexDoneInd
  <2> QED BY <1>1, <2>1
<1> QED BY <1>1, <1>3, <1>4, <1>5, <1>6, <1>7, <1>8, <1>9 DEF ReaderNext, IndexNext, Done

(* The inductive invariant: between any two steps the buffers hold the     *)
(* entries one after another and IDXT the place of each, as far as it goes *)
(* in an uint16; the records are made of them, and what the reader has     *)
(* found is what Parse finds in the file it was given.                     *)
THEOREM IndexInvariance == ReaderSpec => []IndexIndInv
<1>1. ReaderInit => IndInv /\ IndexIndInv
  BY InitInd, IndexInitInd DEF ReaderInit, IndexInit
<1>2. IndInv /\ IndexIndInv /\ [ReaderNext]_<<vars, indexVars, reader>> => (IndInv /\ IndexIndInv)'
  BY IndexNextInd
<1> QED BY <1>1, <1>2, PTL DEF ReaderSpec

(***************************************************************************)
(* What parseIndexRecord makes of the records, cut or whole.               *)
(***************************************************************************)

(* The lowest byte of a number tells the encodings apart. *)
LEMMA LastByte ==
  ASSUME NEW n \in Nat
  PROVE  BE32(n)[4] = n % 256
<1> DEFINE h == n \div Short
           a == (h \div 256) % 256
           b == h % 256
           c == (n \div 256) % 256
           d == n % 256
<1>1. BE32(n) = <<a, b>> \o <<c, d>>
  BY DEF BE32, BE16
<1> HIDE DEF a, b, c, d
<1>2. BE32(n) = <<a, b, c, d>>
  BY <1>1, FourBytes
<1>3. BE32(n)[4] = d
  BY <1>2
<1> QED BY <1>3 DEF d

LEMMA EncodingsDiffer == EncUTF8 # EncUTF16 /\ AllOnes # EncUTF16
<1> DEFINE utf8 == 65001
           utf16 == 65002
<1>1. utf8 % 256 = 233 /\ utf16 % 256 = 234 /\ utf8 \in Nat /\ utf16 \in Nat
  OBVIOUS
<1>2. EncUTF8 = BE32(utf8) /\ EncUTF16 = BE32(utf16)
  BY DEF EncUTF8, EncUTF16
<1> HIDE DEF utf8, utf16
<1>3. EncUTF8[4] = 233 /\ EncUTF16[4] = 234
  BY <1>1, <1>2, LastByte
<1>4. AllOnes[4] = 255
  BY DEF AllOnes
<1> QED BY ONLY <1>3, <1>4

(* A part of the file that the reader knows, and one that is cut. *)
LEMMA FourRead ==
  ASSUME NEW f \in Seq(Byte), NEW at \in Nat, at + 4 <= Len(f), NEW b \in Seq(Byte), Len(b) = 4
  PROVE  (\A j \in 1..4 : f[at + j] = b[j]) => BytesAt(f, at, 4) = b
BY ReadWhere

(* Where only zeros are read, or nothing is left to read. *)
LEMMA ZeroField ==
  ASSUME NEW f \in Seq(Byte), NEW at \in Nat, \A j \in 1..4 : at + j <= Len(f) => f[at + j] = 0
  PROVE  Field(f, at) = 0
<1> DEFINE zeros == <<0, 0, 0, 0>>
<1>1. BE32(0) = zeros
  <2>1. 0 \div Short = 0
    BY ShortIs
  <2>2. 0 \div 256 = 0 /\ 0 % 256 = 0
    OBVIOUS
  <2>3. BE16(0) = <<0, 0>>
    BY <2>2 DEF BE16
  <2>4. BE32(0) = <<0, 0>> \o <<0, 0>>
    BY <2>1, <2>3 DEF BE32
  <2> QED BY <2>4, FourBytes
<1>2. U32(zeros) = 0
  <2>1. 0 \in Nat /\ 0 < Uint32
    BY Uint32Assumption
  <2> HIDE DEF zeros
  <2> QED BY ONLY <1>1, <2>1, NumberBytes
<1>3. BytesAt(f, at, 4) = zeros
  BY DEF BytesAt
<1> HIDE DEF zeros
<1> QED BY <1>2, <1>3 DEF Field

LEMMA MagicCut ==
  ASSUME NEW f \in Seq(Byte), NEW at \in Nat, at + 4 > Len(f), NEW magic, magic[4] # 0
  PROVE  ~MatchMagic(f, at, magic)
<1>1. BytesAt(f, at, 4)[4] = 0
  BY DEF BytesAt
<1> QED BY <1>1 DEF MatchMagic

(* The fields of a header that is whole.                                   *)
HeaderAt(f, at, offset, count, encoding, tagx) ==
  /\ offset \in 0..(Uint32 - 1) /\ count \in 0..(Uint32 - 1) /\ tagx \in 0..(Uint32 - 1)
  /\ encoding \in Seq(Byte) /\ Len(encoding) = 4
  /\ \A j \in 1..4 :
       /\ f[at + 0 + j] = INDX[j] /\ f[at + 20 + j] = BE32(offset)[j] /\ f[at + 24 + j] = BE32(count)[j]
       /\ f[at + 28 + j] = encoding[j] /\ f[at + 48 + j] = 0 /\ f[at + 168 + j] = 0
       /\ f[at + 180 + j] = BE32(tagx)[j]

LEMMA HeaderRead ==
  ASSUME NEW f \in Seq(Byte), NEW at \in Nat, at + 192 <= Len(f), NEW offset, NEW count, NEW encoding, NEW tagx,
         HeaderAt(f, at, offset, count, encoding, tagx)
  PROVE  /\ Field(f, at + 20) = offset /\ Field(f, at + 24) = count
         /\ NoIndexAt(f, at) <=> \/ tagx # 0 /\ TagxError(f, at + tagx)
                                 \/ encoding = EncUTF16
                                 \/ count > 0 /\ ~MatchMagic(f, at + offset, IDXT)
<1>0. /\ offset \in 0..(Uint32 - 1) /\ count \in 0..(Uint32 - 1) /\ tagx \in 0..(Uint32 - 1)
      /\ encoding \in Seq(Byte) /\ Len(encoding) = 4
      /\ \A j \in 1..4 :
           /\ f[at + 0 + j] = INDX[j] /\ f[at + 20 + j] = BE32(offset)[j] /\ f[at + 24 + j] = BE32(count)[j]
           /\ f[at + 28 + j] = encoding[j] /\ f[at + 48 + j] = 0 /\ f[at + 168 + j] = 0
           /\ f[at + 180 + j] = BE32(tagx)[j]
  BY DEF HeaderAt
<1>1. \A x \in 0..(Uint32 - 1) : x \in Nat /\ x < Uint32
  BY Uint32Assumption
<1>3. MatchMagic(f, at, INDX)
  <2>1. INDX \in Seq(Byte) /\ Len(INDX) = 4
    BY DEF INDX, Byte
  <2>2. \A j \in 1..4 : f[at + j] = INDX[j]
    <3>1. at + 0 = at
      OBVIOUS
    <3> QED BY <1>0, <3>1
  <2>3. at + 4 <= Len(f)
    OBVIOUS
  <2> QED BY <2>1, <2>2, <2>3, FourRead DEF MatchMagic
<1>4. Has(f, at, IndxHeaderLen)
  BY DEF Has, IndxHeaderLen
<1>5. Field(f, at + 20) = offset /\ Field(f, at + 24) = count /\ Field(f, at + 180) = tagx
  <2>1. Field(f, at + 20) = offset
    <3>1. at + 20 \in Nat /\ (at + 20) + 4 <= Len(f)
      OBVIOUS
    <3>2. \A j \in 1..4 : f[at + 20 + j] = BE32(offset)[j]
      BY <1>0
    <3>3. offset \in Nat /\ offset < Uint32
      BY ONLY <1>0, <1>1
    <3> QED BY ONLY f \in Seq(Byte), <3>1, <3>2, <3>3, FieldWhere
  <2>2. Field(f, at + 24) = count
    <3>1. at + 24 \in Nat /\ (at + 24) + 4 <= Len(f)
      OBVIOUS
    <3>2. \A j \in 1..4 : f[at + 24 + j] = BE32(count)[j]
      BY <1>0
    <3>3. count \in Nat /\ count < Uint32
      BY ONLY <1>0, <1>1
    <3> QED BY ONLY f \in Seq(Byte), <3>1, <3>2, <3>3, FieldWhere
  <2>3. Field(f, at + 180) = tagx
    <3>1. at + 180 \in Nat /\ (at + 180) + 4 <= Len(f)
      OBVIOUS
    <3>2. \A j \in 1..4 : f[at + 180 + j] = BE32(tagx)[j]
      BY <1>0
    <3>3. tagx \in Nat /\ tagx < Uint32
      BY ONLY <1>0, <1>1
    <3> QED BY ONLY f \in Seq(Byte), <3>1, <3>2, <3>3, FieldWhere
  <2> QED BY <2>1, <2>2, <2>3
<1>6. BytesAt(f, at + 28, 4) = encoding
  <2>1. at + 28 \in Nat /\ (at + 28) + 4 <= Len(f)
    OBVIOUS
  <2>2. encoding \in Seq(Byte) /\ Len(encoding) = 4 /\ \A j \in 1..4 : f[at + 28 + j] = encoding[j]
    BY <1>0
  <2> QED BY ONLY f \in Seq(Byte), <2>1, <2>2, FourRead
<1>7. Field(f, at + 48) = 0 /\ Field(f, at + 168) = 0
  <2>1. \A j \in 1..4 : f[at + 48 + j] = 0 /\ f[at + 168 + j] = 0
    BY <1>0, Zenon
  <2>2. at + 48 \in Nat /\ at + 48 + 4 <= Len(f) /\ at + 168 \in Nat /\ at + 168 + 4 <= Len(f)
    OBVIOUS
  <2> QED BY <2>1, <2>2, ZeroField
<1>8. ~(Field(f, at + 48) > 0) /\ ~(Field(f, at + 168) > 0)
  BY <1>7
<1> QED BY ONLY <1>3, <1>4, <1>5, <1>6, <1>8 DEF NoIndexAt

(* The table of tags. *)
TagsIs(ts, tags) ==
  /\ Len(ts) = Len(tags) + 1
  /\ \A k \in 1..Len(tags) :
       ts[k].Tag = tags[k] /\ ts[k].Bitmask = Bitmask[tags[k]] /\ ts[k].ControlByte = 0
  /\ ts[Len(tags) + 1].ControlByte = 1

(* The length of the table, and the highest bytes of it. *)
LEMMA TagxLength ==
  ASSUME NEW n \in {4, 7}
  PROVE  LET len == (n + 1) * 4 + 12
         IN  /\ len \in {32, 44} /\ len < Uint32 /\ len = 16 + 4 * n /\ (len - 12) \div 4 = n + 1
             /\ \A j \in 1..3 : BE32(len)[j] = 0
<1> DEFINE len == (n + 1) * 4 + 12
<1>1. len \in {32, 44} /\ len = 16 + 4 * n /\ (len - 12) \div 4 = n + 1
  <2>1. CASE n = 4
    BY <2>1
  <2>2. CASE n = 7
    BY <2>2
  <2> QED BY <2>1, <2>2
<1> HIDE DEF len
<1>2. len < Uint32
  BY <1>1, Uint32Assumption
<1>3. \A j \in 1..3 : BE32(len)[j] = 0
  <2>1. len \div Short = 0 /\ (len \div 256) % 256 = 0
    BY <1>1 DEF Short
  <2>2. 0 \div 256 = 0 /\ 0 % 256 = 0
    OBVIOUS
  <2> DEFINE d == len % 256
  <2>3. BE16(len \div Short) = <<0, 0>> /\ BE16(len) = <<0, d>>
    BY <2>1, <2>2 DEF BE16
  <2>4. BE32(len) = <<0, 0>> \o <<0, d>>
    BY <2>3 DEF BE32
  <2> HIDE DEF d
  <2>5. BE32(len) = <<0, 0, 0, d>>
    BY <2>4, FourBytes
  <2> QED BY <2>5
<1> QED BY <1>1, <1>2, <1>3 DEF len

LEMMA TagxWhole ==
  ASSUME NEW f \in Seq(Byte), NEW at \in Nat, NEW tags \in Seq(Byte), Len(tags) \in {4, 7},
         NEW t, TagxIs(t, tags), at + Len(t) <= Len(f), \A j \in 1..Len(t) : f[at + j] = t[j]
  PROVE  ~TagxError(f, at) /\ TagsIs(Tags(f, at), tags)
<1> DEFINE n == Len(tags)
           len == (n + 1) * 4 + 12
<1>1. /\ len \in {32, 44} /\ len < Uint32 /\ len = 16 + 4 * n /\ (len - 12) \div 4 = n + 1 /\ n \in {4, 7}
  BY TagxLength
<1>2. /\ t \in Seq(Byte) /\ Len(t) = 16 + 4 * n
      /\ \A j \in 1..4 : t[0 + j] = TAGX[j] /\ t[4 + j] = BE32(len)[j]
      /\ \A k \in 1..n :
           LET p == 12 + 4 * (k - 1)
           IN  t[p + 1] = tags[k] /\ t[p + 3] = Bitmask[tags[k]] /\ t[p + 4] = 0
      /\ t[12 + 4 * n + 4] = 1
  BY DEF TagxIs
<1> HIDE DEF n, len
<1>3. at + 16 + 4 * n <= Len(f)
  BY <1>1, <1>2
<1>4. \A j \in 1..(16 + 4 * n) : f[at + j] = t[j]
  BY <1>2
<1>5. MatchMagic(f, at, TAGX)
  <2>1. TAGX \in Seq(Byte) /\ Len(TAGX) = 4
    BY DEF TAGX, Byte
  <2>2. \A j \in 1..4 : f[at + j] = TAGX[j]
    <3> TAKE j \in 1..4
    <3>1. j \in 1..(16 + 4 * n) /\ 0 + j = j
      BY <1>1
    <3>2. t[0 + j] = TAGX[j]
      BY <1>2
    <3> QED BY <1>4, <3>1, <3>2
  <2>3. at + 4 <= Len(f)
    BY <1>1, <1>3
  <2> QED BY <2>1, <2>2, <2>3, FourRead DEF MatchMagic
<1>6. Field(f, at + 4) = len
  <2>1. at + 4 \in Nat /\ at + 4 + 4 <= Len(f)
    BY <1>1, <1>3
  <2>2. \A j \in 1..4 : f[at + 4 + j] = BE32(len)[j]
    <3> TAKE j \in 1..4
    <3>1. 4 + j \in 1..(16 + 4 * n) /\ at + (4 + j) = at + 4 + j
      BY <1>1
    <3>2. f[at + (4 + j)] = t[4 + j] /\ t[4 + j] = BE32(len)[j]
      BY <1>2, <1>4, <3>1
    <3> QED BY <3>1, <3>2
  <2>3. len \in Nat /\ len < Uint32
    BY <1>1
  <2> QED BY ONLY f \in Seq(Byte), <2>1, <2>2, <2>3, FieldWhere
<1>7. TagCount(f, at) = n + 1
  BY <1>1, <1>6 DEF TagCount
<1>8. Has(f, at, 12 + 4 * TagCount(f, at))
  <2>1. at + (12 + 4 * (n + 1)) <= Len(f)
    BY <1>1, <1>3
  <2> QED BY <1>7, <2>1 DEF Has
<1>9. ~TagxError(f, at)
  BY <1>1, <1>5, <1>6, <1>8 DEF TagxError
<1> DEFINE tag(k) == BytesAt(f, at + 8 + 4 * k, 4)
           ts == Tags(f, at)
<1>10. ts = [k \in 1..(n + 1) |-> [Tag |-> tag(k)[1], Bitmask |-> tag(k)[3], ControlByte |-> tag(k)[4]]]
  BY <1>7 DEF Tags
<1>11. ASSUME NEW k \in 1..(n + 1), NEW j \in 1..4
       PROVE  tag(k)[j] = t[12 + 4 * (k - 1) + j]
  <2>1. 12 + 4 * (k - 1) + j \in 1..(16 + 4 * n)
        /\ at + (12 + 4 * (k - 1) + j) = at + 8 + 4 * k + j /\ at + 8 + 4 * k + j <= Len(f)
    BY <1>1, <1>3
  <2>2. tag(k)[j] = f[at + 8 + 4 * k + j]
    BY <2>1 DEF BytesAt
  <2> QED BY <1>4, <2>1, <2>2
<1> HIDE DEF tag, ts
<1>12. n \in Nat /\ Len(ts) = n + 1
       /\ \A k \in 1..(n + 1) : /\ ts[k].Tag = tag(k)[1] /\ ts[k].Bitmask = tag(k)[3]
                                /\ ts[k].ControlByte = tag(k)[4]
  BY <1>1, <1>10
<1>13. \A k \in 1..n : ts[k].Tag = tags[k] /\ ts[k].Bitmask = Bitmask[tags[k]] /\ ts[k].ControlByte = 0
  <2> TAKE k \in 1..n
  <2>1. k \in 1..(n + 1)
    BY <1>12
  <2>2. tag(k)[1] = t[12 + 4 * (k - 1) + 1] /\ tag(k)[3] = t[12 + 4 * (k - 1) + 3]
        /\ tag(k)[4] = t[12 + 4 * (k - 1) + 4]
    BY <1>11, <2>1
  <2>3. t[12 + 4 * (k - 1) + 1] = tags[k] /\ t[12 + 4 * (k - 1) + 3] = Bitmask[tags[k]]
        /\ t[12 + 4 * (k - 1) + 4] = 0
    BY <1>2
  <2> QED BY <1>12, <2>1, <2>2, <2>3
<1>14. ts[n + 1].ControlByte = 1
  <2>1. n + 1 \in 1..(n + 1) /\ 12 + 4 * ((n + 1) - 1) + 4 = 12 + 4 * n + 4
    BY <1>12, SMTT(30)
  <2>2. tag(n + 1)[4] = t[12 + 4 * ((n + 1) - 1) + 4]
    BY <1>11, <2>1, SMTT(30)
  <2> QED BY <1>2, <1>12, <2>1, <2>2
<1> QED BY <1>9, <1>12, <1>13, <1>14 DEF TagsIs, n, ts

LEMMA TagxCut ==
  ASSUME NEW f \in Seq(Byte), NEW at \in Nat, NEW tags \in Seq(Byte), Len(tags) \in {4, 7},
         NEW t, TagxIs(t, tags), Len(f) < at + Len(t),
         \A j \in 1..Len(t) : at + j <= Len(f) => f[at + j] = t[j]
  PROVE  TagxError(f, at)
<1> DEFINE n == Len(tags)
           len == (n + 1) * 4 + 12
<1>1. /\ len \in {32, 44} /\ len < Uint32 /\ len = 16 + 4 * n /\ (len - 12) \div 4 = n + 1 /\ n \in {4, 7}
      /\ \A j \in 1..3 : BE32(len)[j] = 0
  BY TagxLength
<1>2. /\ t \in Seq(Byte) /\ Len(t) = 16 + 4 * n /\ \A j \in 1..4 : t[4 + j] = BE32(len)[j]
  BY DEF TagxIs
<1> HIDE DEF n, len
<1>3. CASE Len(f) < at + 4
  <2>1. TAGX[4] # 0
    BY DEF TAGX
  <2> QED BY <1>3, <2>1, MagicCut DEF TagxError
<1>4. ASSUME NEW j \in 1..4, at + 4 + j <= Len(f) PROVE f[at + 4 + j] = BE32(len)[j]
  <2>1. 4 + j \in 1..Len(t) /\ at + (4 + j) = at + 4 + j
    BY <1>1, <1>2
  <2>2. f[at + (4 + j)] = t[4 + j]
    BY <1>4, <2>1
  <2> QED BY <1>2, <2>1, <2>2
<1>5. CASE Len(f) < at + 8
  <2>1. at + 4 \in Nat
    OBVIOUS
  <2>2. \A j \in 1..4 : at + 4 + j <= Len(f) => f[at + 4 + j] = 0
    <3> TAKE j \in 1..4
    <3>1. HAVE at + 4 + j <= Len(f)
    <3>2. j \in 1..3
      BY <1>5, <3>1
    <3> QED BY <1>1, <1>4, <3>1, <3>2
  <2>3. Field(f, at + 4) = 0
    BY <2>1, <2>2, ZeroField
  <2> QED BY <2>3 DEF TagxError
<1>6. CASE at + 8 <= Len(f)
  <2>1. at + 4 \in Nat /\ at + 4 + 4 <= Len(f)
    BY <1>6
  <2>2. \A j \in 1..4 : f[at + 4 + j] = BE32(len)[j]
    BY <1>4, <2>1
  <2>3. len \in Nat /\ len < Uint32
    BY <1>1
  <2>4. Field(f, at + 4) = len
    BY ONLY f \in Seq(Byte), <2>1, <2>2, <2>3, FieldWhere
  <2>5. ~Has(f, at, 12 + 4 * TagCount(f, at))
    BY <1>1, <1>2, <2>4 DEF Has, TagCount
  <2> QED BY <2>5 DEF TagxError
<1> QED BY <1>3, <1>5, <1>6

(* INDX1: whatever is cut off before its IDXT is noticed, and nothing after. *)
LEMMA FirstRead ==
  ASSUME NEW deep \in BOOLEAN, NEW offset, FirstIs(indx1, deep, offset), offset < Uint32, NEW f \in Seq(Byte),
         \A i \in 1..Len(f) : i <= Len(indx1) => f[i] = indx1[i]
  PROVE  /\ NoIndexAt(f, 0) <=> Len(f) < offset + 4
         /\ Len(f) >= offset + 4 => TagsIs(Tags(f, IndxHeaderLen), AllTags(deep))
<1> DEFINE t == TagX(deep)
           tags == AllTags(deep)
           n == Len(t)
           size == Len(f)
<1>1. /\ indx1 \in Seq(Byte) /\ offset \in Nat /\ offset >= 192 + n /\ Len(indx1) = offset + 8
      /\ \A j \in 1..4 :
           /\ indx1[0 + j] = INDX[j] /\ indx1[20 + j] = BE32(offset)[j] /\ indx1[24 + j] = BE32(1)[j]
           /\ indx1[28 + j] = EncUTF8[j] /\ indx1[48 + j] = 0 /\ indx1[168 + j] = 0
           /\ indx1[180 + j] = BE32(192)[j] /\ indx1[offset + j] = IDXT[j]
      /\ \A j \in 1..n : indx1[192 + j] = t[j]
  BY DEF FirstIs
<1>2. /\ tags \in Seq(Byte) /\ Len(tags) \in {4, 7} /\ TagxIs(t, tags) /\ n \in {32, 44}
  <2>1. tags \in Seq(Byte) /\ Len(tags) \in {4, 7} /\ TagxIs(t, tags)
    BY TagsType, TagxShape
  <2>2. n = 16 + 4 * Len(tags)
    BY <2>1 DEF TagxIs
  <2> DEFINE m == Len(tags)
  <2>3. m \in {4, 7} /\ n = 16 + 4 * m
    BY <2>1, <2>2
  <2> HIDE DEF m, n
  <2>4. n \in {32, 44}
    BY ONLY <2>3
  <2> QED BY <2>1, <2>4
<1>3. size \in Nat /\ n \in {32, 44} /\ offset \in Nat /\ offset >= 192 + n /\ offset < Uint32
  BY <1>1, <1>2
<1>4. \A i \in 1..(offset + 8) : i <= size => f[i] = indx1[i]
  BY <1>1
<1>5. f \in Seq(Byte)
  OBVIOUS
<1>6. size = Len(f)
  OBVIOUS
<1>7. t = TagX(deep) /\ n = Len(t) /\ tags = AllTags(deep)
  OBVIOUS
<1> SUFFICES /\ NoIndexAt(f, 0) <=> size < offset + 4
             /\ size >= offset + 4 => TagsIs(Tags(f, IndxHeaderLen), tags)
  OBVIOUS
<1> HIDE DEF t, tags, n, size
<1>8. ASSUME size >= 192 PROVE HeaderAt(f, 0, offset, 1, EncUTF8, 192)
  <2>1. offset \in 0..(Uint32 - 1) /\ 1 \in 0..(Uint32 - 1) /\ 192 \in 0..(Uint32 - 1)
    BY <1>3, Uint32Assumption
  <2>2. EncUTF8 \in Seq(Byte) /\ Len(EncUTF8) = 4
    <3> DEFINE utf8 == 65001
    <3>1. utf8 \in Nat /\ EncUTF8 = BE32(utf8)
      BY DEF EncUTF8
    <3> HIDE DEF utf8
    <3> QED BY ONLY <3>1, FourLong
  <2>3. \A d \in 0..188 : \A j \in 1..4 : f[0 + d + j] = indx1[d + j]
    <3> TAKE d \in 0..188, j \in 1..4
    <3>1. d + j \in 1..(offset + 8) /\ d + j <= size /\ 0 + d + j = d + j
      BY ONLY d \in 0..188, j \in 1..4, <1>3, <1>8
    <3> QED BY ONLY <1>4, <3>1
  <2>4. ASSUME NEW j \in 1..4
        PROVE  /\ f[0 + 0 + j] = INDX[j] /\ f[0 + 20 + j] = BE32(offset)[j] /\ f[0 + 24 + j] = BE32(1)[j]
               /\ f[0 + 28 + j] = EncUTF8[j] /\ f[0 + 48 + j] = 0 /\ f[0 + 168 + j] = 0
               /\ f[0 + 180 + j] = BE32(192)[j]
    <3>1. 0 \in 0..188 /\ 20 \in 0..188 /\ 24 \in 0..188 /\ 28 \in 0..188 /\ 48 \in 0..188 /\ 168 \in 0..188
          /\ 180 \in 0..188
      OBVIOUS
    <3>2. /\ f[0 + 0 + j] = indx1[0 + j] /\ f[0 + 20 + j] = indx1[20 + j] /\ f[0 + 24 + j] = indx1[24 + j]
          /\ f[0 + 28 + j] = indx1[28 + j] /\ f[0 + 48 + j] = indx1[48 + j] /\ f[0 + 168 + j] = indx1[168 + j]
          /\ f[0 + 180 + j] = indx1[180 + j]
      <4>1. \A d \in 0..188 : f[0 + d + j] = indx1[d + j]
        BY ONLY <2>3, j \in 1..4, ZenonT(30)
      <4>2. f[0 + 0 + j] = indx1[0 + j] /\ f[0 + 20 + j] = indx1[20 + j]
        BY ONLY <3>1, <4>1, ZenonT(30)
      <4>3. f[0 + 24 + j] = indx1[24 + j] /\ f[0 + 28 + j] = indx1[28 + j]
        BY ONLY <3>1, <4>1, ZenonT(30)
      <4>4. f[0 + 48 + j] = indx1[48 + j] /\ f[0 + 168 + j] = indx1[168 + j]
        BY ONLY <3>1, <4>1, ZenonT(30)
      <4>5. f[0 + 180 + j] = indx1[180 + j]
        BY ONLY <3>1, <4>1, ZenonT(30)
      <4> QED BY ONLY <4>2, <4>3, <4>4, <4>5
    <3>3. /\ indx1[0 + j] = INDX[j] /\ indx1[20 + j] = BE32(offset)[j] /\ indx1[24 + j] = BE32(1)[j]
          /\ indx1[28 + j] = EncUTF8[j] /\ indx1[48 + j] = 0 /\ indx1[168 + j] = 0
          /\ indx1[180 + j] = BE32(192)[j]
      BY ONLY <1>1, j \in 1..4, ZenonT(60)
    <3> QED BY ONLY <3>2, <3>3, ZenonT(30)
  <2> QED BY ONLY <2>1, <2>2, <2>4, Zenon DEF HeaderAt
<1>9. ASSUME size < 192 PROVE NoIndexAt(f, 0)
  BY <1>9, <1>6 DEF NoIndexAt, Has, IndxHeaderLen
<1>10. ASSUME size >= 192
       PROVE  NoIndexAt(f, 0) <=> TagxError(f, 192) \/ ~MatchMagic(f, offset, IDXT)
  <2> DEFINE start == 0
             one == 1
             where == 192
  <2>0. start \in Nat /\ start + 192 <= Len(f) /\ start + where = 192 /\ start + offset = offset
        /\ where # 0 /\ one > 0
    BY ONLY <1>3, <1>6, <1>10
  <2>1. HeaderAt(f, start, offset, one, EncUTF8, where) /\ start = 0
    BY ONLY <1>8, <1>10
  <2> HIDE DEF start, one, where
  <2>2. NoIndexAt(f, start) <=> \/ where # 0 /\ TagxError(f, start + where)
                                \/ EncUTF8 = EncUTF16
                                \/ one > 0 /\ ~MatchMagic(f, start + offset, IDXT)
    BY ONLY <1>5, <2>0, <2>1, HeaderRead
  <2> QED BY ONLY <2>0, <2>1, <2>2, EncodingsDiffer
<1>11. \A j \in 1..n : 192 + j <= Len(f) => f[192 + j] = t[j]
  <2> TAKE j \in 1..n
  <2>1. 192 + j \in 1..(offset + 8)
    BY ONLY <1>3, j \in 1..n
  <2> QED BY <1>1, <1>4, <1>6, <2>1, ZenonT(60)
<1>12. size < 192 + n \/ size >= 192 + n
  BY ONLY <1>3
<1>13. CASE size < 192 + n
  <2>1. 192 \in Nat /\ Len(f) < 192 + Len(t)
    BY <1>13, <1>6, <1>7
  <2>2. TagxError(f, 192)
    BY ONLY <1>5, <1>2, <1>7, <1>11, <2>1, TagxCut, ZenonT(60)
  <2>3. NoIndexAt(f, 0)
    BY <1>9, <1>10, <1>3, <2>2
  <2>4. size < offset + 4 /\ ~(size >= offset + 4)
    BY ONLY <1>3, <1>13
  <2> QED BY ONLY <2>3, <2>4
<1>14. CASE size >= 192 + n
  <2>1. 192 \in Nat /\ 192 + n <= Len(f) /\ size >= 192
    BY ONLY <1>3, <1>14, <1>6
  <2>2. \A j \in 1..n : f[192 + j] = t[j]
    <3> TAKE j \in 1..n
    <3>1. 192 + j <= Len(f)
      BY ONLY <1>3, <1>6, <1>14, j \in 1..n
    <3> QED BY <1>11, <3>1
  <2>3. ~TagxError(f, 192) /\ TagsIs(Tags(f, 192), tags)
    BY ONLY <1>5, <1>2, <1>7, <2>1, <2>2, TagxWhole
  <2>4. IDXT \in Seq(Byte) /\ Len(IDXT) = 4 /\ IDXT[4] # 0
    BY DEF IDXT, Byte
  <2>5. CASE size < offset + 4
    <3>1. offset + 4 > Len(f) /\ ~(size >= offset + 4)
      BY ONLY <1>3, <1>6, <2>5
    <3>2. ~MatchMagic(f, offset, IDXT)
      BY ONLY <1>5, <1>3, <2>4, <3>1, MagicCut
    <3>3. NoIndexAt(f, 0)
      BY ONLY <1>10, <2>1, <3>2
    <3> QED BY ONLY <2>5, <3>1, <3>3
  <2>6. CASE size >= offset + 4
    <3>1. \A j \in 1..4 : f[offset + j] = IDXT[j]
      <4> TAKE j \in 1..4
      <4>1. offset + j \in 1..(offset + 8) /\ offset + j <= size
        BY ONLY <1>3, <2>6, j \in 1..4
      <4>2. indx1[offset + j] = IDXT[j]
        BY <1>1
      <4> QED BY ONLY <1>4, <4>1, <4>2
    <3>2. offset \in Nat /\ offset + 4 <= Len(f) /\ ~(size < offset + 4)
      BY ONLY <1>3, <1>6, <2>6
    <3>3. BytesAt(f, offset, 4) = IDXT
      BY ONLY <1>5, <2>4, <3>1, <3>2, FourRead
    <3>4. ~NoIndexAt(f, 0)
      BY ONLY <1>10, <2>1, <2>3, <3>3 DEF MatchMagic
    <3>5. IndxHeaderLen = 192
      BY DEF IndxHeaderLen
    <3> QED BY ONLY <2>3, <2>6, <3>2, <3>4, <3>5
  <2>7. size < offset + 4 \/ size >= offset + 4
    BY ONLY <1>3
  <2> QED BY ONLY <2>5, <2>6, <2>7
<1> QED BY ONLY <1>12, <1>13, <1>14
LEMMA ShortRead ==
  ASSUME NEW n \in Nat, n < Short, NEW b \in Seq(Byte), Len(b) = 2, b[1] = BE16(n)[1], b[2] = BE16(n)[2]
  PROVE  U16(b) = n
<1>1. b[1] = (n \div 256) % 256 /\ b[2] = n % 256
  BY ShortBytes
<1>2. n < 65536
  BY DEF Short
<1>3. (n \div 256) % 256 = n \div 256
  BY <1>2
<1>4. n = 256 * (n \div 256) + (n % 256)
  OBVIOUS
<1> DEFINE h == n \div 256
           l == n % 256
<1>5. h \in Nat /\ l \in Nat /\ n = 256 * h + l /\ b[1] = h /\ b[2] = l
  BY <1>1, <1>3, <1>4
<1> HIDE DEF h, l
<1> QED BY <1>5 DEF U16

(* Every offset is a uint16. *)
LEMMA OffsetType ==
  ASSUME idxt \in Seq(0..(Word - 1)), NEW k \in 1..Len(idxt)
  PROVE  idxt[k] \in 0..(Word - 1)
<1> DEFINE S == 0..(Word - 1)
<1>1. idxt \in Seq(S)
  OBVIOUS
<1> HIDE DEF S
<1>2. idxt[k] \in S
  BY ONLY <1>1, k \in 1..Len(idxt)
<1> QED BY <1>2 DEF S

(* A file that has a record at some place, as far as it goes, and what is  *)
(* found of INDX2 there.                                                   *)
Carries(f, at, record) == \A i \in 1..Len(record) : at + i <= Len(f) => f[at + i] = record[i]
SecondFound(f, at) ==
  /\ NoIndexAt(f, at) <=> Len(f) < at + (196 + Len(cncx))
  /\ Len(f) >= at + (196 + Len(cncx)) =>
       /\ Field(f, at + 20) = 192 + Len(cncx) /\ Field(f, at + 24) = Len(idxt)
       /\ Offsets(f, at + (192 + Len(cncx)), Len(idxt)) =
            IF Len(f) >= at + (196 + Len(cncx) + 2 * Len(idxt)) THEN idxt ELSE [k \in 1..Len(idxt) |-> 0]

(* INDX2: what is cut off before its IDXT is noticed; of a table of        *)
(* offsets that is cut nothing is read.                                    *)
LEMMA SecondRead ==
  ASSUME SecondIs(indx2), cncx \in Seq(Byte), idxt \in Seq(0..(Word - 1)),
         192 + Len(cncx) < Uint32, Len(idxt) < Uint32, idxt # <<>>,
         NEW f \in Seq(Byte), NEW at \in Nat, Carries(f, at, indx2)
  PROVE  SecondFound(f, at)
<1> DEFINE n == Len(cncx)
           m == Len(idxt)
           size == Len(f)
           offset == 192 + n
<1>1. /\ indx2 \in Seq(Byte) /\ Len(indx2) >= 196 + n + 2 * m
      /\ \A j \in 1..4 :
           /\ indx2[0 + j] = INDX[j] /\ indx2[20 + j] = BE32(offset)[j] /\ indx2[24 + j] = BE32(m)[j]
           /\ indx2[28 + j] = 255 /\ indx2[48 + j] = 0 /\ indx2[168 + j] = 0 /\ indx2[180 + j] = BE32(0)[j]
           /\ indx2[offset + j] = IDXT[j]
      /\ \A k \in 1..m : \A j \in 1..2 : indx2[196 + n + 2 * (k - 1) + j] = BE16(idxt[k])[j]
  BY DEF SecondIs
<1>2. size \in Nat /\ at \in Nat /\ n \in Nat /\ m \in Nat /\ m > 0 /\ offset = 192 + n /\ offset < Uint32 /\ m < Uint32
      /\ Len(indx2) \in Nat /\ Len(indx2) >= 196 + n + 2 * m
  <2>1. indx2 \in Seq(Byte) /\ Len(indx2) >= 196 + n + 2 * m
    BY <1>1
  <2>2. size \in Nat /\ n \in Nat /\ m \in Nat /\ m > 0 /\ Len(indx2) \in Nat
    BY ONLY <2>1, f \in Seq(Byte), cncx \in Seq(Byte), idxt \in Seq(0..(Word - 1)), idxt # <<>>
  <2>3. offset = 192 + n /\ offset < Uint32 /\ m < Uint32
    OBVIOUS
  <2> HIDE DEF n, m, size, offset
  <2> QED BY <2>1, <2>2, <2>3
<1>3. f \in Seq(Byte) /\ size = Len(f)
  OBVIOUS
<1>4. \A i \in 1..(196 + n + 2 * m) : at + i <= size => f[at + i] = indx2[i]
  <2> TAKE i \in 1..(196 + n + 2 * m)
  <2>1. i \in 1..Len(indx2)
    BY ONLY <1>2, i \in 1..(196 + n + 2 * m)
  <2> QED BY <2>1 DEF Carries
<1>5. \A k \in 1..m : idxt[k] \in Nat /\ idxt[k] < Short
  <2> TAKE k \in 1..m
  <2>1. idxt[k] \in 0..(Word - 1)
    BY OffsetType
  <2>2. Word \in Nat /\ Short \in Nat /\ Word <= Short
    BY WordAssumption, ShortIs
  <2> QED BY ONLY <2>1, <2>2
<1>6. m = Len(idxt) /\ idxt \in Seq(0..(Word - 1))
  OBVIOUS
<1>7. n = Len(cncx)
  OBVIOUS
<1> SUFFICES /\ NoIndexAt(f, at) <=> size < at + (196 + n)
             /\ size >= at + (196 + n) =>
                  /\ Field(f, at + 20) = offset /\ Field(f, at + 24) = m
                  /\ Offsets(f, at + offset, m) =
                       IF size >= at + (196 + n + 2 * m) THEN idxt ELSE [k \in 1..m |-> 0]
  BY DEF SecondFound
<1> HIDE DEF n, m, size, offset
<1>8. ASSUME size >= at + 192 PROVE HeaderAt(f, at, offset, m, AllOnes, 0)
  <2>1. offset \in 0..(Uint32 - 1) /\ m \in 0..(Uint32 - 1) /\ 0 \in 0..(Uint32 - 1)
    BY <1>2, Uint32Assumption
  <2>2. AllOnes \in Seq(Byte) /\ Len(AllOnes) = 4 /\ \A j \in 1..4 : AllOnes[j] = 255
    BY DEF AllOnes, Byte
  <2>3. \A d \in 0..188 : \A j \in 1..4 : f[at + d + j] = indx2[d + j]
    <3> TAKE d \in 0..188, j \in 1..4
    <3>1. d + j \in 1..(196 + n + 2 * m) /\ at + (d + j) <= size /\ at + (d + j) = at + d + j
      BY ONLY d \in 0..188, j \in 1..4, <1>2, <1>8
    <3> QED BY ONLY <1>4, <3>1
  <2>4. ASSUME NEW j \in 1..4
        PROVE  /\ f[at + 0 + j] = INDX[j] /\ f[at + 20 + j] = BE32(offset)[j] /\ f[at + 24 + j] = BE32(m)[j]
               /\ f[at + 28 + j] = AllOnes[j] /\ f[at + 48 + j] = 0 /\ f[at + 168 + j] = 0
               /\ f[at + 180 + j] = BE32(0)[j]
    <3>1. 0 \in 0..188 /\ 20 \in 0..188 /\ 24 \in 0..188 /\ 28 \in 0..188 /\ 48 \in 0..188 /\ 168 \in 0..188
          /\ 180 \in 0..188
      OBVIOUS
    <3>2. /\ f[at + 0 + j] = indx2[0 + j] /\ f[at + 20 + j] = indx2[20 + j] /\ f[at + 24 + j] = indx2[24 + j]
          /\ f[at + 28 + j] = indx2[28 + j] /\ f[at + 48 + j] = indx2[48 + j] /\ f[at + 168 + j] = indx2[168 + j]
          /\ f[at + 180 + j] = indx2[180 + j]
      <4>1. \A d \in 0..188 : f[at + d + j] = indx2[d + j]
        BY ONLY <2>3, j \in 1..4, ZenonT(30)
      <4>2. f[at + 0 + j] = indx2[0 + j] /\ f[at + 20 + j] = indx2[20 + j]
        BY ONLY <3>1, <4>1, ZenonT(30)
      <4>3. f[at + 24 + j] = indx2[24 + j] /\ f[at + 28 + j] = indx2[28 + j]
        BY ONLY <3>1, <4>1, ZenonT(30)
      <4>4. f[at + 48 + j] = indx2[48 + j] /\ f[at + 168 + j] = indx2[168 + j]
        BY ONLY <3>1, <4>1, ZenonT(30)
      <4>5. f[at + 180 + j] = indx2[180 + j]
        BY ONLY <3>1, <4>1, ZenonT(30)
      <4> QED BY ONLY <4>2, <4>3, <4>4, <4>5
    <3>3. /\ indx2[0 + j] = INDX[j] /\ indx2[20 + j] = BE32(offset)[j] /\ indx2[24 + j] = BE32(m)[j]
          /\ indx2[28 + j] = 255 /\ indx2[48 + j] = 0 /\ indx2[168 + j] = 0
          /\ indx2[180 + j] = BE32(0)[j]
      BY ONLY <1>1, j \in 1..4, ZenonT(60)
    <3>4. AllOnes[j] = 255
      BY <2>2
    <3> QED BY ONLY <3>2, <3>3, <3>4, ZenonT(30)
  <2>5. AllOnes \in Seq(Byte) /\ Len(AllOnes) = 4
    BY <2>2
  <2> QED BY ONLY <2>1, <2>5, <2>4, Zenon DEF HeaderAt
<1>9. ASSUME size < at + 192 PROVE NoIndexAt(f, at)
  <2>1. ~(at + 192 <= Len(f))
    BY ONLY <1>2, <1>3, <1>9
  <2> QED BY <2>1 DEF NoIndexAt, Has, IndxHeaderLen
<1>10. ASSUME size >= at + 192
       PROVE  /\ Field(f, at + 20) = offset /\ Field(f, at + 24) = m
              /\ NoIndexAt(f, at) <=> ~MatchMagic(f, at + offset, IDXT)
  <2> DEFINE none == 0
  <2>1. at \in Nat /\ at + 192 <= Len(f) /\ ~(none # 0) /\ m > 0
    BY ONLY <1>2, <1>3, <1>10
  <2>2. HeaderAt(f, at, offset, m, AllOnes, none)
    BY ONLY <1>8, <1>10
  <2> HIDE DEF none
  <2>3. /\ Field(f, at + 20) = offset /\ Field(f, at + 24) = m
        /\ NoIndexAt(f, at) <=> \/ none # 0 /\ TagxError(f, at + none)
                                \/ AllOnes = EncUTF16
                                \/ m > 0 /\ ~MatchMagic(f, at + offset, IDXT)
    BY ONLY <1>3, <2>1, <2>2, HeaderRead
  <2> QED BY ONLY <2>1, <2>3, EncodingsDiffer
<1>11. IDXT \in Seq(Byte) /\ Len(IDXT) = 4 /\ IDXT[4] # 0
  BY DEF IDXT, Byte
<1>12. size < at + (196 + n) \/ size >= at + (196 + n)
  BY ONLY <1>2
<1>13. CASE size < at + (196 + n)
  <2>1. at + offset \in Nat /\ at + offset + 4 > Len(f) /\ ~(size >= at + (196 + n))
    BY ONLY <1>2, <1>3, <1>13
  <2>2. ~MatchMagic(f, at + offset, IDXT)
    BY ONLY <1>3, <1>11, <2>1, MagicCut
  <2>3. size < at + 192 \/ size >= at + 192
    BY ONLY <1>2
  <2>4. NoIndexAt(f, at)
    BY ONLY <1>9, <1>10, <2>2, <2>3
  <2> QED BY ONLY <1>13, <2>1, <2>4
<1>14. CASE size >= at + (196 + n)
  <2>1. at + offset \in Nat /\ at + offset + 4 <= Len(f) /\ ~(size < at + (196 + n)) /\ size >= at + 192
    BY ONLY <1>2, <1>3, <1>14
  <2>2. \A j \in 1..4 : f[at + offset + j] = IDXT[j]
    <3> TAKE j \in 1..4
    <3>1. offset + j \in 1..(196 + n + 2 * m) /\ at + (offset + j) <= size /\ at + (offset + j) = at + offset + j
      BY ONLY <1>2, <1>14, j \in 1..4
    <3>2. indx2[offset + j] = IDXT[j]
      BY <1>1
    <3> QED BY ONLY <1>4, <3>1, <3>2
  <2>3. BytesAt(f, at + offset, 4) = IDXT
    BY ONLY <1>3, <1>11, <2>1, <2>2, FourRead
  <2>4. ~NoIndexAt(f, at) /\ Field(f, at + 20) = offset /\ Field(f, at + 24) = m
    BY ONLY <1>10, <2>1, <2>3 DEF MatchMagic
  <2> DEFINE p == at + offset
  <2>5. Offsets(f, p, m) = [k \in 1..m |-> IF Has(f, p + 4, 2 * m) THEN U16(BytesAt(f, p + 2 + 2 * k, 2)) ELSE 0]
    BY DEF Offsets
  <2>6. p \in Nat /\ p = at + 192 + n
    BY ONLY <1>2
  <2> HIDE DEF p
  <2>7. Has(f, p + 4, 2 * m) <=> size >= at + (196 + n + 2 * m)
    <3>1. (p + 4) + 2 * m <= size <=> size >= at + (196 + n + 2 * m)
      BY ONLY <1>2, <2>6
    <3> QED BY ONLY <1>3, <3>1 DEF Has
  <2>8. ASSUME size >= at + (196 + n + 2 * m) PROVE Offsets(f, p, m) = idxt
    <3>1. ASSUME NEW k \in 1..m PROVE U16(BytesAt(f, p + 2 + 2 * k, 2)) = idxt[k]
      <4> DEFINE a == p + 2 + 2 * k
                 b == BytesAt(f, a, 2)
                 x == idxt[k]
                 q == 196 + n + 2 * (k - 1)
      <4>1. a \in Nat /\ a + 2 <= size /\ a = at + q /\ q \in Nat /\ q + 2 <= 196 + n + 2 * m
        BY ONLY <1>2, <2>6, <2>8, k \in 1..m
      <4>2. x \in Nat /\ x < Short /\ \A j \in 1..2 : indx2[q + j] = BE16(x)[j]
        BY <1>1, <1>5
      <4> HIDE DEF a, x, q
      <4>3. b = [j \in 1..2 |-> IF a + j <= Len(f) THEN f[a + j] ELSE 0]
        BY DEF BytesAt
      <4>4. ASSUME NEW j \in 1..2 PROVE b[j] = BE16(x)[j] /\ b[j] \in Byte
        <5>1. q + j \in 1..(196 + n + 2 * m) /\ at + (q + j) <= size /\ at + (q + j) = a + j
              /\ a + j <= size /\ a + j \in 1..size
          BY ONLY <1>2, <4>1, j \in 1..2
        <5>2. b[j] = f[a + j]
          BY ONLY <1>3, <4>3, <5>1, j \in 1..2
        <5>3. f[a + j] \in Byte
          BY ONLY <1>3, <5>1
        <5> QED BY ONLY <1>4, <4>2, <5>1, <5>2, <5>3, j \in 1..2
      <4>5. b \in Seq(Byte) /\ Len(b) = 2
        <5> HIDE DEF b
        <5>1. b = [j \in 1..2 |-> b[j]] /\ \A j \in 1..2 : b[j] \in Byte
          BY ONLY <4>3, <4>4
        <5> QED BY ONLY <5>1
      <4>6. b[1] = BE16(x)[1] /\ b[2] = BE16(x)[2]
        BY ONLY <4>4
      <4>7. U16(b) = x
        <5> HIDE DEF b
        <5> QED BY ONLY <4>2, <4>5, <4>6, ShortRead
      <4> QED BY ONLY <4>7 DEF a, x
    <3>2. Offsets(f, p, m) = [k \in 1..m |-> idxt[k]]
      BY ONLY <2>5, <2>7, <2>8, <3>1
    <3> QED BY ONLY <1>6, <3>2
  <2>9. ASSUME ~(size >= at + (196 + n + 2 * m)) PROVE Offsets(f, p, m) = [k \in 1..m |-> 0]
    BY ONLY <2>5, <2>7, <2>9
  <2> QED BY ONLY <2>1, <2>4, <2>8, <2>9 DEF p
<1> QED BY ONLY <1>12, <1>13, <1>14
-----------------------------------------------------------------------------
(* A width the code gives the index: positions in the file are an uint32,  *)
(* and an entry can be no longer than an uint16 counts from INDX2 on.      *)
FileFits == Len(File) < Uint32
EntriesFit == \A k \in DOMAIN entries : IndxHeaderLen + Len(AllEntries[k]) < Word

(* The file that a reader has been given, and where its records are.       *)
LEMMA FileRead ==
  ASSUME IndexIndInv, reader # NotRead, FileFits
  PROVE  LET f == SubSeq(File, 1, reader.size)
         IN  /\ Indexed /\ entries # <<>> /\ Buffers /\ idxt # <<>> /\ reader = Parse(f)
             /\ f \in Seq(Byte) /\ Len(f) = reader.size /\ reader.size \in 0..Len(File)
             /\ indx1 \in Seq(Byte) /\ indx2 \in Seq(Byte) /\ Len(indx1) \in Nat /\ EndOfIdxt1 \in Nat
             /\ \A i \in 1..Len(indx2) : Len(indx1) + i <= Len(f) => f[Len(indx1) + i] = indx2[i]
             /\ NoIndexAt(f, 0) <=> reader.size < EndOfIdxt1
             /\ reader.size >= EndOfIdxt1 => TagsIs(Tags(f, IndxHeaderLen), AllTags(IsDeep))
             /\ SecondIs(indx2) /\ 192 + Len(cncx) < Uint32 /\ Len(idxt) < Uint32
             /\ Len(File) >= EndOfOffsets /\ EndOfIdxt1 < Len(indx1)
<1> DEFINE size == reader.size
           f == SubSeq(File, 1, size)
           m1 == Len(indx1)
           m2 == Len(indx2)
           n == Len(cncx)
           m == Len(idxt)
<1>1. /\ Indexed /\ entries # <<>> /\ Buffers /\ IndexTypeOK /\ size \in 0..Len(File) /\ reader = Parse(f)
      /\ indx1 = INDX1(IsDeep, Len(entries)) /\ indx2 = INDX2
  BY DEF IndexIndInv, BuffersInv, RecordsInv
<1>2. IsDeep \in BOOLEAN /\ Len(entries) \in Nat
  <2>1. entries \in Seq(EntryType)
    <3>1. TypeOK
      BY <1>1 DEF IndexTypeOK
    <3> QED BY <3>1 DEF TypeOK
  <2> QED BY <2>1 DEF IsDeep
<1>3. PICK offset : FirstIs(indx1, IsDeep, offset)
  BY <1>1, <1>2, RecordsType
<1>4. SecondIs(indx2)
  BY <1>1, <1>2, RecordsType
<1>5. indx1 \in Seq(Byte) /\ offset \in Nat /\ m1 = offset + 8
  BY <1>3 DEF FirstIs
<1>6. indx2 \in Seq(Byte) /\ m2 >= 196 + n + 2 * m
  BY <1>4 DEF SecondIs
<1>7. idxt \in Seq(0..(Word - 1)) /\ cncx \in Seq(Byte)
  BY <1>1 DEF IndexTypeOK
<1>8. idxt # <<>>
  <2>1. Len(idxt) - Len(entries) \in Nat
    BY <1>1 DEF Buffers
  <2> QED BY <1>1, <1>2, <1>7, <2>1
<1>9. File \in Seq(Byte) /\ Len(File) = m1 + m2 /\ \A i \in 1..m1 : File[i] = indx1[i]
  BY <1>5, <1>6 DEF File
<1>10. \A i \in 1..m2 : File[m1 + i] = indx2[i]
  BY <1>5, <1>6 DEF File
<1>11. m1 \in Nat /\ m2 \in Nat /\ n \in Nat /\ m \in Nat /\ m2 >= 196 + n + 2 * m /\ m1 = offset + 8 /\ offset \in Nat
       /\ size \in 0..(m1 + m2) /\ Len(File) = m1 + m2 /\ m1 + m2 < Uint32 /\ Uint32 \in Nat
  <2>1. m1 \in Nat /\ m2 \in Nat /\ n \in Nat /\ m \in Nat
    BY ONLY <1>5, <1>6, <1>7
  <2> QED BY <1>1, <1>5, <1>6, <1>9, <2>1, Uint32Assumption DEF FileFits
<1>12. f \in Seq(Byte) /\ Len(f) = size /\ \A i \in 1..size : f[i] = File[i]
  BY <1>1, <1>9
<1>13. EndOfIdxt1 = offset + 4 /\ EndOfOffsets = m1 + 196 + n + 2 * m
  <2> HIDE DEF n, m
  <2> QED BY <1>11 DEF EndOfIdxt1, EndOfOffsets, EndOfEntries, IndxHeaderLen, n, m
<1> HIDE DEF size, f, m1, m2, n, m
<1>14. \A i \in 1..m1 : i <= size => f[i] = indx1[i]
  <2> TAKE i \in 1..m1
  <2>1. HAVE i <= size
  <2>2. i \in 1..size
    BY ONLY <1>11, <2>1, i \in 1..m1
  <2> QED BY <1>9, <1>12, <2>2
<1>15. \A i \in 1..m2 : m1 + i <= size => f[m1 + i] = indx2[i]
  <2> TAKE i \in 1..m2
  <2>1. HAVE m1 + i <= size
  <2>2. m1 + i \in 1..size
    BY ONLY <1>11, <2>1, i \in 1..m2
  <2> QED BY <1>10, <1>12, <2>2
<1>16. /\ NoIndexAt(f, 0) <=> size < offset + 4
       /\ size >= offset + 4 => TagsIs(Tags(f, IndxHeaderLen), AllTags(IsDeep))
  <2>1. offset < Uint32 /\ f \in Seq(Byte) /\ Len(f) = size
    BY <1>11, <1>12
  <2>2. \A i \in 1..Len(f) : i <= Len(indx1) => f[i] = indx1[i]
    <3> TAKE i \in 1..Len(f)
    <3>1. HAVE i <= Len(indx1)
    <3>2. i \in 1..m1 /\ i <= size
      BY ONLY <1>11, <2>1, <3>1, i \in 1..Len(f) DEF m1
    <3> QED BY <1>14, <3>2
  <2>3. /\ NoIndexAt(f, 0) <=> Len(f) < offset + 4
        /\ Len(f) >= offset + 4 => TagsIs(Tags(f, IndxHeaderLen), AllTags(IsDeep))
    BY ONLY <1>2, <1>3, <2>1, <2>2, FirstRead
  <2> QED BY ONLY <2>1, <2>3
<1>17. 192 + n < Uint32 /\ m < Uint32 /\ Len(File) >= EndOfOffsets /\ EndOfIdxt1 < m1 /\ EndOfIdxt1 \in Nat
  BY ONLY <1>11, <1>13
<1>18. \A i \in 1..Len(indx2) : Len(indx1) + i <= Len(f) => f[Len(indx1) + i] = indx2[i]
  BY ONLY <1>12, <1>15 DEF m1, m2
<1>19. /\ NoIndexAt(f, 0) <=> size < EndOfIdxt1
       /\ size >= EndOfIdxt1 => TagsIs(Tags(f, IndxHeaderLen), AllTags(IsDeep))
  BY ONLY <1>13, <1>16
<1>20. size \in 0..Len(File) /\ m1 \in Nat
  BY ONLY <1>11
<1>21. f \in Seq(Byte) /\ Len(f) = size
  BY <1>12
<1> QED BY ONLY <1>1, <1>4, <1>5, <1>6, <1>8, <1>17, <1>18, <1>19, <1>20, <1>21 DEF f, size, m1, n, m

LEMMA NotReadIs == NotRead.result = "none"
BY DEF NotRead

LEMMA FoundIs ==
  ASSUME NEW f, NEW result, NEW es
  PROVE  Found(f, result, es).result = result /\ Found(f, result, es).entries = es
BY DEF Found

(* A table that is cut gives offsets of 0, and data that are empty, for    *)
(* all but the last entry.                                                 *)
LEMMA CutTable ==
  ASSUME NEW f, NEW at, NEW tags, NEW offset \in Nat, NEW m \in Nat \ {0}, Field(f, at + 20) = offset,
         Field(f, at + 24) = m, Offsets(f, at + offset, m) = [k \in 1..m |-> 0], m = 1 => offset % Word # 0
  PROVE  /\ m > 1 => IndexRecord(f, at, tags) = Found(f, "panic", <<>>)
         /\ m = 1 => IndexRecord(f, at, tags).result = "nil"
<1> DEFINE offsets == [k \in 1..m |-> 0]
           len(k) == BytesAt(f, at + offsets[k], 1)[1]
           label(k) == BytesAt(f, at + offsets[k] + 1, len(k))
           data(k) == BytesAt(f, at + offsets[k] + 1 + len(k), DataLen(offsets, offset, k))
           all == [k \in DOMAIN offsets |-> [label |-> label(k), values |-> parsePtagx(data(k), tags)]]
           stops == \E k \in DOMAIN offsets : DataLen(offsets, offset, k) = 0
<1>1. IndexRecord(f, at, tags) = IF stops THEN Found(f, "panic", <<>>) ELSE Found(f, "nil", all)
  BY DEF IndexRecord
<1>2. DOMAIN offsets = 1..m /\ Len(offsets) = m /\ \A k \in 1..m : offsets[k] = 0
  OBVIOUS
<1> HIDE DEF offsets
<1>3. ASSUME m > 1 PROVE stops
  <2>1. 1 \in 1..m /\ 1 + 1 \in 1..m /\ 1 < m
    BY <1>3
  <2>2. offsets[1 + 1] = 0 /\ offsets[1] = 0
    BY <1>2, <2>1
  <2>3. DataLen(offsets, offset, 1) = (0 - 0) % Word
    BY <1>2, <2>1, <2>2 DEF DataLen
  <2>4. (0 - 0) % Word = 0
    BY WordAssumption
  <2> QED BY <1>2, <2>1, <2>3, <2>4
<1>4. ASSUME m = 1 PROVE ~stops
  <2>1. \A k \in DOMAIN offsets : k = 1 /\ ~(1 < m)
    BY <1>2, <1>4
  <2>2. offsets[1] = 0
    BY <1>2, <1>4
  <2>3. DataLen(offsets, offset, 1) = (offset - 0) % Word
    BY <1>2, <1>4, <2>2 DEF DataLen
  <2>4. (offset - 0) % Word # 0
    BY <1>4
  <2> QED BY <2>1, <2>3, <2>4
<1> HIDE DEF stops, all
<1> QED BY <1>1, <1>3, <1>4, FoundIs

(* With one entry there is one offset, and INDX2 ends close behind it. *)
LEMMA OneEntry ==
  ASSUME IndexTypeOK, Buffers, entries # <<>>, EntriesFit, Len(idxt) = 1
  PROVE  (192 + Len(cncx)) % Word # 0
<1>1. entries \in Seq(EntryType)
  BY DEF IndexTypeOK, TypeOK
<1>2. Len(idxt) - Len(entries) \in Nat /\ cncx = FlattenSeq(AllEntries)
  BY DEF Buffers
<1>3. Len(entries) = 1
  <2> DEFINE c == Len(entries)
             m == Len(idxt)
  <2>1. c \in Nat /\ c # 0
    BY <1>1
  <2>2. m - c \in Nat /\ m = 1
    BY <1>2
  <2> HIDE DEF c, m
  <2>3. c = 1
    BY ONLY <2>1, <2>2
  <2> QED BY <2>3 DEF c
<1>4. AllEntries = <<AllEntries[1]>> /\ AllEntries \in Seq(Seq(Byte)) /\ 1 \in DOMAIN entries
  <2>1. DOMAIN entries = {1} /\ DOMAIN AllEntries = 1..1
    BY <1>1, <1>3 DEF AllEntries
  <2>2. AllEntries \in Seq(Seq(Byte)) /\ Len(AllEntries) = Len(entries)
    BY <1>1, AllEntriesType DEF IndexTypeOK, Buffers
  <2> QED BY <1>3, <2>1, <2>2
<1>5. cncx = AllEntries[1]
  <2> DEFINE e == AllEntries[1]
             none == <<>>
  <2>0. e \in Seq(Byte) /\ none \in Seq(Seq(Byte))
    <3>1. 1 \in DOMAIN AllEntries
      BY <1>4 DEF AllEntries
    <3>2. e \in Seq(Byte)
      BY ONLY <1>4, <3>1
    <3> QED BY ONLY <3>2
  <2>1. e \in Seq(Byte) /\ none \in Seq(Seq(Byte)) /\ Append(none, e) = <<e>>
    <3> HIDE DEF e
    <3> QED BY <2>0
  <2>2. FlattenSeq(none) = <<>>
    BY FlattenEmpty
  <2> HIDE DEF e, none
  <2>3. FlattenSeq(Append(none, e)) = FlattenSeq(none) \o e
    BY ONLY <2>1, FlattenAppend
  <2>4. FlattenSeq(none) \o e = e
    BY ONLY <2>1, <2>2
  <2> QED BY <1>2, <1>4, <2>1, <2>3, <2>4 DEF e
<1>6. 192 + Len(cncx) < Word
  BY <1>4, <1>5 DEF EntriesFit, IndxHeaderLen
<1>7. Len(cncx) \in Nat
  BY DEF IndexTypeOK
<1>8. Word \in Nat /\ Word > 0
  BY WordAssumption
<1> QED BY ONLY <1>6, <1>7, <1>8

(* What a reader finds in a file that was cut, for every size of every     *)
(* index: the error of parseIndexRecord speaks of INDX1 alone              *)
(* (reader.go:238), and a table of offsets that is cut in two stops        *)
(* parsePtagx (reader.go:218), unless it has one offset only.              *)
THEOREM CutsAreRead == ReaderSpec => [](FileFits /\ EntriesFit => CutsOfIndex)
<1>1. ASSUME IndexIndInv, FileFits, EntriesFit PROVE CutsOfIndex
  <2>1. SUFFICES ASSUME reader.result # "none", reader.size < EndOfOffsets
                 PROVE  /\ reader.result = "error" <=> reader.size < EndOfIdxt1
                        /\ reader.result = "panic" <=> reader.size >= EndOfEntries /\ Len(idxt) > 1
                        /\ reader.size < EndOfEntries => reader.entries = <<>>
    BY DEF CutsOfIndex
  <2> DEFINE size == reader.size
             f == SubSeq(File, 1, size)
             at == Len(indx1)
             n == Len(cncx)
             m == Len(idxt)
             tags == Tags(f, IndxHeaderLen)
  <2>2. reader # NotRead
    BY <2>1, NotReadIs
  <2>3. /\ Indexed /\ entries # <<>> /\ Buffers /\ idxt # <<>> /\ reader = Parse(f)
        /\ f \in Seq(Byte) /\ Len(f) = size /\ size \in 0..Len(File)
        /\ indx1 \in Seq(Byte) /\ indx2 \in Seq(Byte) /\ at \in Nat /\ EndOfIdxt1 \in Nat
        /\ \A i \in 1..Len(indx2) : at + i <= Len(f) => f[at + i] = indx2[i]
        /\ NoIndexAt(f, 0) <=> size < EndOfIdxt1
        /\ SecondIs(indx2) /\ 192 + n < Uint32 /\ m < Uint32
        /\ EndOfIdxt1 < at
    BY <1>1, <2>2, FileRead
  <2>4. cncx \in Seq(Byte) /\ idxt \in Seq(0..(Word - 1)) /\ IndexTypeOK
    BY <1>1 DEF IndexIndInv, IndexTypeOK
  <2>5. n \in Nat /\ m \in Nat \ {0} /\ size \in Nat
    <3>1. n \in Nat /\ m \in Nat \ {0}
      BY ONLY <2>3, <2>4
    <3>2. size \in Nat
      BY ONLY <2>3
    <3> QED BY <3>1, <3>2
  <2>6. /\ NoIndexAt(f, at) <=> Len(f) < at + (196 + n)
        /\ Len(f) >= at + (196 + n) =>
             /\ Field(f, at + 20) = 192 + n /\ Field(f, at + 24) = m
             /\ Offsets(f, at + (192 + n), m) =
                  IF Len(f) >= at + (196 + n + 2 * m) THEN idxt ELSE [k \in 1..m |-> 0]
    <3>1. SecondIs(indx2) /\ 192 + Len(cncx) < Uint32 /\ Len(idxt) < Uint32 /\ idxt # <<>>
      BY <2>3
    <3>2. f \in Seq(Byte) /\ at \in Nat /\ Carries(f, at, indx2)
      BY <2>3 DEF Carries
    <3>3. cncx \in Seq(Byte) /\ idxt \in Seq(0..(Word - 1))
      BY <2>4
    <3> HIDE DEF f, at
    <3>4. SecondFound(f, at)
      BY ONLY <3>1, <3>2, <3>3, SecondRead, ZenonT(30)
    <3> QED BY ONLY <3>4, ZenonT(30) DEF SecondFound, n, m
  <2>7. Parse(f) = IF NoIndexAt(f, 0) THEN Found(f, "error", <<>>)
                   ELSE IF NoIndexAt(f, at) THEN Found(f, "nil", <<>>)
                   ELSE IndexRecord(f, at, tags)
    BY DEF Parse
  <2>8. EndOfEntries = at + 196 + n /\ EndOfOffsets = at + 196 + n + 2 * m
    <3> HIDE DEF at, n, m
    <3> QED BY <2>3, <2>5 DEF EndOfOffsets, EndOfEntries, IndxHeaderLen, at, n, m
  <2>9. m = 1 => (192 + n) % Word # 0
    BY ONLY <1>1, <2>3, <2>4, OneEntry
  <2>10. size < at + 196 + n + 2 * m /\ Len(f) = size /\ at \in Nat
    BY <2>1, <2>3, <2>8
  <2>11. EndOfIdxt1 \in Nat /\ EndOfIdxt1 < at
    BY <2>3
  <2> HIDE DEF size, f, at, n, m, tags
  <2>12. CASE size < EndOfIdxt1
    <3>1. reader = Found(f, "error", <<>>)
      BY <2>3, <2>7, <2>12
    <3>2. reader.result = "error" /\ reader.entries = <<>>
      BY ONLY <3>1, FoundIs
    <3>3. ~(size >= EndOfEntries)
      BY ONLY <2>5, <2>8, <2>10, <2>11, <2>12
    <3> QED BY ONLY <3>2, <3>3, <2>12 DEF size
  <2>13. CASE ~(size < EndOfIdxt1) /\ size < EndOfEntries
    <3>1. Len(f) < at + (196 + n) /\ ~(size >= EndOfEntries)
      BY ONLY <2>5, <2>8, <2>10, <2>13
    <3>2. reader = Found(f, "nil", <<>>)
      BY ONLY <2>3, <2>6, <2>7, <2>13, <3>1
    <3>3. reader.result = "nil" /\ reader.entries = <<>>
      BY ONLY <3>2, FoundIs
    <3> QED BY ONLY <3>1, <3>3, <2>13 DEF size
  <2>14. CASE ~(size < EndOfIdxt1) /\ ~(size < EndOfEntries)
    <3>1. Len(f) >= at + (196 + n) /\ ~(Len(f) < at + (196 + n)) /\ ~(Len(f) >= at + (196 + n + 2 * m))
          /\ size >= EndOfEntries
      BY ONLY <2>5, <2>8, <2>10, <2>14
    <3>2. reader = IndexRecord(f, at, tags)
      BY ONLY <2>3, <2>6, <2>7, <2>14, <3>1
    <3>3. Field(f, at + 20) = 192 + n /\ Field(f, at + 24) = m /\ Offsets(f, at + (192 + n), m) = [k \in 1..m |-> 0]
      BY ONLY <2>6, <3>1
    <3> DEFINE offset == 192 + n
    <3>4. offset \in Nat /\ (m = 1 => offset % Word # 0)
      BY ONLY <2>5, <2>9
    <3>5. Field(f, at + 20) = offset /\ Offsets(f, at + offset, m) = [k \in 1..m |-> 0]
      BY <3>3
    <3> HIDE DEF offset
    <3>6. /\ m > 1 => reader = Found(f, "panic", <<>>)
          /\ m = 1 => reader.result = "nil"
      BY ONLY <2>5, <3>2, <3>3, <3>4, <3>5, CutTable
    <3>7. m > 1 => reader.result = "panic"
      BY ONLY <3>6, FoundIs
    <3>8. m > 1 \/ (m = 1 /\ ~(m > 1))
      BY ONLY <2>5
    <3> QED BY ONLY <2>14, <3>1, <3>6, <3>7, <3>8 DEF size, m
  <2> QED BY <2>12, <2>13, <2>14
<1>2. IndexIndInv => (FileFits /\ EntriesFit => CutsOfIndex)
  BY <1>1
<1> QED BY <1>2, IndexInvariance, PTL

-----------------------------------------------------------------------------
(* What parsePtagx makes of the data of an entry.                          *)

(* What is left of a sequence behind a part of it. *)
Behind(s, a) == SubSeq(s, a + 1, Len(s))
PartIn(s, a, b) == a + Len(b) <= Len(s) /\ \A i \in 1..Len(b) : s[a + i] = b[i]

LEMMA BehindIs ==
  ASSUME NEW X, NEW s \in Seq(X), NEW a \in Nat, a <= Len(s)
  PROVE  /\ Behind(s, a) \in Seq(X) /\ Len(Behind(s, a)) = Len(s) - a
         /\ \A i \in 1..(Len(s) - a) : Behind(s, a)[i] = s[a + i]
<1> DEFINE n == Len(s)
           t == SubSeq(s, a + 1, n)
<1>1. n \in Nat /\ a <= n /\ s \in Seq(X) /\ n = Len(s)
  OBVIOUS
<1> HIDE DEF n
<1>2. \A i \in (a + 1)..n : i \in 1..n
  BY <1>1
<1>3. t \in Seq(X) /\ Len(t) = n - a /\ \A i \in 1..(n - a) : t[i] = s[a + i]
  BY <1>1, <1>2
<1> QED BY <1>3 DEF Behind, n

LEMMA SplitRest ==
  ASSUME NEW s \in Seq(Byte), NEW a \in Nat, NEW b \in Seq(Byte), PartIn(s, a, b)
  PROVE  /\ Behind(s, a) = b \o Behind(s, a + Len(b)) /\ Behind(s, a + Len(b)) \in Seq(Byte)
         /\ Behind(Behind(s, a), Len(b)) = Behind(s, a + Len(b))
<1> DEFINE X == Byte
           c == a + Len(b)
           n == Len(s)
           m == Len(b)
           rest == Behind(s, a)
           after == Behind(s, c)
           t == b \o after
           u == Behind(rest, m)
<1>1. a + m <= n /\ n \in Nat /\ m \in Nat /\ a \in Nat /\ c = a + m /\ c \in Nat
  BY DEF PartIn
<1>2. \A i \in 1..m : s[a + i] = b[i]
  BY DEF PartIn
<1>3. rest \in Seq(X) /\ Len(rest) = n - a /\ \A i \in 1..(n - a) : rest[i] = s[a + i]
  <2>1. a <= Len(s)
    BY <1>1
  <2> QED BY ONLY s \in Seq(Byte), a \in Nat, <2>1, BehindIs
<1>4. after \in Seq(X) /\ Len(after) = n - c /\ \A i \in 1..(n - c) : after[i] = s[c + i]
  BY <1>1, BehindIs
<1>5. t \in Seq(X) /\ Len(t) = m + Len(after) /\ (\A i \in 1..m : t[i] = b[i])
      /\ \A j \in 1..Len(after) : t[m + j] = after[j]
  BY <1>4, ConcatElements
<1>6. u \in Seq(X) /\ Len(u) = Len(rest) - m /\ \A i \in 1..(Len(rest) - m) : u[i] = rest[m + i]
  <2>1. Len(rest) = n - a
    BY <1>3
  <2>2. m <= Len(rest)
    BY ONLY <1>1, <2>1
  <2>3. rest \in Seq(X) /\ m \in Nat
    BY <1>1, <1>3
  <2> HIDE DEF rest, m
  <2> QED BY ONLY <2>2, <2>3, BehindIs
<1> HIDE DEF X, c, n, m, rest, after, t, u
<1>7. t \in Seq(X) /\ rest \in Seq(X) /\ u \in Seq(X) /\ after \in Seq(X)
      /\ Len(t) = n - a /\ Len(rest) = n - a /\ Len(u) = n - c /\ Len(after) = n - c
  <2>1. Len(t) = m + Len(after) /\ Len(rest) = n - a /\ Len(u) = Len(rest) - m /\ Len(after) = n - c
    BY <1>3, <1>4, <1>5, <1>6
  <2>2. Len(t) = n - a /\ Len(u) = n - c
    BY ONLY <1>1, <2>1
  <2> QED BY <1>3, <1>4, <1>5, <1>6, <2>1, <2>2
<1>8. ASSUME NEW i \in 1..(n - a) PROVE rest[i] = t[i]
  <2>1. CASE i <= m
    <3>1. i \in 1..m
      BY ONLY <1>1, <2>1, i \in 1..(n - a)
    <3> QED BY <1>2, <1>3, <1>5, <3>1
  <2>2. CASE ~(i <= m)
    <3>1. i - m \in 1..(n - c) /\ c + (i - m) = a + i /\ m + (i - m) = i
      BY ONLY <1>1, <2>2, i \in 1..(n - a)
    <3>2. t[m + (i - m)] = after[i - m] /\ after[i - m] = s[c + (i - m)]
      BY <1>4, <1>5, <1>7, <3>1
    <3> QED BY <1>3, <3>1, <3>2
  <2> QED BY <2>1, <2>2
<1>9. ASSUME NEW i \in 1..(n - c) PROVE u[i] = after[i]
  <2>1. m + i \in 1..(n - a) /\ a + (m + i) = c + i /\ (n - a) - m = n - c
    BY ONLY <1>1, i \in 1..(n - c)
  <2>2. u[i] = rest[m + i]
    BY <1>6, <1>7, <2>1
  <2> QED BY <1>3, <1>4, <2>1, <2>2
<1>10. rest = t
  BY ONLY <1>7, <1>8, SameElements
<1>11. u = after
  BY ONLY <1>7, <1>9, SameElements
<1> QED BY <1>7, <1>10, <1>11 DEF X, c, rest, after, t, u, m

Announced(data, t) == t.ControlByte # 1 /\ (data[1] \div t.Bitmask) % 2 = 1

(* One step of the loop over the tags. *)
ReadTag(data, t, before) ==
  LET v == vwiDec(before.data)
  IN  IF Announced(data, t)
      THEN [data |-> SubSeq(before.data, v.consumed + 1, Len(before.data)),
            values |-> Append(before.values, <<t.Tag, v.value>>)]
      ELSE before

(* The data behind the control byte start with the values. *)
DataOf(data, values) ==
  /\ data \in Seq(Byte) /\ Len(data) >= 1 + Len(ValueBytes(values))
  /\ \A j \in 1..Len(ValueBytes(values)) : data[1 + j] = ValueBytes(values)[j]

(* What is left of the data behind the first k values. *)
RestOf(data, values, k) == Behind(data, 1 + Before(ValueSeqs(values), k))

LEMMA NextValue ==
  ASSUME NEW values \in Seq(Nat), NEW data, DataOf(data, values), NEW k \in 1..Len(values), values[k] < Uint32,
         NEW i, i = k - 1
  PROVE  LET rest == RestOf(data, values, i)
         IN  /\ vwiDec(rest).value = values[k]
             /\ Behind(rest, vwiDec(rest).consumed) = RestOf(data, values, k)
<1> DEFINE ss == ValueSeqs(values)
           V == ValueBytes(values)
           x == values[k]
           enc == vwiEncInt(x)
           a == 1 + Before(ss, k - 1)
           rest == RestOf(data, values, i)
           after == RestOf(data, values, k)
<1>1. ss \in Seq(Seq(Byte)) /\ Len(ss) = Len(values) /\ V = FlattenSeq(ss) /\ k \in 1..Len(ss)
  BY ValueBytesType DEF ValueBytes
<1>2. ss[k] = enc /\ enc \in Seq(Byte) /\ x \in Nat /\ x < Uint32 /\ Len(enc) \in Nat
  <2>1. ss[k] = enc /\ x \in Nat
    BY DEF ValueSeqs
  <2>2. enc \in Seq(Byte)
    BY <1>1, <2>1
  <2> HIDE DEF enc
  <2> QED BY <2>1, <2>2
<1>3. data \in Seq(Byte) /\ Len(data) >= 1 + Len(V) /\ \A j \in 1..Len(V) : data[1 + j] = V[j]
  BY DEF DataOf
<1>4. rest = Behind(data, a) /\ after = Behind(data, 1 + Before(ss, k))
  BY DEF RestOf
<1> HIDE DEF ss, V, rest, after, enc, x
<1>5. /\ Before(ss, k - 1) \in Nat /\ Before(ss, k) = Before(ss, k - 1) + Len(enc) /\ V \in Seq(Byte)
      /\ \A j \in 1..Len(enc) : Before(ss, k - 1) + j \in 1..Len(V) /\ V[Before(ss, k - 1) + j] = enc[j]
      /\ Before(ss, k) <= Len(V)
  <2>1. Placed(Byte, ss, V)
    BY <1>1, FlattenPlaces
  <2>2. k - 1 \in 0..Len(ss) /\ k \in 0..Len(ss) /\ Len(ss) \in 0..Len(ss) /\ k <= Len(ss)
    BY <1>1
  <2> QED BY <1>1, <1>2, <2>1, <2>2 DEF Placed
<1>6. a \in Nat /\ 1 + Before(ss, k) = a + Len(enc) /\ a + Len(enc) <= Len(data)
  BY <1>2, <1>3, <1>5, SMTT(30)
<1>7. \A j \in 1..Len(enc) : data[a + j] = enc[j]
  <2> TAKE j \in 1..Len(enc)
  <2>1. Before(ss, k - 1) + j \in 1..Len(V) /\ 1 + (Before(ss, k - 1) + j) = a + j
    BY <1>2, <1>5
  <2> QED BY <1>3, <1>5, <2>1
<1> HIDE DEF a
<1>8. PartIn(data, a, enc)
  BY <1>6, <1>7 DEF PartIn
<1>9. rest = enc \o after /\ after \in Seq(Byte) /\ Behind(rest, Len(enc)) = after
  <2> DEFINE c == 1 + Before(ss, k)
  <2>1. c = a + Len(enc) /\ a \in Nat /\ data \in Seq(Byte) /\ enc \in Seq(Byte)
    BY <1>2, <1>3, <1>6
  <2>2. rest = Behind(data, a) /\ after = Behind(data, c)
    BY <1>4
  <2> HIDE DEF c
  <2>3. /\ Behind(data, a) = enc \o Behind(data, a + Len(enc)) /\ Behind(data, a + Len(enc)) \in Seq(Byte)
        /\ Behind(Behind(data, a), Len(enc)) = Behind(data, a + Len(enc))
    BY ONLY <1>8, <2>1, SplitRest
  <2> QED BY ONLY <2>1, <2>2, <2>3
<1>10. vwiDec(enc \o after) = [value |-> x, consumed |-> Len(enc)]
  BY <1>2, <1>9, RoundTrip DEF enc
<1>11. vwiDec(rest).value = x /\ vwiDec(rest).consumed = Len(enc)
  BY <1>9, <1>10
<1> QED BY ONLY <1>9, <1>11 DEF rest, after, x

(* The values of the tags that are announced, one after another: g counts  *)
(* how many of them the first k tags have brought.                         *)
Brings(g, data, tags, values, pairs) ==
  /\ g \in [0..Len(tags) -> 0..Len(values)] /\ g[0] = 0 /\ g[Len(tags)] = Len(values)
  /\ \A k \in 1..Len(tags) :
       /\ Announced(data, tags[k]) => /\ g[k] = g[k - 1] + 1
                                      /\ pairs[g[k]] = <<tags[k].Tag, values[g[k]]>>
       /\ ~Announced(data, tags[k]) => g[k] = g[k - 1]

LEMMA ParseWalk ==
  ASSUME NEW values \in Seq(Nat), \A k \in 1..Len(values) : values[k] < Uint32,
         NEW data, DataOf(data, values), NEW tags, Len(tags) \in Nat,
         NEW S, NEW pairs \in Seq(S), Len(pairs) = Len(values), NEW g, Brings(g, data, tags, values, pairs)
  PROVE  parsePtagx(data, tags) = pairs
<1> DEFINE n == Len(tags)
           m == Len(values)
           base == [data |-> Tail(data), values |-> <<>>]
           state(j) == [data |-> RestOf(data, values, j), values |-> SubSeq(pairs, 1, j)]
           walk(f) == [k \in 0..n |-> IF k = 0 THEN base ELSE ReadTag(data, tags[k], f[k - 1])]
           r == [k \in 0..n |-> state(g[k])]
           read == CHOOSE f : f = walk(f)
<1>1. /\ n \in Nat /\ m \in Nat /\ m = Len(pairs) /\ g \in [0..n -> 0..m] /\ g[0] = 0 /\ g[n] = m
      /\ \A k \in 1..n :
           /\ Announced(data, tags[k]) => g[k] = g[k - 1] + 1 /\ pairs[g[k]] = <<tags[k].Tag, values[g[k]]>>
           /\ ~Announced(data, tags[k]) => g[k] = g[k - 1]
  BY DEF Brings
<1>2. parsePtagx(data, tags) = read[n].values
  BY DEF parsePtagx, ReadTag, Announced
<1>3. base = state(0)
  <2>1. data \in Seq(Byte) /\ Len(data) >= 1
    <3>1. Len(ValueBytes(values)) \in Nat
      BY ValueBytesType
    <3> QED BY <3>1 DEF DataOf
  <2>2. Before(ValueSeqs(values), 0) = 0
    BY ValueBytesType, AllParts
  <2>3. RestOf(data, values, 0) = SubSeq(data, 2, Len(data))
    BY <2>2 DEF RestOf, Behind
  <2>4. Tail(data) = SubSeq(data, 2, Len(data))
    BY <2>1
  <2>5. SubSeq(pairs, 1, 0) = <<>>
    OBVIOUS
  <2> QED BY <2>3, <2>4, <2>5
<1>4. ASSUME NEW k \in 1..n PROVE state(g[k]) = ReadTag(data, tags[k], state(g[k - 1]))
  <2> DEFINE j == g[k - 1]
             before == state(j)
  <2>0. k \in 0..n /\ k - 1 \in 0..n /\ g[k] \in 0..m /\ j \in 0..m
    BY <1>1
  <2>1. CASE Announced(data, tags[k])
    <3>1. g[k] = j + 1 /\ j + 1 \in 1..m /\ (j + 1) - 1 = j /\ j \in Nat
      <4>1. g[k] = j + 1
        BY <1>1, <2>1
      <4> HIDE DEF j, m
      <4> QED BY ONLY <1>1, <2>0, <4>1, SMTT(30)
    <3> DEFINE i == j + 1
    <3>2. /\ vwiDec(RestOf(data, values, j)).value = values[i]
          /\ Behind(RestOf(data, values, j), vwiDec(RestOf(data, values, j)).consumed) = RestOf(data, values, i)
      <4>1. i \in 1..Len(values) /\ j = i - 1
        BY <3>1
      <4>2. values[i] < Uint32
        BY <4>1
      <4> HIDE DEF i, j
      <4> QED BY ONLY values \in Seq(Nat), DataOf(data, values), <4>1, <4>2, NextValue
    <3>3. pairs[j + 1] = <<tags[k].Tag, values[j + 1]>>
      BY <1>1, <2>1, <3>1
    <3>4. Append(SubSeq(pairs, 1, j), pairs[j + 1]) = SubSeq(pairs, 1, j + 1)
      <4> HIDE DEF j, m
      <4> QED BY <1>1, <3>1
    <3>5. before.data = RestOf(data, values, j) /\ before.values = SubSeq(pairs, 1, j)
      OBVIOUS
    <3> HIDE DEF j, before
    <3>6. ReadTag(data, tags[k], before) = [data |-> RestOf(data, values, j + 1), values |-> SubSeq(pairs, 1, j + 1)]
      BY <2>1, <3>2, <3>3, <3>4, <3>5 DEF ReadTag, Behind
    <3> QED BY <3>1, <3>6 DEF j, before
  <2>2. CASE ~Announced(data, tags[k])
    <3>1. g[k] = j
      BY <1>1, <2>2
    <3>2. ReadTag(data, tags[k], before) = before
      BY <2>2 DEF ReadTag
    <3> QED BY <3>1, <3>2
  <2> QED BY <2>1, <2>2
<1> HIDE DEF base, state
<1>5. r[0] = base /\ \A k \in 1..n : r[k] = ReadTag(data, tags[k], r[k - 1])
  <2>1. 0 \in 0..n
    BY <1>1
  <2>2. ASSUME NEW k \in 1..n PROVE r[k] = ReadTag(data, tags[k], r[k - 1])
    <3>1. k \in 0..n /\ k - 1 \in 0..n
      BY <1>1
    <3> QED BY <1>4, <3>1
  <2> QED BY <1>1, <1>3, <2>1, <2>2
<1>6. r = walk(r)
  <2>1. r = [k \in 0..n |-> r[k]]
    OBVIOUS
  <2>2. \A k \in 0..n : r[k] = IF k = 0 THEN base ELSE ReadTag(data, tags[k], r[k - 1])
    <3> TAKE k \in 0..n
    <3>1. k # 0 => k \in 1..n
      BY <1>1
    <3> HIDE DEF r
    <3> QED BY <1>5, <3>1
  <2> HIDE DEF r
  <2> QED BY <2>1, <2>2
<1>7. read = walk(read)
  <2> HIDE DEF walk, r
  <2> QED BY <1>6
<1>8. /\ read[0] = base
      /\ \A k \in 1..n : read[k] = ReadTag(data, tags[k], read[k - 1])
  <2> HIDE DEF read
  <2>1. 0 \in 0..n /\ \A k \in 1..n : k \in 0..n /\ k # 0
    BY <1>1
  <2>2. \A k \in 0..n : read[k] = IF k = 0 THEN base ELSE ReadTag(data, tags[k], read[k - 1])
    BY <1>7
  <2> QED BY <2>1, <2>2
<1> HIDE DEF read, r, walk
<1> DEFINE I == {k \in Nat : k <= n => read[k] = r[k]}
<1>9. 0 \in I
  BY <1>5, <1>8
<1>10. ASSUME NEW k \in Nat, k \in I PROVE k + 1 \in I
  <2>1. SUFFICES ASSUME k + 1 <= n PROVE read[k + 1] = r[k + 1]
    OBVIOUS
  <2>2. k + 1 \in 1..n /\ (k + 1) - 1 = k /\ k <= n
    BY <1>1, <2>1
  <2>3. read[k] = r[k]
    BY <1>10, <2>2
  <2> QED BY <1>5, <1>8, <2>2, <2>3
<1>11. n \in I
  <2> HIDE DEF I
  <2> QED BY <1>1, <1>9, <1>10, Induction
<1>12. read[n] = state(m)
  <2>1. n \in 0..n /\ read[n] = r[n]
    BY <1>1, <1>11
  <2> QED BY <1>1, <2>1 DEF r
<1>13. state(m).values = pairs
  BY <1>1 DEF state
<1> QED BY <1>2, <1>12, <1>13

(* The bits of the control bytes. *)
LEMMA Bits ==
  ASSUME NEW control \in {15, 31, 111}
  PROVE  /\ (control \div 1) % 2 = 1 /\ (control \div 2) % 2 = 1 /\ (control \div 4) % 2 = 1 /\ (control \div 8) % 2 = 1
         /\ (control \div 16) % 2 = 1 <=> control = 31
         /\ (control \div 32) % 2 = 1 <=> control = 111
         /\ (control \div 64) % 2 = 1 <=> control = 111
<1>1. CASE control = 15
  BY <1>1
<1>2. CASE control = 31
  BY <1>2
<1>3. CASE control = 111
  BY <1>3
<1> QED BY <1>1, <1>2, <1>3

(* Which tags of the table a control byte announces. *)
LEMMA TagBits ==
  ASSUME NEW deep \in BOOLEAN, NEW ts, TagsIs(ts, AllTags(deep)), NEW data, NEW control \in {15, 31, 111},
         data[1] = control
  PROVE  /\ Len(ts) = IF deep THEN 8 ELSE 5
         /\ \A k \in 1..4 : ts[k].Tag = k /\ Announced(data, ts[k])
         /\ deep => /\ ts[5].Tag = 21 /\ (Announced(data, ts[5]) <=> control = 31)
                    /\ ts[6].Tag = 22 /\ (Announced(data, ts[6]) <=> control = 111)
                    /\ ts[7].Tag = 23 /\ (Announced(data, ts[7]) <=> control = 111)
                    /\ ~Announced(data, ts[8])
         /\ ~deep => ~Announced(data, ts[5])
<1> DEFINE tags == AllTags(deep)
<1>1. /\ Len(ts) = Len(tags) + 1
      /\ \A k \in 1..Len(tags) :
           ts[k].Tag = tags[k] /\ ts[k].Bitmask = Bitmask[tags[k]] /\ ts[k].ControlByte = 0
      /\ ts[Len(tags) + 1].ControlByte = 1
  BY DEF TagsIs
<1>2. /\ Bitmask[1] = 1 /\ Bitmask[2] = 2 /\ Bitmask[3] = 4 /\ Bitmask[4] = 8
      /\ Bitmask[21] = 16 /\ Bitmask[22] = 32 /\ Bitmask[23] = 64
  BY DEF Bitmask
<1>3. \A t : Announced(data, t) <=> t.ControlByte # 1 /\ (control \div t.Bitmask) % 2 = 1
  BY DEF Announced
<1>4. CASE deep
  <2> DEFINE t == <<1, 2, 3, 4, 21, 22, 23>>
  <2>1. tags = t /\ Len(t) = 7 /\ t[1] = 1 /\ t[2] = 2 /\ t[3] = 3 /\ t[4] = 4 /\ t[5] = 21 /\ t[6] = 22 /\ t[7] = 23
    BY <1>4 DEF AllTags
  <2> HIDE DEF t, tags
  <2>2. Len(tags) = 7 /\ Len(ts) = 8 /\ ts[8].ControlByte = 1
    BY <1>1, <2>1
  <2>3. \A k \in 1..7 : ts[k].Tag = t[k] /\ ts[k].Bitmask = Bitmask[t[k]] /\ ts[k].ControlByte = 0
    BY <1>1, <2>1, <2>2
  <2>4. /\ ts[1].Tag = 1 /\ ts[1].Bitmask = 1 /\ ts[1].ControlByte = 0
        /\ ts[2].Tag = 2 /\ ts[2].Bitmask = 2 /\ ts[2].ControlByte = 0
        /\ ts[3].Tag = 3 /\ ts[3].Bitmask = 4 /\ ts[3].ControlByte = 0
        /\ ts[4].Tag = 4 /\ ts[4].Bitmask = 8 /\ ts[4].ControlByte = 0
        /\ ts[5].Tag = 21 /\ ts[5].Bitmask = 16 /\ ts[5].ControlByte = 0
        /\ ts[6].Tag = 22 /\ ts[6].Bitmask = 32 /\ ts[6].ControlByte = 0
        /\ ts[7].Tag = 23 /\ ts[7].Bitmask = 64 /\ ts[7].ControlByte = 0
    BY <1>2, <2>1, <2>3
  <2>5. /\ Announced(data, ts[1]) /\ Announced(data, ts[2]) /\ Announced(data, ts[3]) /\ Announced(data, ts[4])
        /\ Announced(data, ts[5]) <=> control = 31
        /\ Announced(data, ts[6]) <=> control = 111
        /\ Announced(data, ts[7]) <=> control = 111
        /\ ~Announced(data, ts[8])
    BY <1>3, <2>2, <2>4, Bits
  <2>6. \A k \in 1..4 : k = 1 \/ k = 2 \/ k = 3 \/ k = 4
    OBVIOUS
  <2>7. \A k \in 1..4 : ts[k].Tag = k /\ Announced(data, ts[k])
    BY ONLY <2>4, <2>5, <2>6
  <2> QED BY ONLY <1>4, <2>2, <2>4, <2>5, <2>7
<1>5. CASE ~deep
  <2> DEFINE t == <<1, 2, 3, 4>>
  <2>1. tags = t /\ Len(t) = 4 /\ t[1] = 1 /\ t[2] = 2 /\ t[3] = 3 /\ t[4] = 4
    BY <1>5, TagsType DEF AllTags
  <2> HIDE DEF t, tags
  <2>2. Len(tags) = 4 /\ Len(ts) = 5 /\ ts[5].ControlByte = 1
    BY <1>1, <2>1
  <2>3. \A k \in 1..4 : ts[k].Tag = t[k] /\ ts[k].Bitmask = Bitmask[t[k]] /\ ts[k].ControlByte = 0
    BY <1>1, <2>1, <2>2
  <2>4. /\ ts[1].Tag = 1 /\ ts[1].Bitmask = 1 /\ ts[1].ControlByte = 0
        /\ ts[2].Tag = 2 /\ ts[2].Bitmask = 2 /\ ts[2].ControlByte = 0
        /\ ts[3].Tag = 3 /\ ts[3].Bitmask = 4 /\ ts[3].ControlByte = 0
        /\ ts[4].Tag = 4 /\ ts[4].Bitmask = 8 /\ ts[4].ControlByte = 0
    BY <1>2, <2>1, <2>3
  <2>5. /\ Announced(data, ts[1]) /\ Announced(data, ts[2]) /\ Announced(data, ts[3]) /\ Announced(data, ts[4])
        /\ ~Announced(data, ts[5])
    BY <1>3, <2>2, <2>4, Bits
  <2>6. \A k \in 1..4 : k = 1 \/ k = 2 \/ k = 3 \/ k = 4
    OBVIOUS
  <2>7. \A k \in 1..4 : ts[k].Tag = k /\ Announced(data, ts[k])
    BY ONLY <2>4, <2>5, <2>6
  <2> QED BY ONLY <1>5, <2>2, <2>4, <2>5, <2>7
<1> QED BY <1>4, <1>5

(* What a reader should find of an entry, by tag. *)
PairsOf(e, at) ==
  <<<<1, e.offset>>, <<2, e.len>>, <<3, at>>>>
    \o CASE e.kind = "single" -> <<<<4, 0>>>>
         [] e.kind = "parent" -> <<<<4, 0>>, <<22, e.first>>, <<23, e.last>>>>
         [] e.kind = "child" -> <<<<4, 1>>, <<21, e.parent>>>>

(* The tag of each value. *)
TagOf(kind, k) == IF k <= 4 THEN k ELSE IF kind = "child" THEN 21 ELSE IF k = 5 THEN 22 ELSE 23
ValueCount(kind) == IF kind = "single" THEN 4 ELSE IF kind = "child" THEN 5 ELSE 6

LEMMA ValuesAre ==
  ASSUME NEW e \in EntryType, NEW at \in Nat
  PROVE  LET v == EntryValues(e, at)
         IN  /\ v \in Seq(Nat) /\ Len(v) = ValueCount(e.kind)
             /\ v[1] = e.offset /\ v[2] = e.len /\ v[3] = at /\ v[4] = IF e.kind = "child" THEN 1 ELSE 0
             /\ e.kind = "child" => v[5] = e.parent
             /\ e.kind = "parent" => v[5] = e.first /\ v[6] = e.last
<1> DEFINE depth == IF e.kind = "child" THEN 1 ELSE 0
           head == <<e.offset, e.len, at, depth>>
           v == EntryValues(e, at)
<1>1. v \in Seq(Nat) /\ e.kind \in {"single", "parent", "child"}
  BY ValuesType DEF EntryType
<1>2. depth = IF e.kind = "child" THEN 1 ELSE 0
  OBVIOUS
<1>3. CASE e.kind = "single"
  <2>1. v = head \o <<>>
    BY <1>3 DEF EntryValues
  <2> HIDE DEF v, depth
  <2>2. v = <<e.offset, e.len, at, depth>>
    BY ONLY <2>1, FourAndMore, ZenonT(40)
  <2> QED BY <1>1, <1>2, <1>3, <2>2 DEF ValueCount, v
<1>4. CASE e.kind = "child"
  <2>1. v = head \o <<e.parent>>
    BY <1>4 DEF EntryValues
  <2> HIDE DEF v, depth
  <2>2. v = <<e.offset, e.len, at, depth, e.parent>>
    BY ONLY <2>1, FourAndMore, ZenonT(40)
  <2> QED BY <1>1, <1>2, <1>4, <2>2 DEF ValueCount, v
<1>5. CASE e.kind = "parent"
  <2>1. v = head \o <<e.first, e.last>>
    BY <1>5 DEF EntryValues
  <2> HIDE DEF v, depth
  <2>2. v = <<e.offset, e.len, at, depth, e.first, e.last>>
    BY ONLY <2>1, FourAndMore, ZenonT(40)
  <2> QED BY <1>1, <1>2, <1>5, <2>2 DEF ValueCount, v
<1> QED BY <1>1, <1>3, <1>4, <1>5

(* The pairs are the values, each with its tag. *)
LEMMA PairsAre ==
  ASSUME NEW e \in EntryType, NEW at \in Nat
  PROVE  LET v == EntryValues(e, at)
             p == PairsOf(e, at)
         IN  /\ p \in Seq(Nat \X Nat) /\ Len(p) = Len(v) /\ Len(v) = ValueCount(e.kind)
             /\ \A k \in 1..Len(v) : p[k] = <<TagOf(e.kind, k), v[k]>>
<1> DEFINE v == EntryValues(e, at)
           p == PairsOf(e, at)
           S == Nat \X Nat
           head == <<<<1, e.offset>>, <<2, e.len>>, <<3, at>>>>
           rest == CASE e.kind = "single" -> <<<<4, 0>>>>
                     [] e.kind = "parent" -> <<<<4, 0>>, <<22, e.first>>, <<23, e.last>>>>
                     [] e.kind = "child" -> <<<<4, 1>>, <<21, e.parent>>>>
<1>1. /\ v \in Seq(Nat) /\ Len(v) = ValueCount(e.kind)
      /\ v[1] = e.offset /\ v[2] = e.len /\ v[3] = at /\ v[4] = IF e.kind = "child" THEN 1 ELSE 0
      /\ e.kind = "child" => v[5] = e.parent
      /\ e.kind = "parent" => v[5] = e.first /\ v[6] = e.last
  BY ValuesAre
<1>2. e.offset \in Nat /\ e.len \in Nat /\ e.first \in Nat /\ e.last \in Nat /\ e.parent \in Nat
      /\ e.kind \in {"single", "parent", "child"}
  BY DEF EntryType
<1>3. p = head \o rest
  BY DEF PairsOf
<1>4. head \in Seq(S) /\ Len(head) = 3 /\ head[1] = <<1, v[1]>> /\ head[2] = <<2, v[2]>> /\ head[3] = <<3, v[3]>>
  <2> DEFINE a == <<1, v[1]>>
             b == <<2, v[2]>>
             c == <<3, v[3]>>
  <2>1. head = <<a, b, c>>
    BY <1>1
  <2>2. v[1] \in Nat /\ v[2] \in Nat /\ v[3] \in Nat
    BY <1>1, <1>2
  <2>3. a \in S /\ b \in S /\ c \in S
    BY <2>2
  <2> HIDE DEF a, b, c, S, head, v
  <2>4. head \in Seq(S) /\ Len(head) = 3 /\ head[1] = a /\ head[2] = b /\ head[3] = c
    BY ONLY <2>1, <2>3
  <2> QED BY <2>4 DEF a, b, c
<1>5. /\ rest \in Seq(S) /\ 3 + Len(rest) = Len(v) /\ rest[1] = <<4, v[4]>>
      /\ e.kind = "child" => rest[2] = <<21, v[5]>>
      /\ e.kind = "parent" => rest[2] = <<22, v[5]>> /\ rest[3] = <<23, v[6]>>
  <2> HIDE DEF v, p, head
  <2>1. CASE e.kind = "single"
    <3>1. rest = <<<<4, v[4]>>>> /\ Len(v) = 4 /\ v[4] \in Nat
      BY <1>1, <2>1 DEF ValueCount
    <3> HIDE DEF rest
    <3> QED BY <2>1, <3>1
  <2>2. CASE e.kind = "child"
    <3>1. rest = <<<<4, v[4]>>, <<21, v[5]>>>> /\ Len(v) = 5 /\ v[4] \in Nat /\ v[5] \in Nat
      BY <1>1, <1>2, <2>2 DEF ValueCount
    <3> HIDE DEF rest
    <3> QED BY <2>2, <3>1
  <2>3. CASE e.kind = "parent"
    <3>1. rest = <<<<4, v[4]>>, <<22, v[5]>>, <<23, v[6]>>>> /\ Len(v) = 6 /\ v[4] \in Nat /\ v[5] \in Nat /\ v[6] \in Nat
      BY <1>1, <1>2, <2>3 DEF ValueCount
    <3> HIDE DEF rest
    <3> QED BY <2>3, <3>1
  <2> QED BY <1>2, <2>1, <2>2, <2>3
<1> HIDE DEF head, rest, S, v, p
<1>6. /\ p \in Seq(S) /\ Len(p) = Len(head) + Len(rest)
      /\ \A i \in 1..Len(head) : p[i] = head[i]
      /\ \A j \in 1..Len(rest) : p[Len(head) + j] = rest[j]
  <2>1. head \in Seq(S) /\ rest \in Seq(S)
    BY <1>4, <1>5
  <2>2. /\ head \o rest \in Seq(S) /\ Len(head \o rest) = Len(head) + Len(rest)
        /\ \A i \in 1..Len(head) : (head \o rest)[i] = head[i]
        /\ \A j \in 1..Len(rest) : (head \o rest)[Len(head) + j] = rest[j]
    BY ONLY <2>1, ConcatElements
  <2> QED BY ONLY <1>3, <2>2
<1>7. Len(rest) \in Nat /\ Len(v) \in Nat /\ Len(rest) = ValueCount(e.kind) - 3 /\ Len(p) = Len(v)
      /\ Len(v) = ValueCount(e.kind)
  <2>1. Len(rest) \in Nat /\ Len(v) \in Nat
    BY <1>1, <1>5
  <2>2. 3 + Len(rest) = Len(v) /\ Len(p) = 3 + Len(rest) /\ Len(v) = ValueCount(e.kind)
    BY <1>1, <1>4, <1>5, <1>6
  <2> QED BY ONLY <2>1, <2>2
<1>8. \A i \in 1..3 : p[i] = head[i]
  BY <1>4, <1>6
<1>9. \A j \in 1..Len(rest) : p[3 + j] = rest[j]
  BY <1>4, <1>6
<1>10. p[1] = <<1, v[1]>> /\ p[2] = <<2, v[2]>> /\ p[3] = <<3, v[3]>>
  BY <1>4, <1>8
<1>11. p[4] = <<4, v[4]>>
  <2>1. 1 \in 1..Len(rest) /\ 3 + 1 = 4
    BY <1>2, <1>7 DEF ValueCount
  <2> QED BY <1>5, <1>9, <2>1
<1>12. e.kind = "child" => p[5] = <<21, v[5]>>
  <2>1. e.kind = "child" => 2 \in 1..Len(rest) /\ 3 + 2 = 5
    BY <1>7 DEF ValueCount
  <2> QED BY <1>5, <1>9, <2>1
<1>13. e.kind = "parent" => p[5] = <<22, v[5]>> /\ p[6] = <<23, v[6]>>
  <2>1. e.kind = "parent" => 2 \in 1..Len(rest) /\ 3 + 2 = 5 /\ 3 \in 1..Len(rest) /\ 3 + 3 = 6
    BY <1>7 DEF ValueCount
  <2> QED BY <1>5, <1>9, <2>1
<1>14. ASSUME NEW k \in 1..Len(v) PROVE p[k] = <<TagOf(e.kind, k), v[k]>>
  <2>1. k = 1 \/ k = 2 \/ k = 3 \/ k = 4 \/ (k = 5 /\ e.kind = "child") \/ (k = 5 /\ e.kind = "parent")
        \/ (k = 6 /\ e.kind = "parent")
    BY <1>2, <1>7 DEF ValueCount
  <2>2. TagOf(e.kind, 1) = 1 /\ TagOf(e.kind, 2) = 2 /\ TagOf(e.kind, 3) = 3 /\ TagOf(e.kind, 4) = 4
        /\ (e.kind = "child" => TagOf(e.kind, 5) = 21)
        /\ (e.kind = "parent" => TagOf(e.kind, 5) = 22 /\ TagOf(e.kind, 6) = 23)
    BY DEF TagOf
  <2> QED BY ONLY <1>10, <1>11, <1>12, <1>13, <2>1, <2>2
<1> QED BY <1>6, <1>7, <1>14 DEF p, v, S

(* An entry is read as it was written, whatever follows it. *)
LEMMA EntryParsed ==
  ASSUME NEW deep \in BOOLEAN, NEW e \in EntryType, deep \/ e.kind = "single", NEW at \in Nat,
         \A k \in 1..Len(EntryValues(e, at)) : EntryValues(e, at)[k] < Uint32,
         NEW data, DataOf(data, EntryValues(e, at)), data[1] = controlByte(EntryTags(e.kind)),
         NEW ts, TagsIs(ts, AllTags(deep))
  PROVE  parsePtagx(data, ts) = PairsOf(e, at)
<1> DEFINE v == EntryValues(e, at)
           p == PairsOf(e, at)
           kind == e.kind
           m == Len(v)
<1>1. v \in Seq(Nat) /\ p \in Seq(Nat \X Nat) /\ Len(p) = m /\ m = ValueCount(kind)
      /\ \A k \in 1..m : p[k] = <<TagOf(kind, k), v[k]>>
  BY ValuesAre, PairsAre
<1>2. kind \in {"single", "parent", "child"}
  BY DEF EntryType
<1> SUFFICES parsePtagx(data, ts) = p
  OBVIOUS
<1> HIDE DEF v, p, kind, m
<1> DEFINE control == IF kind = "single" THEN 15 ELSE IF kind = "child" THEN 31 ELSE 111
<1>3. data[1] = control /\ control \in {15, 31, 111}
      /\ (control = 31 <=> kind = "child") /\ (control = 111 <=> kind = "parent")
  BY <1>2, ControlByteIs DEF kind
<1> HIDE DEF control
<1>4. /\ Len(ts) = IF deep THEN 8 ELSE 5
      /\ \A k \in 1..4 : ts[k].Tag = k /\ Announced(data, ts[k])
      /\ deep => /\ ts[5].Tag = 21 /\ (Announced(data, ts[5]) <=> control = 31)
                 /\ ts[6].Tag = 22 /\ (Announced(data, ts[6]) <=> control = 111)
                 /\ ts[7].Tag = 23 /\ (Announced(data, ts[7]) <=> control = 111)
                 /\ ~Announced(data, ts[8])
      /\ ~deep => ~Announced(data, ts[5])
  BY ONLY <1>3, deep \in BOOLEAN, TagsIs(ts, AllTags(deep)), TagBits
<1> DEFINE tag(k) == ts[k].Tag
           on(k) == Announced(data, ts[k])
<1>5. ASSUME NEW g, g \in [0..Len(ts) -> 0..m], g[0] = 0, g[Len(ts)] = m,
             \A k \in 1..Len(ts) : /\ on(k) => g[k] = g[k - 1] + 1 /\ tag(k) = TagOf(kind, g[k]) /\ g[k] \in 1..m
                                   /\ ~on(k) => g[k] = g[k - 1]
      PROVE  parsePtagx(data, ts) = p
  <2>1. \A k \in 1..Len(ts) : /\ on(k) => g[k] = g[k - 1] + 1 /\ p[g[k]] = <<ts[k].Tag, v[g[k]]>>
                              /\ ~on(k) => g[k] = g[k - 1]
    <3> HIDE DEF on
    <3> QED BY <1>1, <1>5
  <2>2. Brings(g, data, ts, v, p)
    BY <1>5, <2>1 DEF Brings, m
  <2>3. v \in Seq(Nat) /\ (\A k \in 1..Len(v) : v[k] < Uint32) /\ DataOf(data, v) /\ Len(ts) \in Nat
        /\ p \in Seq(Nat \X Nat) /\ Len(p) = Len(v)
    BY <1>1, <1>4 DEF v, m
  <2> QED BY ONLY <2>2, <2>3, ParseWalk
<1>6. on(1) /\ on(2) /\ on(3) /\ on(4) /\ tag(1) = 1 /\ tag(2) = 2 /\ tag(3) = 3 /\ tag(4) = 4
  BY <1>4
<1>7. deep => tag(5) = 21 /\ tag(6) = 22 /\ tag(7) = 23 /\ (on(5) <=> kind = "child") /\ (on(6) <=> kind = "parent")
              /\ (on(7) <=> kind = "parent") /\ ~on(8) /\ Len(ts) = 8
  BY <1>3, <1>4
<1>8. ~deep => ~on(5) /\ Len(ts) = 5
  BY <1>4
<1>9. /\ TagOf(kind, 1) = 1 /\ TagOf(kind, 2) = 2 /\ TagOf(kind, 3) = 3 /\ TagOf(kind, 4) = 4
      /\ kind = "child" => TagOf(kind, 5) = 21 /\ m = 5
      /\ kind = "parent" => TagOf(kind, 5) = 22 /\ TagOf(kind, 6) = 23 /\ m = 6
      /\ kind = "single" => m = 4
  BY <1>1 DEF TagOf, ValueCount
<1> HIDE DEF on, tag
<1>10. \A k \in 1..8 : k = 1 \/ k = 2 \/ k = 3 \/ k = 4 \/ k = 5 \/ k = 6 \/ k = 7 \/ k = 8
  OBVIOUS
<1>11. CASE ~deep
  <2> DEFINE g == [k \in 0..5 |-> IF k <= 4 THEN k ELSE 4]
  <2>1. kind = "single" /\ m = 4 /\ Len(ts) = 5 /\ ~on(5)
    BY <1>8, <1>9, <1>11 DEF kind
  <2>2. g \in [0..5 -> 0..4] /\ g[0] = 0 /\ g[1] = 1 /\ g[2] = 2 /\ g[3] = 3 /\ g[4] = 4 /\ g[5] = 4
    OBVIOUS
  <2> HIDE DEF g
  <2>3. ASSUME NEW k \in 1..5
        PROVE  /\ on(k) => g[k] = g[k - 1] + 1 /\ tag(k) = TagOf(kind, g[k]) /\ g[k] \in 1..4
               /\ ~on(k) => g[k] = g[k - 1]
    <3>1. k = 1 \/ k = 2 \/ k = 3 \/ k = 4 \/ k = 5
      OBVIOUS
    <3> QED BY ONLY <1>6, <1>9, <2>1, <2>2, <3>1
  <2> QED BY ONLY <1>5, <2>1, <2>2, <2>3
<1>12. CASE deep /\ kind = "single"
  <2> DEFINE g == [k \in 0..8 |-> IF k <= 4 THEN k ELSE 4]
  <2>1. m = 4 /\ Len(ts) = 8 /\ ~on(5) /\ ~on(6) /\ ~on(7) /\ ~on(8)
    BY <1>7, <1>9, <1>12
  <2>2. g \in [0..8 -> 0..4] /\ g[0] = 0 /\ g[1] = 1 /\ g[2] = 2 /\ g[3] = 3 /\ g[4] = 4 /\ g[5] = 4
        /\ g[6] = 4 /\ g[7] = 4 /\ g[8] = 4
    OBVIOUS
  <2> HIDE DEF g
  <2>3. ASSUME NEW k \in 1..8
        PROVE  /\ on(k) => g[k] = g[k - 1] + 1 /\ tag(k) = TagOf(kind, g[k]) /\ g[k] \in 1..4
               /\ ~on(k) => g[k] = g[k - 1]
    <3>1. k = 1 \/ k = 2 \/ k = 3 \/ k = 4 \/ k = 5 \/ k = 6 \/ k = 7 \/ k = 8
      BY <1>10
    <3> QED BY ONLY <1>6, <1>9, <2>1, <2>2, <3>1
  <2> QED BY ONLY <1>5, <2>1, <2>2, <2>3
<1>13. CASE deep /\ kind = "child"
  <2> DEFINE g == [k \in 0..8 |-> IF k <= 5 THEN k ELSE 5]
  <2>1. m = 5 /\ Len(ts) = 8 /\ on(5) /\ ~on(6) /\ ~on(7) /\ ~on(8) /\ tag(5) = 21 /\ TagOf(kind, 5) = 21
    BY <1>7, <1>9, <1>13
  <2>2. g \in [0..8 -> 0..5] /\ g[0] = 0 /\ g[1] = 1 /\ g[2] = 2 /\ g[3] = 3 /\ g[4] = 4 /\ g[5] = 5
        /\ g[6] = 5 /\ g[7] = 5 /\ g[8] = 5
    OBVIOUS
  <2> HIDE DEF g
  <2>3. ASSUME NEW k \in 1..8
        PROVE  /\ on(k) => g[k] = g[k - 1] + 1 /\ tag(k) = TagOf(kind, g[k]) /\ g[k] \in 1..5
               /\ ~on(k) => g[k] = g[k - 1]
    <3>1. k = 1 \/ k = 2 \/ k = 3 \/ k = 4 \/ k = 5 \/ k = 6 \/ k = 7 \/ k = 8
      BY <1>10
    <3> QED BY ONLY <1>6, <1>9, <2>1, <2>2, <3>1
  <2> QED BY ONLY <1>5, <2>1, <2>2, <2>3
<1>14. CASE deep /\ kind = "parent"
  <2> DEFINE g == [k \in 0..8 |-> IF k <= 4 THEN k ELSE IF k <= 7 THEN k - 1 ELSE 6]
  <2>1. m = 6 /\ Len(ts) = 8 /\ ~on(5) /\ on(6) /\ on(7) /\ ~on(8) /\ tag(6) = 22 /\ tag(7) = 23
        /\ TagOf(kind, 5) = 22 /\ TagOf(kind, 6) = 23
    BY <1>7, <1>9, <1>14
  <2>2. g \in [0..8 -> 0..6] /\ g[0] = 0 /\ g[1] = 1 /\ g[2] = 2 /\ g[3] = 3 /\ g[4] = 4 /\ g[5] = 4
        /\ g[6] = 5 /\ g[7] = 6 /\ g[8] = 6
    OBVIOUS
  <2> HIDE DEF g
  <2>3. ASSUME NEW k \in 1..8
        PROVE  /\ on(k) => g[k] = g[k - 1] + 1 /\ tag(k) = TagOf(kind, g[k]) /\ g[k] \in 1..6
               /\ ~on(k) => g[k] = g[k - 1]
    <3>1. k = 1 \/ k = 2 \/ k = 3 \/ k = 4 \/ k = 5 \/ k = 6 \/ k = 7 \/ k = 8
      BY <1>10
    <3> QED BY ONLY <1>6, <1>9, <2>1, <2>2, <3>1
  <2> QED BY ONLY <1>5, <2>1, <2>2, <2>3
<1> QED BY <1>2, <1>11, <1>12, <1>13, <1>14

(* Where an entry is in the file, its parts are read from there.           *)
LEMMA EntryAt ==
  ASSUME NEW f \in Seq(Byte), NEW p \in Nat, NEW b, NEW label \in Seq(Byte), Len(label) < 256, NEW control,
         NEW values \in Seq(Nat), EntryIs(b, label, control, ValueBytes(values)), PartIn(f, p, b)
  PROVE  /\ BytesAt(f, p, 1)[1] = Len(label) /\ BytesAt(f, p + 1, Len(label)) = label
         /\ DataOf(BytesAt(f, p + 1 + Len(label), Len(b)), values)
         /\ BytesAt(f, p + 1 + Len(label), Len(b))[1] = control
         /\ Len(b) \in Nat \ {0}
<1> DEFINE l == Len(label)
           V == ValueBytes(values)
           c == Len(V)
           d == Len(b)
           size == Len(f)
           data == BytesAt(f, p + 1 + l, d)
<1>1. V \in Seq(Byte)
  BY ValueBytesType
<1>2. /\ b \in Seq(Byte) /\ d = l + 2 + c /\ b[1] = l % 256 /\ b[l + 2] = control
  BY DEF EntryIs
<1>3. \A i \in 1..l : b[1 + i] = label[i]
  BY DEF EntryIs
<1>4. \A j \in 1..c : b[l + 2 + j] = V[j]
  BY DEF EntryIs
<1>5. l \in Nat /\ l < 256 /\ c \in Nat /\ d = l + 2 + c /\ size \in Nat /\ p \in Nat /\ p + d <= size
  <2> HIDE DEF V
  <2>1. l \in Nat /\ c \in Nat /\ size \in Nat
    BY <1>1
  <2> QED BY <1>2, <2>1 DEF PartIn
<1>6. \A j \in 1..d : f[p + j] = b[j]
  BY DEF PartIn
<1>7. f \in Seq(Byte) /\ size = Len(f) /\ label \in Seq(Byte) /\ l = Len(label)
  OBVIOUS
<1> SUFFICES /\ BytesAt(f, p, 1)[1] = l /\ BytesAt(f, p + 1, l) = label
             /\ data \in Seq(Byte) /\ Len(data) >= 1 + c /\ \A j \in 1..c : data[1 + j] = V[j]
             /\ data[1] = control /\ d \in Nat \ {0}
  BY DEF DataOf
<1> HIDE DEF l, V, c, d, size
<1>8. BytesAt(f, p, 1)[1] = l
  <2>0. l % 256 = l
    BY ONLY <1>5
  <2>1. 1 \in 1..1 /\ 1 \in 1..d /\ p + 1 <= size
    BY ONLY <1>5
  <2>2. BytesAt(f, p, 1)[1] = f[p + 1]
    BY ONLY <1>7, <2>1 DEF BytesAt
  <2>3. f[p + 1] = b[1]
    BY ONLY <1>6, <2>1
  <2> QED BY ONLY <1>2, <2>0, <2>2, <2>3
<1>9. BytesAt(f, p + 1, l) = label
  <2>1. p + 1 \in Nat /\ (p + 1) + l <= size
    BY ONLY <1>5
  <2>2. \A i \in 1..l : f[(p + 1) + i] = label[i]
    <3> TAKE i \in 1..l
    <3>1. 1 + i \in 1..d /\ p + (1 + i) = (p + 1) + i
      BY ONLY <1>5, i \in 1..l
    <3>2. f[p + (1 + i)] = b[1 + i] /\ b[1 + i] = label[i]
      BY ONLY <1>3, <1>6, <3>1, i \in 1..l
    <3> QED BY ONLY <3>1, <3>2
  <2> QED BY ONLY <1>7, <2>1, <2>2, ReadWhere
<1> DEFINE q == p + 1 + l
<1>10. q \in Nat /\ q = p + 1 + l /\ d \in Nat \ {0}
  BY ONLY <1>5
<1>11. data = [j \in 1..d |-> IF q + j <= Len(f) THEN f[q + j] ELSE 0]
  BY DEF BytesAt
<1> HIDE DEF q
<1>12. ASSUME NEW j \in 1..d PROVE (IF q + j <= Len(f) THEN f[q + j] ELSE 0) \in Byte
  <2>1. 0 \in Byte
    BY DEF Byte
  <2>2. CASE q + j <= Len(f)
    <3>1. q + j \in 1..size
      BY ONLY <1>5, <1>7, <1>10, <2>2, j \in 1..d
    <3>2. f[q + j] \in Byte
      BY ONLY <1>7, <3>1
    <3> QED BY <2>2, <3>2
  <2> QED BY <2>1, <2>2
<1>13. data \in Seq(Byte) /\ Len(data) = d
  <2> HIDE DEF data
  <2>1. data \in [1..d -> Byte]
    BY ONLY <1>11, <1>12
  <2> QED BY ONLY <1>10, <2>1
<1>14. ASSUME NEW i \in 0..c PROVE data[1 + i] = b[l + 2 + i]
  <2>1. 1 + i \in 1..d /\ q + (1 + i) <= size /\ l + 2 + i \in 1..d /\ q + (1 + i) = p + (l + 2 + i)
    BY ONLY <1>5, <1>10, i \in 0..c
  <2>2. data[1 + i] = f[q + (1 + i)]
    BY ONLY <1>7, <1>11, <2>1
  <2>3. f[p + (l + 2 + i)] = b[l + 2 + i]
    BY ONLY <1>6, <2>1
  <2> QED BY ONLY <2>1, <2>2, <2>3
<1>15. data[1] = control
  <2>1. 0 \in 0..c /\ 1 + 0 = 1 /\ l + 2 + 0 = l + 2
    BY ONLY <1>5
  <2>2. data[1 + 0] = b[l + 2 + 0]
    BY ONLY <1>14, <2>1
  <2> QED BY ONLY <1>2, <2>1, <2>2
<1>16. \A j \in 1..c : data[1 + j] = V[j]
  <2> TAKE j \in 1..c
  <2>1. j \in 0..c
    BY ONLY <1>5, j \in 1..c
  <2>2. data[1 + j] = b[l + 2 + j]
    BY ONLY <1>14, <2>1
  <2> QED BY ONLY <1>4, <2>2, j \in 1..c
<1>17. Len(data) >= 1 + c
  BY ONLY <1>5, <1>13
<1> QED BY ONLY <1>8, <1>9, <1>10, <1>13, <1>15, <1>16, <1>17

-----------------------------------------------------------------------------
(* Two more widths: a label has its length in a byte, and vwiDec reads an  *)
(* uint32.                                                                 *)
LabelsFit == \A k \in DOMAIN entries : Len(Label(entries[k].label)) < 256
ValuesFit ==
  \A k \in DOMAIN entries :
    LET v == EntryValues(entries[k], labels[k].at) IN \A i \in 1..Len(v) : v[i] < Uint32

LEMMA ExpectedIs ==
  ASSUME NEW k
  PROVE  Expected(k) = [label |-> Label(entries[k].label), values |-> PairsOf(entries[k], labels[k].at)]
BY DEF Expected, PairsOf

(* The offsets of a WriteTo in which none has wrapped, behind those of an  *)
(* earlier one: each is the place of its entry, behind all of those before. *)
PlacesAreTrue(before) ==
  LET all == AllEntries
      n == Len(cncx)
  IN  /\ before \in Nat /\ Len(idxt) = before + Len(entries) /\ n = Before(all, Len(entries))
      /\ Before(all, 0) = 0
      /\ \A k \in 1..Len(entries) :
           /\ idxt[before + k] = 192 + Before(all, k - 1) /\ Before(all, k - 1) \in Nat
           /\ Before(all, k) = Before(all, k - 1) + Len(all[k]) /\ Before(all, k) <= n
           /\ Len(all[k]) \in Nat \ {0}
           /\ \A j \in 1..Len(all[k]) : cncx[Before(all, k - 1) + j] = all[k][j]

LEMMA TruePlaces ==
  ASSUME IndexTypeOK, Buffers, entries # <<>>, NEW before, before = Len(idxt) - Len(entries), NoOffsetWrapped
  PROVE  PlacesAreTrue(before)
<1> DEFINE all == AllEntries
           N == Len(entries)
           n == Len(cncx)
           B(k) == Before(all, k)
<1>1. entries \in Seq(EntryType) /\ labels \in Seq([at : Nat, title : NodeType]) /\ Len(labels) = Len(entries)
  BY DEF IndexTypeOK, TypeOK, Buffers
<1>2. all \in Seq(Seq(Byte)) /\ Len(all) = N
  BY <1>1, AllEntriesType
<1>3. /\ cncx = FlattenSeq(all) /\ DOMAIN entries = 1..N /\ N \in Nat \ {0}
      /\ before \in Nat /\ Len(idxt) \in Nat /\ Len(idxt) = before + N
  <2>1. cncx = FlattenSeq(all) /\ DOMAIN entries = 1..N /\ N \in Nat \ {0}
    BY <1>1 DEF Buffers
  <2>2. before \in Nat /\ idxt \in Seq(0..(Word - 1))
    BY DEF Buffers, IndexTypeOK
  <2>3. Len(idxt) \in Nat
    BY ONLY <2>2
  <2> HIDE DEF N
  <2>4. before = Len(idxt) - N
    BY DEF N
  <2> QED BY ONLY <2>1, <2>2, <2>3, <2>4
<1>4. \A k \in 1..N : idxt[before + k] = (192 + PlaceIn(all, k)) % Word
  BY <1>3 DEF Buffers, IndxHeaderLen
<1>5. \A k \in 1..N : PlaceIn(all, k) = B(k - 1)
  BY DEF PlaceIn, Before, FlatPrefix
<1>6. \A k \in 1..N : Len(all[k]) \in Nat \ {0}
  <2> TAKE k \in 1..N
  <2> DEFINE b == all[k]
             L == Label(entries[k].label)
             V == ValueBytes(EntryValues(entries[k], labels[k].at))
             control == controlByte(EntryTags(entries[k].kind))
  <2>1. EntryIs(b, L, control, V)
    BY <1>1, AllEntriesType
  <2>2. L \in Seq(Byte) /\ V \in Seq(Byte)
    <3>1. entries[k].label \in Nat /\ entries[k] \in EntryType /\ labels[k].at \in Nat
      <4> DEFINE R == [at : Nat, title : NodeType]
      <4>1. \A l \in R : l.at \in Nat
        OBVIOUS
      <4> HIDE DEF R
      <4>2. labels \in Seq(R) /\ Len(labels) = N
        BY <1>1 DEF R
      <4>3. k \in 1..N
        OBVIOUS
      <4> HIDE DEF N
      <4>4. labels[k] \in R
        BY ONLY <4>2, <4>3
      <4>5. entries \in Seq(EntryType) /\ Len(entries) = N
        BY <1>1 DEF N
      <4>6. entries[k] \in EntryType
        BY ONLY <4>3, <4>5
      <4> QED BY <4>1, <4>4, <4>6 DEF EntryType
    <3>2. EntryValues(entries[k], labels[k].at) \in Seq(Nat)
      BY <3>1, ValuesType
    <3> QED BY <3>1, <3>2, LabelType, ValueBytesType
  <2> HIDE DEF b, L, V, control
  <2>3. b \in Seq(Byte) /\ Len(b) = Len(L) + 2 + Len(V)
    BY <2>1 DEF EntryIs
  <2>4. Len(b) \in Nat \ {0}
    BY ONLY <2>2, <2>3
  <2> QED BY <2>4 DEF b
<1> HIDE DEF all, N, n
<1>7. /\ \A k \in 0..N : B(k) \in Nat
      /\ \A k \in 1..N : B(k) = B(k - 1) + Len(all[k])
      /\ \A j, k \in 0..N : j <= k => B(j) <= B(k)
      /\ n = B(N) /\ B(0) = 0
      /\ \A k \in 1..N : \A j \in 1..Len(all[k]) : cncx[B(k - 1) + j] = all[k][j]
  <2>1. Placed(Byte, all, cncx)
    BY <1>2, <1>3, FlattenPlaces
  <2> QED BY <1>2, <2>1 DEF Placed, n
<1>8. 192 + B(N - 1) < Word
  <2>1. 192 + PlaceIn(all, N) < Word
    BY DEF NoOffsetWrapped, IndxHeaderLen, all, N
  <2>2. N \in 1..N
    BY ONLY <1>3
  <2> QED BY <1>5, <2>1, <2>2
<1>9. Word \in Nat /\ Word > 0
  BY WordAssumption
<1> HIDE DEF B
<1>10. ASSUME NEW k \in 1..N PROVE idxt[before + k] = 192 + B(k - 1) /\ B(k - 1) \in Nat
  <2>1. k - 1 \in 0..N /\ N - 1 \in 0..N /\ k - 1 <= N - 1
    BY ONLY <1>3, k \in 1..N
  <2>2. B(k - 1) <= B(N - 1) /\ B(k - 1) \in Nat /\ B(N - 1) \in Nat
    BY ONLY <1>7, <2>1
  <2>3. (192 + B(k - 1)) % Word = 192 + B(k - 1)
    BY ONLY <1>8, <1>9, <2>2
  <2> QED BY ONLY <1>4, <1>5, <2>2, <2>3, k \in 1..N
<1>11. ASSUME NEW k \in 1..N PROVE B(k) = B(k - 1) + Len(all[k]) /\ B(k) <= n
  <2>1. k \in 0..N /\ N \in 0..N /\ k <= N
    BY ONLY <1>3, k \in 1..N
  <2> QED BY ONLY <1>7, <2>1, k \in 1..N
<1> QED BY ONLY <1>3, <1>6, <1>7, <1>10, <1>11 DEF PlacesAreTrue, all, N, n, B

(* The length of the data of each entry, as the reader counts it from two  *)
(* offsets that follow each other.                                         *)
LEMMA LengthsFit ==
  ASSUME NEW before, PlacesAreTrue(before), NEW k \in 1..Len(entries), entries \in Seq(EntryType), EntriesFit
  PROVE  DataLen(idxt, 192 + Len(cncx), before + k) = Len(AllEntries[k])
<1> DEFINE all == AllEntries
           N == Len(entries)
           n == Len(cncx)
           B(i) == Before(all, i)
           d == Len(all[k])
           x == B(k - 1)
           i == before + k
           end == IF i < Len(idxt) THEN idxt[i + 1] ELSE 192 + n
<1>1. DataLen(idxt, 192 + n, i) = (end - idxt[i]) % Word
  BY DEF DataLen
<1>2. /\ before \in Nat /\ Len(idxt) = before + N /\ n = B(N) /\ N \in Nat
      /\ \A j \in 1..N : idxt[before + j] = 192 + B(j - 1)
  BY DEF PlacesAreTrue
<1>3. d \in Nat /\ x \in Nat /\ idxt[i] = 192 + x /\ B(k) = x + d
  BY DEF PlacesAreTrue
<1>4. 192 + d < Word
  <2>1. DOMAIN entries = 1..N
    OBVIOUS
  <2> QED BY <2>1 DEF EntriesFit, IndxHeaderLen
<1> HIDE DEF d, x, N, n, B, all
<1>5. k \in 1..N
  BY DEF N
<1>6. end = 192 + B(k)
  <2>1. CASE k < N
    <3>1. k + 1 \in 1..N /\ (k + 1) - 1 = k /\ i < Len(idxt) /\ i + 1 = before + (k + 1)
      BY ONLY <1>2, <1>5, <2>1
    <3>2. end = idxt[i + 1]
      BY <3>1
    <3>3. idxt[before + (k + 1)] = 192 + B((k + 1) - 1)
      BY ONLY <1>2, <3>1
    <3> HIDE DEF i, end
    <3> QED BY ONLY <3>1, <3>2, <3>3
  <2>2. CASE ~(k < N)
    <3>1. k = N /\ ~(i < Len(idxt))
      BY ONLY <1>2, <1>5, <2>2
    <3>2. end = 192 + n
      BY <3>1
    <3> HIDE DEF end, i
    <3> QED BY ONLY <1>2, <3>1, <3>2
  <2> QED BY <2>1, <2>2
<1> HIDE DEF i, end
<1>7. (end - idxt[i]) % Word = d
  <2>1. end - idxt[i] = d
    <3> DEFINE y == B(k)
               w == idxt[i]
    <3> HIDE DEF y, w
    <3>1. end = 192 + y /\ w = 192 + x /\ y = x + d /\ x \in Nat /\ d \in Nat
      BY <1>3, <1>6 DEF y, w
    <3>2. end - w = d
      BY ONLY <3>1
    <3> QED BY <3>2 DEF w
  <2>2. d % Word = d
    <3>1. Word \in Nat /\ Word > 0
      BY WordAssumption
    <3>2. d \in Nat
      BY <1>3
    <3> QED BY ONLY <1>4, <3>1, <3>2
  <2> QED BY ONLY <2>1, <2>2
<1> QED BY <1>1, <1>7 DEF d, i, n, all

(* Of a book that was written once: what the table keeps of it, whatever   *)
(* comes behind, rises from the first entry's place, which is 192.         *)
Rises(m) == m \in Nat \ {0} /\ idxt[1] = 192 /\ \A k \in 1..(m - 1) : idxt[k] < idxt[k + 1]

(* What the second WriteTo leaves of the offsets of the first.             *)
TableInv ==
  /\ writes = 1 /\ pc = "html" => Rises(Len(idxt))
  /\ writes = 1 /\ pc \in {"headers", "children"} => Rises(Len(idxt) - Len(entries))
  /\ writes = 2 /\ pc = "calls" => Rises(Len(idxt) - Len(entries))

LEMMA RisesOnce ==
  ASSUME IndexIndInv, Indexed, writes = 1, NoOffsetWrapped
  PROVE  Rises(Len(idxt))
<1>1. IndexTypeOK /\ BuffersInv /\ IdxtInv /\ RecordsInv
  BY DEF IndexIndInv
<1>2. Buffers /\ entries # <<>> /\ Len(idxt) = Len(entries)
  BY <1>1 DEF BuffersInv, IdxtInv, RecordsInv, Indexed
<1> DEFINE N == Len(entries)
           B(k) == Before(AllEntries, k)
           zero == 0
<1>3. N \in Nat \ {0} /\ idxt \in Seq(0..(Word - 1))
  <2>1. entries \in Seq(EntryType) /\ idxt \in Seq(0..(Word - 1))
    BY <1>1 DEF IndexTypeOK, TypeOK
  <2> QED BY <1>2, <2>1
<1>4. PlacesAreTrue(zero)
  <2>1. zero = Len(idxt) - Len(entries)
    BY <1>2, <1>3
  <2> HIDE DEF zero
  <2> QED BY <1>1, <1>2, <2>1, TruePlaces
<1>5. /\ B(0) = 0
      /\ \A k \in 1..N : idxt[zero + k] = 192 + B(k - 1)
      /\ \A k \in 1..N : B(k) = B(k - 1) + Len(AllEntries[k]) /\ B(k - 1) \in Nat /\ Len(AllEntries[k]) \in Nat \ {0}
  <2> HIDE DEF zero
  <2> QED BY <1>4 DEF PlacesAreTrue
<1> DEFINE L(k) == Len(AllEntries[k])
<1>6. \A k \in 1..N : B(k) = B(k - 1) + L(k) /\ B(k - 1) \in Nat /\ L(k) \in Nat \ {0}
  BY <1>5
<1>7. \A k \in 1..N : zero + k = k
  BY <1>3
<1>8. \A k \in 1..N : idxt[k] = 192 + B(k - 1)
  BY <1>5, <1>7
<1> HIDE DEF B, L, N
<1>9. idxt[1] = 192
  <2>1. 1 \in 1..N /\ 1 - 1 = 0
    BY ONLY <1>3
  <2>2. idxt[1] = 192 + B(0)
    BY ONLY <1>8, <2>1
  <2>3. B(0) = 0
    BY <1>5
  <2> QED BY ONLY <2>2, <2>3
<1>10. ASSUME NEW k \in 1..(N - 1) PROVE idxt[k] < idxt[k + 1]
  <2>1. k \in 1..N /\ k + 1 \in 1..N /\ (k + 1) - 1 = k
    BY ONLY <1>3, k \in 1..(N - 1)
  <2>2. idxt[k] = 192 + B(k - 1) /\ idxt[k + 1] = 192 + B(k)
    BY ONLY <1>8, <2>1
  <2>3. B(k) = B(k - 1) + L(k) /\ B(k - 1) \in Nat /\ L(k) \in Nat \ {0}
    BY ONLY <1>6, <2>1
  <2> DEFINE x == B(k - 1)
             y == B(k)
             l == L(k)
  <2> HIDE DEF x, y, l
  <2>4. y = x + l /\ x \in Nat /\ l \in Nat \ {0}
    BY <2>3 DEF x, y, l
  <2>5. 192 + x < 192 + y
    BY ONLY <2>4
  <2> QED BY <2>2, <2>5 DEF x, y
<1> QED BY <1>2, <1>3, <1>9, <1>10 DEF Rises, N

LEMMA RisesKept ==
  ASSUME NEW m, Rises(m), idxt \in Seq(0..(Word - 1)), m <= Len(idxt), NEW x, idxt' = Append(idxt, x)
  PROVE  m \in Nat \ {0} /\ idxt'[1] = 192 /\ \A k \in 1..(m - 1) : idxt'[k] < idxt'[k + 1]
<1>1. m \in Nat \ {0} /\ idxt[1] = 192 /\ \A k \in 1..(m - 1) : idxt[k] < idxt[k + 1]
  BY DEF Rises
<1>2. \A k \in 1..Len(idxt) : idxt'[k] = idxt[k]
  BY ONLY idxt \in Seq(0..(Word - 1)), idxt' = Append(idxt, x)
<1>3. Len(idxt) \in Nat
  BY ONLY idxt \in Seq(0..(Word - 1))
<1>4. 1 \in 1..Len(idxt) /\ \A k \in 1..(m - 1) : k \in 1..Len(idxt) /\ k + 1 \in 1..Len(idxt)
  BY ONLY <1>1, <1>3, m <= Len(idxt)
<1> QED BY ONLY <1>1, <1>2, <1>4

(* A step that leaves the table and the entries alone, inside a WriteTo or *)
(* outside.                                                                *)
LEMMA TableSame ==
  ASSUME TableInv, idxt' = idxt, entries' = entries, writes' = writes,
         pc' = pc \/ (pc = "headers" /\ pc' = "children")
  PROVE  TableInv'
BY DEF TableInv, Rises

LEMMA TableEntry ==
  ASSUME TableInv, IndexIndInv, WriteEntry, UNCHANGED <<writes, pc>>, pc \in {"headers", "children"},
         NEW e, entries' = Append(entries, e)
  PROVE  TableInv'
<1> DEFINE m == Len(idxt) - Len(entries)
<1>1. idxt \in Seq(0..(Word - 1)) /\ entries \in Seq(EntryType) /\ IndexTypeOK /\ Buffers
  BY DEF IndexIndInv, BuffersInv, IndexTypeOK, TypeOK
<1>2. idxt' = Append(idxt, EntryOffset)
  BY DEF WriteEntry
<1>3. m \in Nat /\ m <= Len(idxt) /\ Len(idxt') - Len(entries') = m
  <2>1. m \in Nat
    BY <1>1 DEF Buffers
  <2>2. Len(idxt) \in Nat /\ Len(idxt') = Len(idxt) + 1 /\ Len(entries) \in Nat /\ Len(entries') = Len(entries) + 1
    BY ONLY <1>1, <1>2, entries' = Append(entries, e)
  <2> QED BY <2>1, <2>2
<1>4. ASSUME writes' = 1 PROVE Rises(m)'
  <2>1. Rises(m)
    BY <1>4 DEF TableInv
  <2> HIDE DEF m
  <2>2. m \in Nat \ {0} /\ idxt'[1] = 192 /\ \A k \in 1..(m - 1) : idxt'[k] < idxt'[k + 1]
    BY ONLY <1>1, <1>2, <1>3, <2>1, RisesKept
  <2>3. m' = m
    BY <1>3 DEF m
  <2> QED BY <2>2, <2>3 DEF Rises
<1>5. pc' \in {"headers", "children"}
  OBVIOUS
<1> QED BY <1>4, <1>5 DEF TableInv, m

LEMMA TableNext ==
  ASSUME TableInv, IndexIndInv, NoOffsetWrapped, [ReaderNext]_<<vars, indexVars, reader>>
  PROVE  TableInv'
<1>1. CASE (Call \/ GenerateHTML \/ StartChildren) /\ UNCHANGED indexVars
  <2>1. /\ entries' = entries /\ writes' = writes /\ idxt' = idxt
        /\ pc' = pc \/ (pc = "headers" /\ pc' = "children")
    BY <1>1 DEF Call, NewChapter, AddSubChapter, GenerateHTML, StartChildren, indexVars
  <2> QED BY <2>1, TableSame
<1>2. CASE CreateTOCChapter /\ UNCHANGED indexVars
  <2>1. pc = "calls" /\ pc' = "html" /\ entries' = entries /\ writes' = writes /\ idxt' = idxt
    BY <1>2 DEF CreateTOCChapter, indexVars
  <2>2. writes = 1 => Rises(Len(idxt))
    BY <2>1, RisesOnce DEF Indexed
  <2> QED BY <2>1, <2>2 DEF TableInv, Rises
<1>3. CASE StartBuffers
  <2>1. pc = "html" /\ pc' = "headers" /\ entries' = <<>> /\ writes' = writes /\ idxt' = idxt
    BY <1>3 DEF StartBuffers, StartCNCX
  <2>2. Len(idxt') - Len(entries') = Len(idxt)
    <3>1. idxt \in Seq(0..(Word - 1))
      BY DEF IndexIndInv, IndexTypeOK
    <3>2. Len(idxt) \in Nat
      BY ONLY <3>1
    <3> QED BY <2>1, <3>2
  <2> QED BY <2>1, <2>2 DEF TableInv, Rises
<1>4. CASE WriteHeaderEntry
  <2>1. /\ pc = "headers" /\ UNCHANGED <<writes, pc>> /\ WriteEntry
        /\ \E e : entries' = Append(entries, e)
    BY <1>4 DEF WriteHeaderEntry, HeaderEntry
  <2> QED BY <2>1, TableEntry
<1>5. CASE WriteChildEntry
  <2>1. /\ pc = "children" /\ UNCHANGED <<writes, pc>> /\ WriteEntry
        /\ \E e : entries' = Append(entries, e)
    BY <1>5 DEF WriteChildEntry, ChildEntry
  <2> QED BY <2>1, TableEntry
<1>6. CASE MakeRecords
  <2>1. pc = "children" /\ pc' = "calls" /\ entries' = entries /\ writes' = writes + 1 /\ idxt' = idxt
    BY <1>6 DEF MakeRecords, Written
  <2>2. writes' = 2 => writes = 1
    <3>1. writes \in Nat
      BY DEF IndexIndInv, IndexTypeOK, TypeOK
    <3> QED BY <2>1, <3>1
  <2> QED BY <2>1, <2>2 DEF TableInv, Rises
<1>7. CASE ReadIndex \/ (Done /\ UNCHANGED <<indexVars, reader>>) \/ UNCHANGED <<vars, indexVars, reader>>
  <2>1. entries' = entries /\ writes' = writes /\ idxt' = idxt /\ pc' = pc
    BY <1>7 DEF ReadIndex, Done, vars, indexVars
  <2> QED BY <2>1, TableSame
<1> QED BY <1>1, <1>2, <1>3, <1>4, <1>5, <1>6, <1>7 DEF ReaderNext, IndexNext

LEMMA TableInvariance == ReaderSpec /\ []NoOffsetWrapped => []TableInv
<1>1. ReaderInit => TableInv
  BY DEF ReaderInit, IndexInit, Init, TableInv
<1>2. TableInv /\ IndexIndInv /\ NoOffsetWrapped /\ [ReaderNext]_<<vars, indexVars, reader>> => TableInv'
  BY TableNext
<1> QED BY <1>1, <1>2, IndexInvariance, PTL DEF ReaderSpec

(* A table that rises from the first place is above it from there on.      *)
LEMMA RisesAbove ==
  ASSUME NEW m \in Nat \ {0, 1}, Rises(m), idxt \in Seq(0..(Word - 1)), m <= Len(idxt)
  PROVE  192 < idxt[m]
<1> DEFINE I == {k \in Nat : k \in 2..m => 192 < idxt[k]}
<1>1. idxt[1] = 192 /\ \A k \in 1..(m - 1) : idxt[k] < idxt[k + 1]
  BY DEF Rises
<1>2. \A k \in 1..m : idxt[k] \in Nat
  <2> TAKE k \in 1..m
  <2>1. Len(idxt) \in Nat
    OBVIOUS
  <2>2. k \in 1..Len(idxt)
    BY ONLY <2>1, k \in 1..m, m \in Nat \ {0, 1}, m <= Len(idxt)
  <2>3. idxt[k] \in 0..(Word - 1)
    BY <2>2, OffsetType
  <2> QED BY ONLY <2>3
<1>3. 0 \in I
  OBVIOUS
<1>4. \A k \in I : k + 1 \in I
  <2> TAKE k \in I
  <2>1. SUFFICES ASSUME k + 1 \in 2..m PROVE 192 < idxt[k + 1]
    OBVIOUS
  <2>2. k \in 1..(m - 1) /\ k \in 1..m /\ k + 1 \in 1..m /\ (k = 1 \/ k \in 2..m) /\ k \in Nat
    BY ONLY <2>1, m \in Nat \ {0, 1}, k \in I DEF I
  <2>3. idxt[k] < idxt[k + 1] /\ idxt[k] \in Nat /\ idxt[k + 1] \in Nat
    BY ONLY <1>1, <1>2, <2>2
  <2>4. idxt[k] = 192 \/ 192 < idxt[k]
    BY ONLY <1>1, <2>2, k \in I DEF I
  <2> DEFINE x == idxt[k]
             y == idxt[k + 1]
  <2> HIDE DEF x, y
  <2>5. x < y /\ x \in Nat /\ y \in Nat /\ (x = 192 \/ 192 < x)
    BY <2>3, <2>4 DEF x, y
  <2>6. 192 < y
    BY ONLY <2>5
  <2> QED BY <2>6 DEF y
<1> HIDE DEF I
<1>5. \A k \in Nat : k \in I
  BY ONLY <1>3, <1>4, Induction
<1>6. m \in I /\ m \in 2..m
  BY ONLY <1>5, m \in Nat \ {0, 1}
<1> QED BY <1>6 DEF I

(* Two different offsets differ by no multiple of Word.                    *)
LEMMA DifferModulo ==
  ASSUME NEW x \in 0..(Word - 1), NEW y \in 0..(Word - 1), x # y
  PROVE  (y - x) % Word # 0
<1>1. Word \in Nat /\ Word > 0
  BY WordAssumption
<1>2. CASE x < y
  <2>1. y - x \in 1..(Word - 1)
    BY ONLY <1>1, <1>2, x \in 0..(Word - 1), y \in 0..(Word - 1)
  <2>2. (y - x) % Word = y - x
    BY ONLY <1>1, <2>1
  <2> QED BY ONLY <2>1, <2>2
<1>3. CASE y < x
  <2> DEFINE d == y - x
             w == Word
  <2>1. d + w \in 1..(w - 1) /\ d \in Int
    BY ONLY <1>1, <1>3, x \in 0..(Word - 1), y \in 0..(Word - 1)
  <2> HIDE DEF d, w
  <2>2. w \in Nat /\ w > 0
    BY <1>1 DEF w
  <2>3. d = w * (-1) + (d + w) /\ d % w = d + w
    BY ONLY <2>1, <2>2
  <2>4. d % w # 0
    BY ONLY <2>1, <2>3
  <2> QED BY <2>4 DEF d, w
<1>4. x < y \/ y < x
  BY ONLY <1>1, x \in 0..(Word - 1), y \in 0..(Word - 1), x # y
<1> QED BY ONLY <1>2, <1>3, <1>4

(* The end of a sequence. *)
LEMMA TailOf ==
  ASSUME NEW s, NEW m \in Nat, NEW n \in Nat, s = [i \in 1..(m + n) |-> s[i]]
  PROVE  SubSeq(s, m + 1, m + n) = [k \in 1..n |-> s[m + k]]
<1> DEFINE t == m + n
           S == {s[i] : i \in 1..t}
           u == SubSeq(s, m + 1, t)
           v == [k \in 1..n |-> s[m + k]]
<1>1. t \in Nat /\ m + 1 \in 1..(t + 1) /\ t - (m + 1) + 1 = n
  OBVIOUS
<1>2. s \in [1..t -> S]
  OBVIOUS
<1> HIDE DEF S
<1>3. s \in Seq(S) /\ Len(s) = t
  BY ONLY <1>1, <1>2
<1>4. u \in Seq(S) /\ Len(u) = n /\ \A k \in 1..n : u[k] = s[m + k]
  BY ONLY <1>1, <1>3, m \in Nat, n \in Nat
<1>5. u = [k \in 1..n |-> u[k]]
  <2> HIDE DEF u
  <2> QED BY ONLY <1>4
<1> HIDE DEF u
<1> QED BY ONLY <1>4, <1>5 DEF u, t

-----------------------------------------------------------------------------
(* What parseIndexRecord makes of a whole file whose table begins with the *)
(* offsets of an earlier WriteTo: it stops when two of these are equal, or *)
(* the entries that were written last are the last it finds.               *)
TailRead(before) ==
  IF \E i \in 1..before : DataLen(idxt, 192 + Len(cncx), i) = 0
  THEN reader.result = "panic"
  ELSE /\ reader.entries = [i \in 1..Len(idxt) |-> reader.entries[i]]
       /\ \A k \in 1..Len(entries) : reader.entries[before + k] = Expected(k)

LEMMA TailIsRead ==
  ASSUME IndexIndInv, FileFits, EntriesFit, LabelsFit, ValuesFit, NoOffsetWrapped,
         reader.result # "none", reader.size = Len(File), NEW before, before = Len(idxt) - Len(entries)
  PROVE  TailRead(before)
<1>1. /\ IndexIndInv /\ FileFits /\ EntriesFit /\ LabelsFit /\ ValuesFit /\ NoOffsetWrapped
      /\ reader.result # "none" /\ reader.size = Len(File)
  OBVIOUS
<1> DEFINE f == SubSeq(File, 1, reader.size)
           at == Len(indx1)
           n == Len(cncx)
           N == Len(entries)
           M == Len(idxt)
           all == AllEntries
           tags == Tags(f, IndxHeaderLen)
           B(k) == Before(all, k)
<1>2. reader # NotRead
  BY <1>1, NotReadIs
<1>3. /\ Indexed /\ entries # <<>> /\ Buffers /\ idxt # <<>> /\ reader = Parse(f)
      /\ f \in Seq(Byte) /\ Len(f) = reader.size /\ reader.size \in 0..Len(File)
      /\ at \in Nat /\ EndOfIdxt1 \in Nat
      /\ NoIndexAt(f, 0) <=> reader.size < EndOfIdxt1
      /\ reader.size >= EndOfIdxt1 => TagsIs(tags, AllTags(IsDeep))
      /\ SecondIs(indx2) /\ 192 + n < Uint32 /\ Len(idxt) < Uint32
      /\ Len(File) >= EndOfOffsets /\ EndOfIdxt1 < at
  BY <1>1, <1>2, FileRead
<1>4. \A i \in 1..Len(indx2) : at + i <= Len(f) => f[at + i] = indx2[i]
  BY <1>1, <1>2, FileRead
<1>5. /\ cncx \in Seq(Byte) /\ idxt \in Seq(0..(Word - 1)) /\ IndexTypeOK
      /\ entries \in Seq(EntryType) /\ labels \in Seq([at : Nat, title : NodeType]) /\ Len(labels) = N
      /\ (IsDeep <=> \E k \in DOMAIN entries : entries[k].kind = "child")
      /\ M = before + N /\ Len(idxt) = M /\ before \in Nat /\ M \in Nat
  <2>1. IndexTypeOK /\ IdxtInv /\ RecordsInv
    BY <1>1 DEF IndexIndInv
  <2>2. Len(labels) = N
    BY <1>3 DEF Buffers
  <2>3. before \in Nat /\ M \in Nat /\ N \in Nat /\ before = M - N
    <3>1. entries \in Seq(EntryType) /\ idxt \in Seq(0..(Word - 1))
      BY <2>1 DEF IndexTypeOK, TypeOK
    <3>2. before \in Nat /\ before = M - N
      BY <1>3 DEF Buffers
    <3>3. M \in Nat /\ N \in Nat
      BY ONLY <3>1
    <3> QED BY <3>2, <3>3
  <2>5. M = before + N
    <3> HIDE DEF M, N
    <3> QED BY ONLY <2>3
  <2>4. IsDeep <=> \E k \in DOMAIN entries : entries[k].kind = "child"
    BY <1>3, <2>1 DEF RecordsInv
  <2> QED BY <2>1, <2>2, <2>3, <2>4, <2>5 DEF IndexTypeOK, TypeOK
<1>6. n \in Nat /\ N \in Nat /\ M \in Nat /\ at \in Nat /\ EndOfIdxt1 \in Nat /\ EndOfIdxt1 < at
      /\ EndOfOffsets = at + 196 + n + 2 * M /\ Len(f) >= at + 196 + n + 2 * M /\ Len(f) = reader.size
  <2>1. n \in Nat /\ N \in Nat
    BY ONLY <1>5
  <2>2. EndOfOffsets = at + 196 + n + 2 * M
    <3> HIDE DEF at, n, M
    <3>1. EndOfOffsets = at + 192 + n + 4 + 2 * M
      BY <1>5 DEF EndOfOffsets, EndOfEntries, IndxHeaderLen, at, n
    <3> QED BY ONLY <1>3, <2>1, <3>1
  <2> QED BY <1>1, <1>3, <2>1, <2>2
<1>7. /\ NoIndexAt(f, at) <=> Len(f) < at + (196 + n)
      /\ Len(f) >= at + (196 + n) =>
           /\ Field(f, at + 20) = 192 + n /\ Field(f, at + 24) = Len(idxt)
           /\ Offsets(f, at + (192 + n), Len(idxt)) =
                IF Len(f) >= at + (196 + n + 2 * Len(idxt)) THEN idxt ELSE [k \in 1..Len(idxt) |-> 0]
  <2>1. SecondIs(indx2) /\ 192 + Len(cncx) < Uint32 /\ Len(idxt) < Uint32 /\ idxt # <<>>
    BY <1>3
  <2>2. f \in Seq(Byte) /\ at \in Nat /\ Carries(f, at, indx2)
    BY <1>3, <1>4 DEF Carries
  <2>3. cncx \in Seq(Byte) /\ idxt \in Seq(0..(Word - 1))
    BY <1>5
  <2> HIDE DEF f, at
  <2>4. SecondFound(f, at)
    BY ONLY <2>1, <2>2, <2>3, SecondRead, ZenonT(30)
  <2> QED BY ONLY <2>4, ZenonT(30) DEF SecondFound, n
<1>8. Parse(f) = IF NoIndexAt(f, 0) THEN Found(f, "error", <<>>)
                 ELSE IF NoIndexAt(f, at) THEN Found(f, "nil", <<>>)
                 ELSE IndexRecord(f, at, tags)
  BY DEF Parse
<1> HIDE DEF f, at, n, N, M, all, tags, B
<1>9. /\ ~(Len(f) < at + (196 + n)) /\ Len(f) >= at + (196 + n) /\ Len(f) >= at + (196 + n + 2 * M)
      /\ ~(reader.size < EndOfIdxt1) /\ reader.size >= EndOfIdxt1
  <2> DEFINE size == reader.size
  <2>1. size = Len(f) /\ size \in Nat
    BY ONLY <1>3, <1>6
  <2> HIDE DEF size
  <2>2. /\ ~(size < at + (196 + n)) /\ size >= at + (196 + n) /\ size >= at + (196 + n + 2 * M)
        /\ ~(size < EndOfIdxt1) /\ size >= EndOfIdxt1
    BY ONLY <1>6, <2>1
  <2> QED BY <2>1, <2>2 DEF size
<1>10. /\ reader = IndexRecord(f, at, tags) /\ TagsIs(tags, AllTags(IsDeep))
       /\ Field(f, at + 20) = 192 + n /\ Field(f, at + 24) = M /\ Offsets(f, at + (192 + n), M) = idxt
  BY ONLY <1>3, <1>5, <1>7, <1>8, <1>9, ZenonT(40)
<1>11. \A k \in 1..N :
         /\ idxt[before + k] = 192 + B(k - 1) /\ B(k - 1) \in Nat
         /\ B(k - 1) + Len(all[k]) <= n
         /\ DataLen(idxt, 192 + n, before + k) = Len(all[k])
         /\ \A j \in 1..Len(all[k]) : cncx[B(k - 1) + j] = all[k][j]
  <2>1. PlacesAreTrue(before)
    BY <1>1, <1>3, <1>5, TruePlaces
  <2> TAKE k \in 1..N
  <2>2. DataLen(idxt, 192 + n, before + k) = Len(all[k])
    BY <1>1, <1>5, <2>1, LengthsFit DEF N, n, all
  <2>3. k \in 1..Len(entries)
    BY DEF N
  <2> QED BY <2>1, <2>2, <2>3, SMTT(30) DEF PlacesAreTrue, n, B, all
<1>12. \A j \in 1..n : f[at + 192 + j] = cncx[j]
  <2>1. SecondIs(indx2)
    BY <1>3
  <2>2. \A j \in 1..n : indx2[192 + j] = cncx[j]
    BY ONLY <2>1 DEF SecondIs, n
  <2>3. Len(indx2) \in Nat /\ Len(indx2) >= 196 + n + 2 * M
    <3>1. indx2 \in Seq(Byte) /\ Len(indx2) >= 196 + n + 2 * Len(idxt)
      BY ONLY <2>1 DEF SecondIs, n
    <3>2. Len(idxt) = M
      BY <1>5
    <3>3. Len(indx2) \in Nat
      BY ONLY <3>1
    <3> QED BY ONLY <3>1, <3>2, <3>3
  <2> TAKE j \in 1..n
  <2>4. 192 + j \in 1..Len(indx2) /\ at + (192 + j) <= Len(f) /\ at + (192 + j) = at + 192 + j
    BY ONLY <1>6, <2>3, j \in 1..n
  <2>5. f[at + (192 + j)] = indx2[192 + j]
    BY <1>4, <2>4 DEF at
  <2> QED BY <2>2, <2>4, <2>5
<1> DEFINE e(k) == entries[k]
           v(k) == EntryValues(e(k), labels[k].at)
           len(i) == BytesAt(f, at + idxt[i], 1)[1]
           label(i) == BytesAt(f, at + idxt[i] + 1, len(i))
           data(i) == BytesAt(f, at + idxt[i] + 1 + len(i), DataLen(idxt, 192 + n, i))
<1>13. ASSUME NEW k \in 1..N
       PROVE  /\ DataLen(idxt, 192 + n, before + k) # 0
              /\ [label |-> label(before + k), values |-> parsePtagx(data(before + k), tags)] = Expected(k)
  <2> DEFINE o == before + k
             p == at + idxt[o]
             b == all[k]
             L == Label(entries[k].label)
             control == controlByte(EntryTags(entries[k].kind))
  <2>1. entries[k] \in EntryType /\ labels[k].at \in Nat /\ entries[k].label \in Nat
    <3>1. k \in DOMAIN entries /\ k \in DOMAIN labels
      BY <1>5 DEF N
    <3>2. entries \in Seq(EntryType) /\ labels \in Seq([at : Nat, title : NodeType])
      BY <1>5
    <3>3. entries[k] \in EntryType /\ labels[k] \in [at : Nat, title : NodeType]
      <4> DEFINE T == [at : Nat, title : NodeType]
      <4> HIDE DEF T
      <4>1. labels \in Seq(T) /\ entries \in Seq(EntryType)
        BY <3>2 DEF T
      <4>2. entries[k] \in EntryType
        BY ONLY <3>1, <4>1
      <4>3. labels[k] \in T
        BY ONLY <3>1, <4>1
      <4> QED BY <4>2, <4>3 DEF T
    <3> QED BY <3>3 DEF EntryType
  <2>2. EntryIs(b, L, control, ValueBytes(v(k)))
    BY <1>5, AllEntriesType DEF N, all
  <2>3. b \in Seq(Byte) /\ Len(b) \in Nat
    BY <2>2 DEF EntryIs
  <2>4. L \in Seq(Byte) /\ Len(L) < 256
    <3>1. k \in DOMAIN entries
      BY <1>5 DEF N
    <3> QED BY <1>1, <2>1, <3>1, LabelType DEF LabelsFit
  <2>5. v(k) \in Seq(Nat) /\ \A i \in 1..Len(v(k)) : v(k)[i] < Uint32
    <3>1. k \in DOMAIN entries
      BY <1>5 DEF N
    <3> QED BY <1>1, <2>1, <3>1, ValuesType DEF ValuesFit
  <2>6. p \in Nat /\ p = at + 192 + B(k - 1) /\ B(k - 1) \in Nat /\ B(k - 1) + Len(b) <= n
        /\ DataLen(idxt, 192 + n, o) = Len(b)
    <3>1. idxt[o] = 192 + B(k - 1) /\ B(k - 1) \in Nat /\ B(k - 1) + Len(all[k]) <= n
          /\ DataLen(idxt, 192 + n, o) = Len(all[k])
      BY <1>11
    <3>2. at \in Nat
      BY <1>6
    <3> DEFINE w == idxt[o]
               x == B(k - 1)
    <3> HIDE DEF w, x, o
    <3>3. w = 192 + x /\ x \in Nat
      BY <3>1 DEF w, x
    <3>4. at + w \in Nat /\ at + w = at + 192 + x
      BY ONLY <3>2, <3>3
    <3> QED BY <3>1, <3>4 DEF w, x
  <2> HIDE DEF o
  <2>7. PartIn(f, p, b)
    <3> HIDE DEF p
    <3>1. p + Len(b) <= Len(f)
      BY ONLY <1>6, <2>3, <2>6, SMTT(30)
    <3>2. \A j \in 1..Len(b) : f[p + j] = b[j]
      <4> TAKE j \in 1..Len(b)
      <4>1. B(k - 1) + j \in 1..n /\ at + 192 + (B(k - 1) + j) = p + j
        BY ONLY <1>6, <2>3, <2>6, j \in 1..Len(b), SMTT(30)
      <4>2. f[at + 192 + (B(k - 1) + j)] = cncx[B(k - 1) + j]
        BY ONLY <1>12, <4>1
      <4>3. cncx[B(k - 1) + j] = b[j]
        BY <1>11
      <4> QED BY ONLY <4>1, <4>2, <4>3
    <3> QED BY <3>1, <3>2 DEF PartIn
  <2> DEFINE values == v(k)
             d == BytesAt(f, p + 1 + Len(L), Len(b))
  <2>8. /\ BytesAt(f, p, 1)[1] = Len(L) /\ BytesAt(f, p + 1, Len(L)) = L
        /\ DataOf(d, values) /\ d[1] = control /\ Len(b) \in Nat \ {0}
    <3>1. f \in Seq(Byte) /\ p \in Nat
      BY <1>3, <2>6
    <3> HIDE DEF p, b, L, control, values
    <3> QED BY ONLY <2>2, <2>4, <2>5, <2>7, <3>1, EntryAt DEF values
  <2>9. parsePtagx(d, tags) = PairsOf(entries[k], labels[k].at)
    <3>1. IsDeep \in BOOLEAN
      BY DEF IsDeep
    <3>2. IsDeep \/ entries[k].kind = "single"
      <4>1. k \in DOMAIN entries /\ entries[k].kind \in {"single", "parent", "child"}
        BY <1>5, <2>1 DEF N, EntryType
      <4> QED BY <1>5, <4>1 DEF IsDeep
    <3>3. entries[k] \in EntryType /\ labels[k].at \in Nat
      BY <2>1
    <3>4. \A i \in 1..Len(EntryValues(entries[k], labels[k].at)) : EntryValues(entries[k], labels[k].at)[i] < Uint32
      BY <2>5
    <3>5. DataOf(d, EntryValues(entries[k], labels[k].at)) /\ d[1] = controlByte(EntryTags(entries[k].kind))
      BY <2>8
    <3> HIDE DEF d
    <3> QED BY ONLY <1>10, <3>1, <3>2, <3>3, <3>4, <3>5, EntryParsed
  <2>10. len(o) = Len(L)
    BY <2>8
  <2>11. label(o) = L /\ data(o) = d
    BY <2>6, <2>8, <2>10
  <2>12. DataLen(idxt, 192 + n, o) # 0
    BY <2>6, <2>8
  <2> HIDE DEF label, data, d, L
  <2> QED BY <2>9, <2>11, <2>12, ExpectedIs DEF L, o
<1> DEFINE stops == \E i \in DOMAIN idxt : DataLen(idxt, 192 + n, i) = 0
           found == [i \in DOMAIN idxt |-> [label |-> label(i), values |-> parsePtagx(data(i), tags)]]
           early == \E i \in 1..before : DataLen(idxt, 192 + n, i) = 0
<1>14. IndexRecord(f, at, tags) = IF stops THEN Found(f, "panic", <<>>) ELSE Found(f, "nil", found)
  BY <1>10, SMTT(30) DEF IndexRecord
<1> HIDE DEF e, v, len, label, data
<1>15. DOMAIN idxt = 1..M
  BY <1>5 DEF M
<1>16. stops <=> early
  <2>1. \A i \in 1..before : i \in 1..M
    BY ONLY <1>5, <1>6
  <2>2. \A i \in 1..M : i \in 1..before \/ (i - before \in 1..N /\ before + (i - before) = i)
    BY ONLY <1>5, <1>6
  <2>3. \A k \in 1..N : DataLen(idxt, 192 + n, before + k) # 0
    BY <1>13
  <2> QED BY <1>15, <2>1, <2>2, <2>3
<1>17. found = [i \in 1..M |-> found[i]] /\ \A k \in 1..N : found[before + k] = Expected(k)
  <2>1. found = [i \in 1..M |-> found[i]]
    BY <1>15
  <2>2. \A k \in 1..N : before + k \in 1..M
    BY ONLY <1>5, <1>6, SMTT(30)
  <2> QED BY <1>13, <1>15, <2>1, <2>2
<1> HIDE DEF found, stops, early
<1>18. IF early THEN reader.result = "panic" ELSE reader.entries = found
  BY ONLY <1>10, <1>14, <1>16, FoundIs
<1> QED BY <1>17, <1>18 DEF TailRead, early, M, N, n

(* What a reader finds in the index of a book that was written once, for   *)
(* every book in whose index no offset has wrapped: every entry with its   *)
(* label, its values and its links (writer.go:375, reader.go:218).         *)
THEOREM EntriesAreRead ==
  ReaderSpec => [](FileFits /\ EntriesFit /\ LabelsFit /\ ValuesFit /\ NoOffsetWrapped => EntriesRead)
<1>1. ASSUME IndexIndInv, FileFits, EntriesFit, LabelsFit, ValuesFit, NoOffsetWrapped PROVE EntriesRead
  <2>1. SUFFICES ASSUME reader.result # "none", reader.size = Len(File), writes = 1
                 PROVE  reader.entries = AllExpected
    BY <1>1 DEF EntriesRead, Whole
  <2> DEFINE zero == 0
             N == Len(entries)
  <2>2. Len(idxt) = N /\ N \in Nat /\ DOMAIN entries = 1..N
    <3>1. reader # NotRead
      BY <2>1, NotReadIs
    <3>2. Indexed /\ IdxtInv /\ IndexTypeOK
      BY <1>1, <3>1 DEF IndexIndInv, RecordsInv
    <3> QED BY <2>1, <3>2 DEF IdxtInv, Indexed, IndexTypeOK, TypeOK
  <2>3. zero = Len(idxt) - Len(entries)
    BY <2>2
  <2>4. 1..zero = {} /\ \A k \in 1..N : zero + k = k
    BY <2>2
  <2> HIDE DEF zero
  <2>5. TailRead(zero)
    BY <1>1, <2>1, <2>3, TailIsRead
  <2>6. /\ reader.entries = [i \in 1..N |-> reader.entries[i]]
        /\ \A k \in 1..N : reader.entries[zero + k] = Expected(k)
    BY <2>2, <2>4, <2>5 DEF TailRead
  <2>7. \A k \in 1..N : reader.entries[k] = Expected(k)
    BY <2>4, <2>6
  <2>8. AllExpected = [k \in 1..N |-> Expected(k)]
    BY <2>2 DEF AllExpected
  <2> HIDE DEF N
  <2> QED BY <2>6, <2>7, <2>8
<1>2. IndexIndInv => (FileFits /\ EntriesFit /\ LabelsFit /\ ValuesFit /\ NoOffsetWrapped => EntriesRead)
  BY <1>1
<1> QED BY <1>2, IndexInvariance, PTL

(* What it finds in the index of a book that was written twice, when no    *)
(* offset has wrapped in either: the entries of the second are the last it *)
(* finds, or, when the first had nothing but its contents, two equal       *)
(* offsets make it panic (writer.go:375, reader.go:218).                   *)
THEOREM RewrittenIsRead ==
  ReaderSpec /\ []NoOffsetWrapped =>
    [](FileFits /\ EntriesFit /\ LabelsFit /\ ValuesFit => RewrittenTail)
<1>1. ASSUME IndexIndInv, TableInv, FileFits, EntriesFit, LabelsFit, ValuesFit, NoOffsetWrapped
      PROVE  RewrittenTail
  <2> DEFINE before == Len(idxt) - Len(entries)
             N == Len(entries)
             n == Len(cncx)
             M == Len(idxt)
             last == reader.entries
             E(k) == Expected(k)
  <2>1. SUFFICES ASSUME reader.result # "none", reader.size = Len(File), writes = 2
                 PROVE  IF before = 1 THEN reader.result = "panic"
                        ELSE SubSeq(last, before + 1, M) = AllExpected
    BY DEF RewrittenTail, Whole
  <2>2. Indexed /\ IndexTypeOK /\ Buffers /\ entries # <<>> /\ pc = "calls"
    <3>1. reader # NotRead
      BY <2>1, NotReadIs
    <3> QED BY <1>1, <3>1 DEF IndexIndInv, RecordsInv, BuffersInv, Indexed
  <2>3. Rises(before)
    BY <1>1, <2>1, <2>2 DEF TableInv
  <2>4. entries \in Seq(EntryType) /\ idxt \in Seq(0..(Word - 1)) /\ N \in Nat \ {0} /\ DOMAIN entries = 1..N
    <3>1. entries \in Seq(EntryType) /\ idxt \in Seq(0..(Word - 1))
      BY <2>2 DEF IndexTypeOK, TypeOK
    <3> QED BY <2>2, <3>1
  <2> HIDE DEF before
  <2>5. PlacesAreTrue(before)
    BY <1>1, <2>2, TruePlaces DEF before
  <2>6. before \in Nat \ {0} /\ M = before + N /\ M \in Nat
    <3>1. before \in Nat /\ M = before + N
      BY <2>5 DEF PlacesAreTrue
    <3>2. before \in Nat \ {0}
      BY <2>3 DEF Rises
    <3> HIDE DEF M, N
    <3> QED BY ONLY <2>4, <3>1, <3>2
  <2>7. idxt[1] = 192 /\ idxt[before + 1] = 192 /\ \A k \in 1..(before - 1) : idxt[k] < idxt[k + 1]
    <3>1. 1 \in 1..N /\ 1 - 1 = 0
      BY ONLY <2>4
    <3>2. idxt[before + 1] = 192 + Before(AllEntries, 1 - 1) /\ Before(AllEntries, 0) = 0
      BY <2>5, <3>1 DEF PlacesAreTrue
    <3> QED BY <2>3, <3>1, <3>2 DEF Rises
  <2>8. TailRead(before)
    BY <1>1, <2>1, TailIsRead DEF before
  <2>9. CASE before = 1
    <3> DEFINE end == IF 1 < M THEN idxt[1 + 1] ELSE 192 + n
    <3>1. 1 < M
      <4> HIDE DEF M, N
      <4> QED BY ONLY <2>4, <2>6, <2>9
    <3>2. DataLen(idxt, 192 + n, 1) = (end - idxt[1]) % Word
      BY DEF DataLen
    <3>3. end = 192 /\ idxt[1] = 192
      BY <2>7, <2>9, <3>1
    <3>4. (192 - 192) % Word = 0
      <4>1. Word \in Nat /\ Word > 0
        BY WordAssumption
      <4> QED BY ONLY <4>1
    <3>5. DataLen(idxt, 192 + n, 1) = 0 /\ 1 \in 1..before
      <4>1. 1 \in 1..before
        BY ONLY <2>9
      <4> HIDE DEF end
      <4> QED BY ONLY <3>2, <3>3, <3>4, <4>1
    <3> QED BY <2>8, <2>9, <3>5 DEF TailRead
  <2>10. CASE before # 1
    <3>1. ASSUME NEW k \in 1..before PROVE DataLen(idxt, 192 + n, k) # 0
      <4> DEFINE end == IF k < M THEN idxt[k + 1] ELSE 192 + n
                 x == idxt[k]
                 y == idxt[k + 1]
      <4>1. DataLen(idxt, 192 + n, k) = (end - x) % Word
        BY DEF DataLen
      <4>2. k \in 1..M /\ k + 1 \in 1..M /\ k < M
        <5> HIDE DEF M, N
        <5> QED BY ONLY <2>4, <2>6, k \in 1..before
      <4>3. end = y
        BY <4>2
      <4>4. x \in 0..(Word - 1) /\ y \in 0..(Word - 1)
        BY <2>4, <4>2, OffsetType
      <4>5. x # y
        <5>1. CASE k < before
          <6>1. k \in 1..(before - 1)
            BY ONLY <2>6, <5>1, k \in 1..before
          <6>2. x < y
            BY <2>7, <6>1
          <6> HIDE DEF x, y
          <6>3. Word \in Int
            <7>1. Word \in Nat /\ Word > 0
              BY WordAssumption
            <7> QED BY ONLY <7>1
          <6> QED BY ONLY <4>4, <6>2, <6>3
        <5>2. CASE k = before
          <6>1. y = 192
            BY <2>7, <5>2
          <6>2. 192 < idxt[before]
            <7>1. before \in Nat \ {0, 1} /\ before <= M
              <8> HIDE DEF M, N
              <8> QED BY ONLY <2>4, <2>6, <2>10
            <7> QED BY <2>3, <2>4, <7>1, RisesAbove
          <6>3. 192 < x
            BY <5>2, <6>2
          <6> HIDE DEF x, y
          <6> QED BY ONLY <6>1, <6>3, <4>4
        <5> QED
          <6>1. k < before \/ k = before
            BY ONLY <2>6, k \in 1..before
          <6> QED BY <5>1, <5>2, <6>1
      <4> HIDE DEF end, x, y
      <4>6. (y - x) % Word # 0
        BY ONLY <4>4, <4>5, DifferModulo
      <4> QED BY ONLY <4>1, <4>3, <4>6
    <3>2. /\ last = [i \in 1..M |-> last[i]]
          /\ \A k \in 1..N : last[before + k] = E(k)
      BY <2>8, <3>1 DEF TailRead
    <3> HIDE DEF last, M, N, E
    <3>3. SubSeq(last, before + 1, M) = [k \in 1..N |-> last[before + k]]
      <4>1. last = [i \in 1..(before + N) |-> last[i]] /\ before \in Nat /\ N \in Nat
        BY ONLY <2>4, <2>6, <3>2
      <4>2. SubSeq(last, before + 1, before + N) = [k \in 1..N |-> last[before + k]]
        BY ONLY <4>1, TailOf
      <4> QED BY ONLY <2>6, <4>2
    <3>4. AllExpected = [k \in 1..N |-> E(k)]
      BY <2>4 DEF AllExpected, E
    <3>5. SubSeq(last, before + 1, M) = AllExpected
      BY ONLY <3>2, <3>3, <3>4
    <3> QED BY <2>10, <3>5
  <2> QED BY <2>9, <2>10
<1>2. /\ IndexIndInv /\ TableInv /\ NoOffsetWrapped
      => (FileFits /\ EntriesFit /\ LabelsFit /\ ValuesFit => RewrittenTail)
  BY <1>1
<1> QED BY <1>2, IndexInvariance, TableInvariance, PTL
=============================================================================
