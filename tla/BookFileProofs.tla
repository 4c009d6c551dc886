--------------------------- MODULE BookFileProofs ---------------------------
(***************************************************************************)
(* Proofs about the file that WriteTo makes and about its reader: IndInv   *)
(* of BookFile is inductive, and the properties follow from it.            *)
(***************************************************************************)
EXTENDS MobiReader, SequenceLemmas

-----------------------------------------------------------------------------
(* The parts of the headers.                                               *)

PartSet ==
  [what : {"pdf", "offset", "zeros", "record0", "mobi", "exth", "entry", "title"},
   len : Nat, binary : BOOLEAN]

LensOf(parts) == [k \in DOMAIN parts |-> parts[k].len]

(* The lengths of two lists of parts together. *)
LEMMA LensConcat ==
  ASSUME NEW s \in Seq(PartSet), NEW t \in Seq(PartSet)
  PROVE  /\ LensOf(s) \in Seq(Nat) /\ Len(LensOf(s)) = Len(s)
         /\ LensOf(s \o t) = LensOf(s) \o LensOf(t)
<1> DEFINE m == Len(s)
           n == Len(t)
           u == s \o t
<1>1. /\ m \in Nat /\ n \in Nat /\ u \in Seq(PartSet) /\ Len(u) = m + n
      /\ DOMAIN s = 1..m /\ DOMAIN t = 1..n /\ DOMAIN u = 1..(m + n)
      /\ \A i \in 1..m : s[i] \in PartSet /\ u[i] = s[i]
      /\ \A i \in 1..n : t[i] \in PartSet /\ u[m + i] = t[i]
  OBVIOUS
<1> HIDE DEF m, n, u
<1>2. LensOf(s) = [i \in 1..m |-> s[i].len] /\ LensOf(t) = [i \in 1..n |-> t[i].len]
      /\ LensOf(u) = [i \in 1..(m + n) |-> u[i].len]
  BY <1>1 DEF LensOf
<1>3. \A p \in PartSet : p.len \in Nat
  BY DEF PartSet
<1>4. LensOf(s) \in Seq(Nat) /\ Len(LensOf(s)) = m /\ LensOf(t) \in Seq(Nat) /\ Len(LensOf(t)) = n
  BY <1>1, <1>2, <1>3
<1>5. LensOf(s) \o LensOf(t) = [i \in 1..(m + n) |-> IF i <= m THEN LensOf(s)[i] ELSE LensOf(t)[i - m]]
  <2> DEFINE a == LensOf(s)
             b == LensOf(t)
  <2>1. a \in Seq(Nat) /\ Len(a) = m /\ b \in Seq(Nat) /\ Len(b) = n
    BY <1>4
  <2> HIDE DEF a, b
  <2> DEFINE c == a \o b
  <2>3. /\ c \in Seq(Nat) /\ Len(c) = m + n /\ \A i \in 1..m : c[i] = a[i]
        /\ \A j \in 1..n : c[m + j] = b[j]
    <3>1. /\ c \in Seq(Nat) /\ Len(c) = Len(a) + Len(b) /\ \A i \in 1..Len(a) : c[i] = a[i]
          /\ \A j \in 1..Len(b) : c[Len(a) + j] = b[j]
      <4>1. a \in Seq(Nat) /\ b \in Seq(Nat)
        BY <2>1
      <4> QED BY ONLY <4>1, ConcatElements
    <3> QED BY <2>1, <3>1
  <2> HIDE DEF c
  <2>4. ASSUME NEW i \in 1..(m + n) PROVE c[i] = IF i <= m THEN a[i] ELSE b[i - m]
    <3>1. CASE i <= m
      BY <1>1, <2>3, <3>1
    <3>2. CASE ~(i <= m)
      <4>1. i - m \in 1..n /\ m + (i - m) = i
        BY <1>1, <3>2
      <4> QED BY <2>3, <3>2, <4>1
    <3> QED BY <3>1, <3>2
  <2>5. c = [i \in 1..(m + n) |-> c[i]]
    BY <1>1, <2>3
  <2>2. a \o b = [i \in 1..(m + n) |-> IF i <= m THEN a[i] ELSE b[i - m]]
    BY <2>4, <2>5 DEF c
  <2> QED BY <2>2 DEF a, b
<1>6. ASSUME NEW i \in 1..(m + n) PROVE u[i].len = IF i <= m THEN LensOf(s)[i] ELSE LensOf(t)[i - m]
  <2>1. CASE i <= m
    <3>1. i \in 1..m
      BY <1>1, <2>1
    <3> QED BY <1>1, <1>2, <2>1, <3>1
  <2>2. CASE ~(i <= m)
    <3>1. i - m \in 1..n /\ m + (i - m) = i
      BY <1>1, <2>2
    <3>2. u[i] = t[i - m]
      BY <1>1, <3>1
    <3> QED BY <1>2, <2>2, <3>1, <3>2
  <2> QED BY <2>1, <2>2
<1>7. LensOf(u) = LensOf(s) \o LensOf(t)
  BY <1>2, <1>5, <1>6
<1> QED BY <1>4, <1>7 DEF m, u

(* What FlattenSeq puts together is as long as the pieces are. *)
LEMMA LensFlatten ==
  ASSUME NEW ss \in Seq(Seq(PartSet)), NEW r \in Seq(Nat), Len(r) = Len(ss),
         \A k \in 1..Len(ss) : Total(LensOf(ss[k])) = r[k]
  PROVE  FlattenSeq(ss) \in Seq(PartSet) /\ Total(LensOf(FlattenSeq(ss))) = Total(r)
<1> DEFINE n == Len(ss)
           F(k) == FlatPrefix(ss, k)
           I == {k \in Nat : k <= n => Total(LensOf(F(k))) = SumOfFirst(r)[k]}
<1>1. n \in Nat /\ \A k \in 1..n : ss[k] \in Seq(PartSet)
  OBVIOUS
<1>2. /\ \A k \in 0..n : F(k) \in Seq(PartSet)
      /\ F(0) = <<>> /\ F(n) = FlattenSeq(ss)
      /\ \A k \in 1..n : F(k) = F(k - 1) \o ss[k]
  BY FlattenPrefixes
<1>3. /\ SumOfFirst(r)[0] = 0
      /\ \A k \in 1..n : SumOfFirst(r)[k] = SumOfFirst(r)[k - 1] + r[k]
  BY SumSteps
<1> HIDE DEF F
<1>4. 0 \in I
  <2>1. LensOf(<<>>) \in Seq(Nat) /\ Len(LensOf(<<>>)) = 0
    BY <<>> \in Seq(PartSet), LensConcat
  <2>2. Total(LensOf(<<>>)) = 0
    BY <2>1, SumSteps DEF Total
  <2> QED BY <1>2, <1>3, <2>2
<1>5. ASSUME NEW k \in Nat, k \in I PROVE k + 1 \in I
  <2>1. SUFFICES ASSUME k + 1 <= n PROVE Total(LensOf(F(k + 1))) = SumOfFirst(r)[k + 1]
    <3> HIDE DEF n
    <3> QED OBVIOUS
  <2>2. k + 1 \in 1..n /\ (k + 1) - 1 = k /\ k \in 0..n /\ k <= n
    <3> HIDE DEF n
    <3> QED BY <1>1, <2>1
  <2>3. F(k) \in Seq(PartSet) /\ ss[k + 1] \in Seq(PartSet) /\ F(k + 1) = F(k) \o ss[k + 1]
    BY <1>1, <1>2, <2>2
  <2>4. /\ LensOf(F(k + 1)) = LensOf(F(k)) \o LensOf(ss[k + 1])
        /\ LensOf(F(k)) \in Seq(Nat) /\ LensOf(ss[k + 1]) \in Seq(Nat)
    BY <2>3, LensConcat
  <2>5. Total(LensOf(F(k + 1))) = Total(LensOf(F(k))) + Total(LensOf(ss[k + 1]))
    <3> DEFINE a == LensOf(F(k))
               b == LensOf(ss[k + 1])
    <3>1. a \in Seq(Nat) /\ b \in Seq(Nat) /\ LensOf(F(k + 1)) = a \o b
      BY <2>4
    <3> HIDE DEF a, b
    <3>2. Total(a \o b) = Total(a) + Total(b)
      BY <3>1, SumConcat
    <3> QED BY <3>1, <3>2 DEF a, b
  <2>6. Total(LensOf(F(k))) = SumOfFirst(r)[k]
    <3> HIDE DEF n
    <3> QED BY <1>5, <2>2
  <2>7. Total(LensOf(ss[k + 1])) = r[k + 1]
    BY <2>2
  <2>8. SumOfFirst(r)[k + 1] = SumOfFirst(r)[k] + r[k + 1]
    BY <1>3, <2>2
  <2> QED BY <2>5, <2>6, <2>7, <2>8
<1>6. n \in I
  <2> HIDE DEF I
  <2> QED BY <1>1, <1>4, <1>5, Induction
<1>7. Total(LensOf(F(n))) = SumOfFirst(r)[n]
  <2> HIDE DEF n
  <2> QED BY <1>1, <1>6
<1>8. n \in 0..n
  <2> HIDE DEF n
  <2> QED BY <1>1
<1> QED BY <1>2, <1>7, <1>8 DEF Total

(* Sums of short sequences. *)
LEMMA SumOfOne ==
  ASSUME NEW a \in Nat
  PROVE  Total(<<a>>) = a
<1> DEFINE s == <<a>>
<1>1. s \in Seq(Nat) /\ Len(s) = 1 /\ s[1] = a
  OBVIOUS
<1> HIDE DEF s
<1>2. SumOfFirst(s)[0] = 0 /\ SumOfFirst(s)[1] = SumOfFirst(s)[1 - 1] + s[1]
  BY <1>1, SumSteps
<1> QED BY <1>1, <1>2 DEF Total, s

(* The sum of two lengths. *)
LEMMA SumOfTwo ==
  ASSUME NEW a \in Nat, NEW b \in Nat
  PROVE  SumOfFirst(<<a, b>>)[1] = a /\ Total(<<a, b>>) = a + b
<1> DEFINE s == <<a, b>>
<1>1. s \in Seq(Nat) /\ Len(s) = 2 /\ s[1] = a /\ s[2] = b
  OBVIOUS
<1> HIDE DEF s
<1>2. /\ SumOfFirst(s)[0] = 0 /\ SumOfFirst(s)[1] = SumOfFirst(s)[1 - 1] + s[1]
      /\ SumOfFirst(s)[2] = SumOfFirst(s)[2 - 1] + s[2]
  BY <1>1, SumSteps
<1> QED BY <1>1, <1>2 DEF Total, s

(* The sum of three lengths. *)
LEMMA SumOfThree ==
  ASSUME NEW a \in Nat, NEW b \in Nat, NEW c \in Nat
  PROVE  Total(<<a, b, c>>) = a + b + c
<1> DEFINE s == <<a, b, c>>
<1>1. s \in Seq(Nat) /\ Len(s) = 3 /\ s[1] = a /\ s[2] = b /\ s[3] = c
  OBVIOUS
<1> HIDE DEF s
<1>2. /\ SumOfFirst(s)[0] = 0 /\ SumOfFirst(s)[1] = SumOfFirst(s)[1 - 1] + s[1]
      /\ SumOfFirst(s)[2] = SumOfFirst(s)[2 - 1] + s[2]
      /\ SumOfFirst(s)[3] = SumOfFirst(s)[3 - 1] + s[3]
  BY <1>1, SumSteps
<1> QED BY <1>1, <1>2 DEF Total, s

(* n entries of eight bytes. *)
LEMMA SumOfEights ==
  ASSUME NEW n \in Nat
  PROVE  Total([k \in 1..n |-> 8]) = 8 * n
<1> DEFINE s == [k \in 1..n |-> 8]
           I == {k \in Nat : k <= n => SumOfFirst(s)[k] = 8 * k}
<1>1. s \in Seq(Nat) /\ Len(s) = n /\ \A k \in 1..n : s[k] = 8
  OBVIOUS
<1> HIDE DEF s
<1>2. SumOfFirst(s)[0] = 0 /\ \A k \in 1..n : SumOfFirst(s)[k] = SumOfFirst(s)[k - 1] + 8
  BY <1>1, SumSteps
<1>3. 0 \in I
  BY <1>2
<1>4. ASSUME NEW k \in Nat, k \in I PROVE k + 1 \in I
  <2>1. SUFFICES ASSUME k + 1 <= n PROVE SumOfFirst(s)[k + 1] = 8 * (k + 1)
    OBVIOUS
  <2>2. k + 1 \in 1..n /\ (k + 1) - 1 = k /\ k <= n
    BY <2>1
  <2>3. SumOfFirst(s)[k + 1] = SumOfFirst(s)[k] + 8 /\ SumOfFirst(s)[k] = 8 * k
    BY <1>2, <1>4, <2>2
  <2> QED BY <2>3
<1>5. n \in I
  <2> HIDE DEF I
  <2> QED BY <1>3, <1>4, Induction
<1> QED BY <1>1, <1>5 DEF Total, s

(* Where the parts are that the program goes back to, and how much is      *)
(* written before them.                                                    *)
Laid ==
  /\ RecordsNum \in Nat /\ NameOffset \in Nat
  /\ HeaderParts \in Seq(PartSet) /\ Len(HeaderParts) >= RecordsNum + 9
  /\ PartLens \in Seq(Nat) /\ Len(PartLens) = Len(HeaderParts)
  /\ \A k \in 1..Len(HeaderParts) :
       /\ PartLens[k] = HeaderParts[k].len
       /\ HeaderParts[k].what = "offset" <=> k \in 2..(RecordsNum + 1)
       /\ HeaderParts[k].what = "record0" <=> k = Record0Part
       /\ HeaderParts[k].what = "mobi" <=> k = Record0Part + 1
       /\ HeaderParts[k].what = "title" <=> k = Len(HeaderParts)
       /\ k = Len(HeaderParts) => HeaderParts[k].len = title
  /\ SumOfFirst(PartLens)[Record0Part - 1] = PalmDBHeaderLen + 8 * RecordsNum + 2
  /\ SumOfFirst(PartLens)[Len(HeaderParts) - 1] = PalmDBHeaderLen + 8 * RecordsNum + 2 + NameOffset

(* Two lists of parts one behind the other. *)
Joined(s, t, u) ==
  /\ u \in Seq(PartSet) /\ Len(u) = Len(s) + Len(t)
  /\ \A i \in 1..Len(s) : u[i] = s[i]
  /\ \A j \in 1..Len(t) : u[Len(s) + j] = t[j]
  /\ Total(LensOf(s)) \in Nat /\ Total(LensOf(t)) \in Nat
  /\ Total(LensOf(u)) = Total(LensOf(s)) + Total(LensOf(t))
  /\ \A k \in 0..Len(s) : SumOfFirst(LensOf(u))[k] = SumOfFirst(LensOf(s))[k]
  /\ \A k \in 0..Len(t) : SumOfFirst(LensOf(u))[Len(s) + k] = Total(LensOf(s)) + SumOfFirst(LensOf(t))[k]

(* Two lists of parts behind one another are joined. *)
LEMMA Joining ==
  ASSUME NEW s \in Seq(PartSet), NEW t \in Seq(PartSet)
  PROVE  Joined(s, t, s \o t)
<1>1. /\ s \o t \in Seq(PartSet) /\ Len(s \o t) = Len(s) + Len(t)
      /\ \A i \in 1..Len(s) : (s \o t)[i] = s[i]
      /\ \A j \in 1..Len(t) : (s \o t)[Len(s) + j] = t[j]
  BY ConcatElements
<1>2. /\ LensOf(s) \in Seq(Nat) /\ Len(LensOf(s)) = Len(s)
      /\ LensOf(t) \in Seq(Nat) /\ Len(LensOf(t)) = Len(t)
      /\ LensOf(s \o t) = LensOf(s) \o LensOf(t)
  BY LensConcat
<1>3. /\ \A k \in 0..Len(s) : SumOfFirst(LensOf(s) \o LensOf(t))[k] = SumOfFirst(LensOf(s))[k]
      /\ \A k \in 0..Len(t) : SumOfFirst(LensOf(s) \o LensOf(t))[Len(s) + k]
                               = Total(LensOf(s)) + SumOfFirst(LensOf(t))[k]
      /\ Total(LensOf(s) \o LensOf(t)) = Total(LensOf(s)) + Total(LensOf(t))
      /\ Total(LensOf(s)) \in Nat /\ Total(LensOf(t)) \in Nat
  <2> DEFINE a == LensOf(s)
             b == LensOf(t)
  <2>1. a \in Seq(Nat) /\ b \in Seq(Nat) /\ Len(a) = Len(s) /\ Len(b) = Len(t)
    BY <1>2
  <2> HIDE DEF a, b
  <2>2. /\ \A k \in 0..Len(a) : SumOfFirst(a \o b)[k] = SumOfFirst(a)[k]
        /\ \A k \in 0..Len(b) : SumOfFirst(a \o b)[Len(a) + k] = Total(a) + SumOfFirst(b)[k]
        /\ Total(a \o b) = Total(a) + Total(b) /\ Total(a) \in Nat /\ Total(b) \in Nat
    BY <2>1, SumConcat
  <2> QED BY <2>1, <2>2 DEF a, b
<1> DEFINE u == s \o t
           a == LensOf(s)
           b == LensOf(t)
<1>4. LensOf(u) = a \o b
  BY <1>2
<1>5. /\ u \in Seq(PartSet) /\ Len(u) = Len(s) + Len(t)
      /\ \A i \in 1..Len(s) : u[i] = s[i]
      /\ \A j \in 1..Len(t) : u[Len(s) + j] = t[j]
  BY <1>1
<1>6. /\ \A k \in 0..Len(s) : SumOfFirst(a \o b)[k] = SumOfFirst(a)[k]
      /\ \A k \in 0..Len(t) : SumOfFirst(a \o b)[Len(s) + k] = Total(a) + SumOfFirst(b)[k]
      /\ Total(a \o b) = Total(a) + Total(b) /\ Total(a) \in Nat /\ Total(b) \in Nat
  BY <1>3
<1>7. Joined(s, t, u)
  <2> HIDE DEF u
  <2> QED BY <1>4, <1>5, <1>6 DEF Joined
<1> QED BY <1>7

(* initPDF. *)
LEMMA PdfShape ==
  ASSUME RecordsNum \in Nat
  PROVE  /\ PdfParts \in Seq(PartSet) /\ Len(PdfParts) = RecordsNum + 2
         /\ Total(LensOf(PdfParts)) = PalmDBHeaderLen + 8 * RecordsNum + 2
         /\ \A k \in 1..(RecordsNum + 2) :
              IF k \in 2..(RecordsNum + 1) THEN PdfParts[k].what = "offset"
              ELSE PdfParts[k].what \in {"pdf", "zeros"}
<1> DEFINE n == RecordsNum
           a == <<Part("pdf", PalmDBHeaderLen, TRUE)>>
           b == [k \in 1..n |-> Part("offset", 8, TRUE)]
           c == <<Part("zeros", 2, FALSE)>>
<1>1. a \in Seq(PartSet) /\ Len(a) = 1 /\ LensOf(a) = <<78>> /\ a[1].what = "pdf"
  BY DEF Part, PartSet, PalmDBHeaderLen, LensOf
<1>2. c \in Seq(PartSet) /\ Len(c) = 1 /\ LensOf(c) = <<2>> /\ c[1].what = "zeros"
  BY DEF Part, PartSet, LensOf
<1>3. b \in Seq(PartSet) /\ Len(b) = n /\ LensOf(b) = [k \in 1..n |-> 8]
      /\ \A k \in 1..n : b[k].what = "offset"
  BY DEF Part, PartSet, LensOf
<1> HIDE DEF n, a, b, c
<1>4. PdfParts = (a \o b) \o c
  BY DEF PdfParts, a, b, c, n
<1>5. n \in Nat
  BY DEF n
<1> DEFINE ab == a \o b
<1>6. Joined(a, b, ab)
  BY <1>1, <1>3, Joining
<1>7. Joined(ab, c, PdfParts)
  <2>1. ab \in Seq(PartSet)
    BY <1>6 DEF Joined
  <2>2. PdfParts = ab \o c
    BY <1>4
  <2> HIDE DEF ab
  <2> QED BY <1>2, <2>1, <2>2, Joining
<1> HIDE DEF ab
<1>8. Total(LensOf(PdfParts)) = 78 + 8 * n + 2
  <2>1. Total(LensOf(a)) = 78 /\ Total(LensOf(b)) = 8 * n /\ Total(LensOf(c)) = 2
    BY <1>1, <1>2, <1>3, <1>5, SumOfOne, SumOfEights
  <2> QED BY <1>6, <1>7, <2>1 DEF Joined
<1>9. /\ PdfParts \in Seq(PartSet) /\ Len(PdfParts) = n + 2
      /\ PdfParts[1] = a[1] /\ PdfParts[n + 2] = c[1]
      /\ \A k \in 1..n : PdfParts[1 + k] = b[k]
  <2>1. /\ ab \in Seq(PartSet) /\ Len(ab) = n + 1 /\ ab[1] = a[1]
        /\ \A k \in 1..n : ab[1 + k] = b[k]
    BY <1>1, <1>3, <1>5, <1>6 DEF Joined
  <2>2. /\ PdfParts \in Seq(PartSet) /\ Len(PdfParts) = (n + 1) + 1
        /\ PdfParts[(n + 1) + 1] = c[1] /\ \A i \in 1..(n + 1) : PdfParts[i] = ab[i]
    BY <1>2, <1>5, <1>7, <2>1 DEF Joined
  <2>3. \A k \in 1..n : 1 + k \in 1..(n + 1)
    BY <1>5
  <2>4. 1 \in 1..(n + 1) /\ (n + 1) + 1 = n + 2
    BY <1>5
  <2> QED BY <2>1, <2>2, <2>3, <2>4
<1>10. ASSUME NEW k \in 1..(n + 2)
       PROVE  IF k \in 2..(n + 1) THEN PdfParts[k].what = "offset"
              ELSE PdfParts[k].what \in {"pdf", "zeros"}
  <2>1. CASE k \in 2..(n + 1)
    <3>1. k - 1 \in 1..n /\ 1 + (k - 1) = k
      BY <1>5, <2>1
    <3> QED BY <1>3, <1>9, <2>1, <3>1
  <2>2. CASE k \notin 2..(n + 1)
    <3>1. k = 1 \/ k = n + 2
      BY <1>5, <2>2
    <3> QED BY <1>1, <1>2, <1>9, <2>2, <3>1
  <2> QED BY <2>1, <2>2
<1> QED BY <1>8, <1>9, <1>10 DEF n, PalmDBHeaderLen

(* pad, of so few bytes. *)
LEMMA PadShape ==
  ASSUME NEW len \in Nat
  PROVE  /\ Pad(len) \in Seq(PartSet) /\ Total(LensOf(Pad(len))) = len
         /\ \A k \in DOMAIN Pad(len) : Pad(len)[k].what = "zeros"
<1>1. CASE len = 0
  <2> DEFINE s == Pad(len)
  <2>1. s = <<>> /\ s \in Seq(PartSet) /\ LensOf(s) = <<>>
    BY <1>1 DEF Pad, LensOf
  <2>2. Total(<<>>) = 0
    <3> DEFINE e == <<>>
    <3>1. e \in Seq(Nat) /\ Len(e) = 0
      OBVIOUS
    <3> HIDE DEF e
    <3>2. Total(e) = 0
      BY <3>1, SumSteps DEF Total
    <3> QED BY <3>2 DEF e
  <2>3. DOMAIN s = {}
    BY <2>1
  <2> HIDE DEF s
  <2>4. Total(LensOf(s)) = len /\ \A k \in DOMAIN s : s[k].what = "zeros"
    BY <1>1, <2>1, <2>2, <2>3
  <2> QED BY <2>1, <2>4 DEF s
<1>2. CASE len # 0
  <2>1. Pad(len) = <<Part("zeros", len, FALSE)>>
    BY <1>2 DEF Pad
  <2>2. Pad(len) \in Seq(PartSet) /\ LensOf(Pad(len)) = <<len>> /\ Pad(len)[1].what = "zeros"
    BY <2>1 DEF Part, PartSet, LensOf
  <2>3. Total(LensOf(Pad(len))) = len
    BY <2>2, SumOfOne
  <2>4. DOMAIN Pad(len) = {1}
    BY <2>1
  <2> QED BY <2>2, <2>3, <2>4
<1> QED BY <1>1, <1>2

(* One record of the EXTH header. *)
LEMMA EntryShape ==
  ASSUME NEW len \in Nat, NEW s,
         s = <<Part("entry", 4, TRUE), Part("entry", 4, TRUE), Part("entry", len, TRUE)>>
  PROVE  /\ s \in Seq(PartSet) /\ Len(s) = 3 /\ LensOf(s) = <<4, 4, len>>
         /\ \A j \in DOMAIN s : s[j].what = "entry"
<1>1. /\ Part("entry", 4, TRUE) \in PartSet /\ Part("entry", 4, TRUE).what = "entry"
      /\ Part("entry", len, TRUE) \in PartSet /\ Part("entry", len, TRUE).what = "entry"
      /\ Part("entry", 4, TRUE).len = 4 /\ Part("entry", len, TRUE).len = len
  BY DEF Part, PartSet
<1>2. /\ s \in Seq(PartSet) /\ Len(s) = 3 /\ DOMAIN s = 1..3
      /\ s[1] = Part("entry", 4, TRUE) /\ s[2] = Part("entry", 4, TRUE) /\ s[3] = Part("entry", len, TRUE)
  <2> DEFINE p == Part("entry", 4, TRUE)
             q == Part("entry", len, TRUE)
  <2>1. p \in PartSet /\ q \in PartSet /\ s = <<p, p, q>>
    BY <1>1
  <2> HIDE DEF p, q
  <2>2. s \in Seq(PartSet) /\ Len(s) = 3 /\ DOMAIN s = 1..3 /\ s[1] = p /\ s[2] = p /\ s[3] = q
    <3>1. p \in PartSet /\ q \in PartSet
      BY <2>1
    <3>2. <<p, p, q>> \in Seq(PartSet)
      BY ONLY <3>1
    <3>3. Len(<<p, p, q>>) = 3 /\ <<p, p, q>>[1] = p /\ <<p, p, q>>[2] = p /\ <<p, p, q>>[3] = q
      BY ONLY <3>1
    <3>4. s = <<p, p, q>>
      BY <2>1
    <3>5. s \in Seq(PartSet) /\ Len(s) = 3 /\ s[1] = p /\ s[2] = p /\ s[3] = q
      BY ONLY <3>2, <3>3, <3>4
    <3>6. DOMAIN s = 1..3
      BY ONLY <3>5
    <3> QED BY <3>5, <3>6
  <2> QED BY <2>2 DEF p, q
<1>3. \A j \in 1..3 : j = 1 \/ j = 2 \/ j = 3
  OBVIOUS
<1>4. \A j \in DOMAIN s : s[j].what = "entry"
  BY <1>1, <1>2, <1>3
<1> DEFINE t == <<4, 4, len>>
<1>5. t = [j \in 1..3 |-> t[j]] /\ t[1] = 4 /\ t[2] = 4 /\ t[3] = len
  OBVIOUS
<1> HIDE DEF t
<1>6. LensOf(s) = [j \in 1..3 |-> s[j].len]
  BY <1>2 DEF LensOf
<1>7. \A j \in 1..3 : s[j].len = t[j]
  BY <1>1, <1>2, <1>3, <1>5
<1>8. LensOf(s) = t
  BY <1>5, <1>6, <1>7
<1> QED BY <1>2, <1>4, <1>8 DEF t

(* initExth: as long as GetHeaderLenght says. *)
LEMMA ExthShape ==
  ASSUME TypeOK, ImagesInv
  PROVE  /\ ExthParts \in Seq(PartSet) /\ Len(ExthParts) >= 3
         /\ ExthHeaderLen \in Nat /\ ExthHeaderLen >= 12
         /\ ExthLen = 12 + Total([k \in DOMAIN exth |-> exth[k].RecordLength])
         /\ ExthHeaderLen = ExthLen + ExthPadding /\ ExthPadding \in Nat /\ ExthLen \in Nat
         /\ Total(LensOf(ExthParts)) = ExthHeaderLen
         /\ \A k \in DOMAIN ExthParts : ExthParts[k].what \in {"exth", "entry", "zeros"}
<1> DEFINE r == [k \in DOMAIN exth |-> exth[k].RecordLength]
           ss == [k \in DOMAIN exth |->
                    <<Part("entry", 4, TRUE), Part("entry", 4, TRUE),
                      Part("entry", exth[k].RecordLength - 8, TRUE)>>]
           a == <<Part("exth", 4, TRUE), Part("entry", 4, TRUE), Part("entry", 4, TRUE)>>
           b == FlattenSeq(ss)
           c == Pad(ExthPadding)
           n == Len(exth)
<1>1. /\ n \in Nat /\ DOMAIN exth = 1..n
      /\ \A k \in 1..n : exth[k].RecordLength \in Nat /\ exth[k].RecordLength >= 8
  <2> DEFINE E == [type : {"other", "uri", "coverOffset", "thumbOffset"}, value : Nat, RecordLength : Nat]
  <2>1. exth \in Seq(E) /\ \A k \in DOMAIN exth : exth[k].RecordLength >= 8
    BY DEF TypeOK, ImagesInv
  <2>2. \A e \in E : e.RecordLength \in Nat
    OBVIOUS
  <2> HIDE DEF E
  <2> QED BY <2>1, <2>2
<1>2. r \in Seq(Nat) /\ Len(r) = n /\ \A k \in 1..n : r[k] = exth[k].RecordLength
  <2> HIDE DEF n
  <2> QED BY <1>1
<1>3. /\ Len(ss) = n /\ ss \in Seq(Seq(PartSet))
      /\ \A k \in 1..n : ss[k] = <<Part("entry", 4, TRUE), Part("entry", 4, TRUE),
                                   Part("entry", exth[k].RecordLength - 8, TRUE)>>
  <2> HIDE DEF n
  <2>1. ASSUME NEW k \in 1..n
        PROVE  <<Part("entry", 4, TRUE), Part("entry", 4, TRUE),
                 Part("entry", exth[k].RecordLength - 8, TRUE)>> \in Seq(PartSet)
    <3>1. exth[k].RecordLength - 8 \in Nat
      BY <1>1
    <3> QED BY <3>1, EntryShape
  <2> DEFINE P(k) == <<Part("entry", 4, TRUE), Part("entry", 4, TRUE),
                       Part("entry", exth[k].RecordLength - 8, TRUE)>>
  <2>2. ss = [k \in 1..n |-> P(k)] /\ \A k \in 1..n : P(k) \in Seq(PartSet)
    BY <1>1, <2>1
  <2> HIDE DEF P
  <2>3. Len(ss) = n /\ ss \in Seq(Seq(PartSet)) /\ \A k \in 1..n : ss[k] = P(k)
    <3>1. n \in Nat
      BY <1>1
    <3> HIDE DEF ss
    <3> QED BY <2>2, <3>1
  <2> HIDE DEF ss
  <2> QED BY <2>3 DEF P
<1> HIDE DEF ss
<1>4. ASSUME NEW k \in 1..n PROVE Total(LensOf(ss[k])) = r[k]
  <2>1. LensOf(ss[k]) = <<4, 4, exth[k].RecordLength - 8>>
    <3>1. exth[k].RecordLength - 8 \in Nat
      BY <1>1
    <3> QED BY <1>3, <3>1, EntryShape
  <2>2. exth[k].RecordLength - 8 \in Nat
    BY <1>1
  <2>3. Total(<<4, 4, exth[k].RecordLength - 8>>) = 4 + 4 + (exth[k].RecordLength - 8)
    BY <2>2, SumOfThree
  <2> QED BY <1>1, <1>2, <2>1, <2>3
<1>5. ASSUME NEW k \in 1..n PROVE /\ \A j \in DOMAIN ss[k] : ss[k][j].what = "entry"
                                   /\ Len(ss[k]) = 3
  <2>1. exth[k].RecordLength - 8 \in Nat
    BY <1>1
  <2> QED BY <1>3, <2>1, EntryShape
<1> HIDE DEF r, n
<1>6. b \in Seq(PartSet) /\ Total(LensOf(b)) = Total(r)
  BY <1>2, <1>3, <1>4, LensFlatten
<1>7. \A k \in DOMAIN b : b[k].what = "entry"
  <2>1. Placed(PartSet, ss, b)
    BY <1>3, FlattenPlaces
  <2> TAKE i \in DOMAIN b
  <2>2. i \in 1..Len(b)
    BY <1>6
  <2>3. PICK k \in 1..Len(ss) : \E j \in 1..Len(ss[k]) : i = Before(ss, k - 1) + j
    BY <2>1, <2>2 DEF Placed
  <2>4. PICK j \in 1..Len(ss[k]) : i = Before(ss, k - 1) + j
    BY <2>3
  <2>5. b[i] = ss[k][j]
    BY <2>1, <2>4 DEF Placed
  <2>6. j \in DOMAIN ss[k] /\ k \in 1..n
    BY <1>3
  <2> QED BY <1>5, <2>5, <2>6
<1>8. /\ a \in Seq(PartSet) /\ Len(a) = 3 /\ LensOf(a) = <<4, 4, 4>>
      /\ a[1].what = "exth" /\ a[2].what = "entry" /\ a[3].what = "entry"
  BY DEF Part, PartSet, LensOf
<1>9. Total(LensOf(a)) = 12
  BY <1>8, SumOfThree
<1>10. Total(r) \in Nat
  BY <1>2, SumSteps DEF Total
<1>11. /\ ExthLen = 12 + Total(r) /\ ExthLen \in Nat /\ ExthPadding \in Nat
       /\ ExthHeaderLen = ExthLen + ExthPadding /\ ExthHeaderLen \in Nat /\ ExthHeaderLen >= 12
  BY <1>10 DEF ExthLen, ExthPadding, ExthHeaderLen, r
<1>12. c \in Seq(PartSet) /\ Total(LensOf(c)) = ExthPadding /\ \A k \in DOMAIN c : c[k].what = "zeros"
  BY <1>11, PadShape
<1>13. ExthParts = (a \o b) \o c
  BY DEF ExthParts, ss
<1> DEFINE ab == a \o b
<1> HIDE DEF a, b, c
<1>14. Joined(a, b, ab)
  BY <1>6, <1>8, Joining
<1>15. Joined(ab, c, ExthParts)
  <2>1. ab \in Seq(PartSet) /\ ExthParts = ab \o c
    BY <1>13, <1>14 DEF Joined
  <2> HIDE DEF ab
  <2> QED BY <1>12, <2>1, Joining
<1> HIDE DEF ab
<1>16. /\ ab \in Seq(PartSet) /\ Len(ab) = 3 + Len(b) /\ Total(LensOf(ab)) = 12 + Total(r)
       /\ \A i \in 1..3 : ab[i] = a[i]
       /\ \A j \in 1..Len(b) : ab[3 + j] = b[j]
  BY <1>6, <1>8, <1>9, <1>14 DEF Joined
<1>17. \A i \in 1..Len(ab) : ab[i].what \in {"exth", "entry", "zeros"}
  <2> TAKE i \in 1..Len(ab)
  <2>0. Len(b) \in Nat
    BY <1>6
  <2>1. CASE i <= 3
    <3>1. i \in 1..3 /\ (i = 1 \/ i = 2 \/ i = 3)
      BY <2>1
    <3> QED BY <1>8, <1>16, <3>1
  <2>2. CASE ~(i <= 3)
    <3>1. i - 3 \in 1..Len(b) /\ 3 + (i - 3) = i
      BY <1>16, <2>0, <2>2
    <3>2. i - 3 \in DOMAIN b
      BY <1>6, <3>1
    <3> QED BY <1>7, <1>16, <3>1, <3>2
  <2> QED BY <2>1, <2>2
<1>18. /\ ExthParts \in Seq(PartSet) /\ Len(ExthParts) = Len(ab) + Len(c)
       /\ Total(LensOf(ExthParts)) = (12 + Total(r)) + ExthPadding
       /\ \A i \in 1..Len(ab) : ExthParts[i] = ab[i]
       /\ \A j \in 1..Len(c) : ExthParts[Len(ab) + j] = c[j]
       /\ Len(ab) \in Nat /\ Len(c) \in Nat /\ Len(ab) >= 3
  <2>1. Len(ab) \in Nat /\ Len(c) \in Nat /\ Len(b) \in Nat
    BY <1>6, <1>12, <1>16
  <2> QED BY <1>12, <1>15, <1>16, <2>1 DEF Joined
<1>19. \A i \in DOMAIN ExthParts : ExthParts[i].what \in {"exth", "entry", "zeros"}
  <2> TAKE i \in DOMAIN ExthParts
  <2>0. i \in 1..(Len(ab) + Len(c))
    BY <1>18
  <2>1. CASE i <= Len(ab)
    <3>1. i \in 1..Len(ab)
      BY <1>18, <2>0, <2>1
    <3> QED BY <1>17, <1>18, <3>1
  <2>2. CASE ~(i <= Len(ab))
    <3>1. i - Len(ab) \in 1..Len(c) /\ Len(ab) + (i - Len(ab)) = i
      BY <1>18, <2>0, <2>2
    <3>2. i - Len(ab) \in DOMAIN c
      BY <1>12, <3>1
    <3>3. ExthParts[i] = c[i - Len(ab)]
      BY <1>18, <3>1
    <3> QED BY <1>12, <3>2, <3>3
  <2> QED BY <1>18, <2>0, <2>1, <2>2
<1>20. Len(ExthParts) >= 3
  BY <1>18
<1>21. Total(LensOf(ExthParts)) = ExthHeaderLen
  BY <1>10, <1>11, <1>18
<1> QED BY <1>11, <1>18, <1>19, <1>20, <1>21 DEF r

(* All of the headers. *)
LEMMA HeaderShape ==
  ASSUME TypeOK, ImagesInv
  PROVE  Laid
<1> DEFINE n == RecordsNum
           a == PdfParts
           b == MobiParts
           c == ExthParts
           d == NameParts
           ab == a \o b
           abc == ab \o c
           h == HeaderParts
<1>1. n \in Nat
  BY WordAssumption DEF RecordsNum, TypeOK
<1>2. a \in Seq(PartSet) /\ Len(a) = n + 2 /\ Total(LensOf(a)) = 78 + 8 * n + 2
      /\ \A k \in 1..(n + 2) : IF k \in 2..(n + 1) THEN a[k].what = "offset" ELSE a[k].what \in {"pdf", "zeros"}
  BY <1>1, PdfShape DEF PalmDBHeaderLen
<1>3. /\ b \in Seq(PartSet) /\ Len(b) = 2 /\ Total(LensOf(b)) = 248
      /\ b[1].what = "record0" /\ b[2].what = "mobi"
  <2>1. b \in Seq(PartSet) /\ Len(b) = 2 /\ LensOf(b) = <<16, 232>>
        /\ b[1].what = "record0" /\ b[2].what = "mobi"
    BY DEF MobiParts, Part, PartSet, LensOf, PalmDocHeaderLen, MobiHeaderLen
  <2>2. Total(<<16, 232>>) = 16 + 232
    BY SumOfTwo
  <2> QED BY <2>1, <2>2
<1>4. /\ c \in Seq(PartSet) /\ Len(c) >= 3 /\ ExthHeaderLen \in Nat /\ Total(LensOf(c)) = ExthHeaderLen
      /\ \A k \in DOMAIN c : c[k].what \in {"exth", "entry", "zeros"}
  BY ExthShape
<1>5. title \in Nat
  BY DEF TypeOK
<1>6. /\ d \in Seq(PartSet) /\ Len(d) = 2 /\ LensOf(d) = <<1, title>>
      /\ d[1].what = "zeros" /\ d[2].what = "title" /\ d[2].len = title
  BY <1>5 DEF NameParts, Part, PartSet, LensOf
<1>7. SumOfFirst(LensOf(d))[1] = 1
  BY <1>5, <1>6, SumOfTwo
<1>8. h = abc \o d
  BY DEF HeaderParts
<1> HIDE DEF n, a, b, c, d, h
<1>9. Joined(a, b, ab)
  BY <1>2, <1>3, Joining
<1>10. ab \in Seq(PartSet)
  BY <1>9 DEF Joined
<1> HIDE DEF ab
<1>11. Joined(ab, c, abc)
  BY <1>4, <1>10, Joining
<1>12. abc \in Seq(PartSet)
  BY <1>11 DEF Joined
<1> HIDE DEF abc
<1>13. Joined(abc, d, h)
  BY <1>6, <1>8, <1>12, Joining
<1> DEFINE m == Len(c)
           e == n + 4 + m
<1>14. m \in Nat /\ m >= 3 /\ e \in Nat
  BY <1>1, <1>4
<1> HIDE DEF m
<1>15. /\ Len(ab) = n + 4
       /\ \A i \in 1..(n + 2) : ab[i] = a[i]
       /\ ab[n + 3] = b[1] /\ ab[n + 4] = b[2]
       /\ Total(LensOf(ab)) = (78 + 8 * n + 2) + 248
       /\ SumOfFirst(LensOf(ab))[n + 2] = SumOfFirst(LensOf(a))[n + 2]
  <2>1. 1 \in 1..2 /\ 2 \in 1..2 /\ n + 2 \in 0..(n + 2) /\ (n + 2) + 2 = n + 4 /\ (n + 2) + 1 = n + 3
    BY <1>1
  <2> QED BY <1>2, <1>3, <1>9, <2>1 DEF Joined
<1>16. /\ Len(abc) = e
       /\ \A i \in 1..(n + 4) : abc[i] = ab[i]
       /\ \A j \in 1..m : abc[(n + 4) + j] = c[j]
       /\ Total(LensOf(abc)) = ((78 + 8 * n + 2) + 248) + ExthHeaderLen
       /\ SumOfFirst(LensOf(abc))[n + 2] = SumOfFirst(LensOf(ab))[n + 2]
  <2>1. n + 2 \in 0..(n + 4)
    BY <1>1
  <2> QED BY <1>4, <1>11, <1>15, <2>1 DEF Joined, m
<1>17. /\ h \in Seq(PartSet) /\ Len(h) = e + 2
       /\ \A i \in 1..e : h[i] = abc[i]
       /\ h[e + 1] = d[1] /\ h[e + 2] = d[2]
       /\ SumOfFirst(LensOf(h))[n + 2] = SumOfFirst(LensOf(abc))[n + 2]
       /\ SumOfFirst(LensOf(h))[e + 1] = Total(LensOf(abc)) + 1
  <2>1. n + 2 \in 0..e /\ 1 \in 0..2 /\ 1 \in 1..2 /\ 2 \in 1..2
    BY <1>1, <1>14
  <2> QED BY <1>6, <1>7, <1>13, <1>16, <2>1, SMTT(60) DEF Joined
<1>18. SumOfFirst(LensOf(h))[n + 2] = 78 + 8 * n + 2
  <2>1. SumOfFirst(LensOf(a))[n + 2] = Total(LensOf(a))
    BY <1>2, LensConcat DEF Total
  <2> QED BY <1>2, <1>15, <1>16, <1>17, <2>1
<1>19. SumOfFirst(LensOf(h))[e + 1] = 78 + 8 * n + 2 + NameOffset /\ NameOffset \in Nat
  <2>1. NameOffset = 16 + 232 + ExthHeaderLen + 1
    BY DEF NameOffset, PalmDocHeaderLen, MobiHeaderLen
  <2> QED BY <1>1, <1>4, <1>16, <1>17, <2>1
<1>20. /\ LensOf(h) \in Seq(Nat) /\ Len(LensOf(h)) = e + 2 /\ PartLens = LensOf(h)
       /\ \A k \in 1..(e + 2) : LensOf(h)[k] = h[k].len
  <2>1. LensOf(h) \in Seq(Nat) /\ Len(LensOf(h)) = e + 2 /\ DOMAIN h = 1..(e + 2)
    BY <1>17, LensConcat
  <2> QED BY <2>1 DEF LensOf, PartLens, h
<1>21. ASSUME NEW k \in 1..(e + 2)
       PROVE  /\ k \in 1..(n + 2) => h[k].what = (IF k \in 2..(n + 1) THEN "offset" ELSE h[k].what)
                                     /\ h[k].what \in {"pdf", "zeros", "offset"}
                                     /\ (h[k].what = "offset" => k \in 2..(n + 1))
              /\ k = n + 3 => h[k].what = "record0"
              /\ k = n + 4 => h[k].what = "mobi"
              /\ k \in (n + 5)..e => h[k].what \in {"exth", "entry", "zeros"}
              /\ k = e + 1 => h[k].what = "zeros"
              /\ k = e + 2 => h[k].what = "title" /\ h[k].len = title
  <2>1. ASSUME k \in 1..(n + 2) PROVE h[k] = a[k]
    <3>1. k \in 1..e /\ k \in 1..(n + 4)
      BY <1>1, <1>14, <2>1
    <3> QED BY <1>15, <1>16, <1>17, <2>1, <3>1
  <2>2. k \in 1..(n + 2) => /\ h[k].what = (IF k \in 2..(n + 1) THEN "offset" ELSE h[k].what)
                            /\ h[k].what \in {"pdf", "zeros", "offset"}
                            /\ (h[k].what = "offset" => k \in 2..(n + 1))
    BY <1>2, <2>1
  <2>3. ASSUME k = n + 3 \/ k = n + 4 PROVE h[k] = ab[k]
    <3>1. k \in 1..e /\ k \in 1..(n + 4)
      BY <1>1, <1>14, <2>3
    <3> QED BY <1>16, <1>17, <3>1
  <2>4. (k = n + 3 => h[k].what = "record0") /\ (k = n + 4 => h[k].what = "mobi")
    BY <1>3, <1>15, <2>3
  <2>5. k \in (n + 5)..e => h[k].what \in {"exth", "entry", "zeros"}
    <3>1. SUFFICES ASSUME k \in (n + 5)..e PROVE h[k].what \in {"exth", "entry", "zeros"}
      OBVIOUS
    <3>2. k - (n + 4) \in 1..m /\ (n + 4) + (k - (n + 4)) = k /\ k \in 1..e
      BY <1>1, <1>14, <3>1
    <3>3. h[k] = c[k - (n + 4)]
      BY <1>16, <1>17, <3>2
    <3>4. k - (n + 4) \in DOMAIN c
      BY <1>4, <3>2 DEF m
    <3> QED BY <1>4, <3>3, <3>4
  <2>6. (k = e + 1 => h[k].what = "zeros") /\ (k = e + 2 => h[k].what = "title" /\ h[k].len = title)
    BY <1>6, <1>17
  <2> QED BY <2>2, <2>4, <2>5, <2>6
<1>22. ASSUME NEW k \in 1..(e + 2)
       PROVE  /\ h[k].what = "offset" <=> k \in 2..(n + 1)
              /\ h[k].what = "record0" <=> k = n + 3
              /\ h[k].what = "mobi" <=> k = n + 4
              /\ h[k].what = "title" <=> k = e + 2
              /\ k = e + 2 => h[k].len = title
  <2>1. \/ k \in 1..(n + 2) \/ k = n + 3 \/ k = n + 4 \/ k \in (n + 5)..e \/ k = e + 1 \/ k = e + 2
    BY <1>1, <1>14
  <2>2. CASE k \in 1..(n + 2)
    <3>1. k # n + 3 /\ k # n + 4 /\ k # e + 2
      BY <1>1, <1>14, <2>2
    <3> QED BY <1>21, <2>2, <3>1
  <2>3. CASE k = n + 3 \/ k = n + 4
    <3>1. k \notin 2..(n + 1) /\ k # e + 2 /\ n + 3 # n + 4
      BY <1>1, <1>14, <2>3
    <3> QED BY <1>21, <2>3, <3>1
  <2>4. CASE k \in (n + 5)..e \/ k = e + 1
    <3>1. k \notin 2..(n + 1) /\ k # e + 2 /\ k # n + 3 /\ k # n + 4
      BY <1>1, <1>14, <2>4
    <3> QED BY <1>21, <2>4, <3>1
  <2>5. CASE k = e + 2
    <3>1. k \notin 2..(n + 1) /\ k # n + 3 /\ k # n + 4
      BY <1>1, <1>14, <2>5
    <3> QED BY <1>21, <2>5, <3>1
  <2> QED BY <2>1, <2>2, <2>3, <2>4, <2>5
<1>23. Len(h) >= n + 9 /\ Len(h) - 1 = e + 1 /\ Record0Part = n + 3 /\ Record0Part - 1 = n + 2
       /\ Record0Part + 1 = n + 4
  BY SMTT(30), <1>1, <1>14, <1>17 DEF Record0Part, n
<1>24. h = HeaderParts /\ n = RecordsNum
  BY DEF h, n
<1> HIDE DEF e
<1> QED BY SMTT(30), <1>1, <1>17, <1>18, <1>19, <1>20, <1>22, <1>23, <1>24 DEF Laid, PalmDBHeaderLen

-----------------------------------------------------------------------------
(* The state.                                                              *)

ImageSet == [type : {"cover", "thumb"}, len : Nat]
ExthSet == [type : {"other", "uri", "coverOffset", "thumbOffset"}, value : Nat, RecordLength : Nat]
KindSet == {"reserved", "text", "zeros", "indx1", "indx2", "cncx", "cover", "thumb", "flis", "fcis", "eof"}
RecordSet == [kind : KindSet, len : Nat, idxt : Seq(Nat)]

(* TypeOK, with its sets named. *)
Typed ==
  /\ title \in Nat
  /\ embedded \in Seq(ImageSet) /\ exth \in Seq(ExthSet) /\ records \in Seq(RecordSet)
  /\ textCount \in Nat /\ idxt \in Seq(Nat)
  /\ header \in [FirstNonBookIndex : Nat, IndxRecodOffset : Nat, FirstImageIndex : Nat \cup {NoIndex},
                 LastContentRecordNumber : Nat, FlisRecordIndex : Nat, FcisRecordIndex : Nat,
                 FullNameOffset : Nat, HeaderLenght : Nat]
  /\ pc \in {"calls", "index", "images", "trailer", "headers", "records"} /\ at \in Nat
  /\ failure \in Failures \cup {"never"} /\ down \in BOOLEAN /\ failed \in BOOLEAN
  /\ accepted \in Nat /\ writtenBytes \in Nat
  /\ table \in Seq(Nat) /\ starts \in Seq(Nat) /\ nameStart \in Nat
  /\ result \in [n : Nat, err : BOOLEAN]
  /\ writes \in 0..MaxWrites /\ (pc # "calls" => writes < MaxWrites)

(* TypeOK is Typed, in this state and in the next. *)
LEMMA Types == (TypeOK <=> Typed) /\ (TypeOK' <=> Typed')
BY DEF TypeOK, Typed, ImageSet, ExthSet, RecordSet, KindSet

(* The % of a uint16. *)
LEMMA Remainder ==
  ASSUME NEW a \in Nat
  PROVE  a % Word \in 0..(Word - 1) /\ a % Word <= a /\ (a < Word => a % Word = a)
<1>1. Word \in Nat /\ Word > 0
  BY WordAssumption
<1>2. a % Word \in 0..(Word - 1)
  BY <1>1
<1>3. a < Word => a % Word = a
  BY <1>1
<1>4. a % Word <= a
  <2>1. CASE a < Word
    BY <1>3, <2>1
  <2>2. CASE ~(a < Word)
    BY <1>1, <1>2, <2>2
  <2> QED BY <2>1, <2>2
<1> QED BY <1>2, <1>3, <1>4

(* The lengths of the records behind record 0. *)
LEMMA LengthsType ==
  ASSUME TypeOK, Len(records) >= 1
  PROVE  /\ Lengths \in Seq(Nat) /\ Len(Lengths) = Len(records) - 1
         /\ \A j \in 1..(Len(records) - 1) : Lengths[j] = records[j + 1].len
<1> DEFINE n == Len(records) - 1
<1>1. records \in Seq(RecordSet)
  BY Types DEF Typed
<1>2. n \in Nat /\ \A j \in 1..n : records[j + 1].len \in Nat
  <2>1. n \in Nat /\ \A j \in 1..n : records[j + 1] \in RecordSet
    BY <1>1
  <2>2. \A r \in RecordSet : r.len \in Nat
    BY DEF RecordSet
  <2> QED BY <2>1, <2>2
<1>3. Lengths = [j \in 1..n |-> records[j + 1].len]
  BY DEF Lengths
<1> HIDE DEF n
<1>4. Lengths \in Seq(Nat) /\ Len(Lengths) = n /\ \A j \in 1..n : Lengths[j] = records[j + 1].len
  BY <1>2, <1>3
<1> QED BY <1>4 DEF n

(* What the table can say of a record. *)
LEMMA OffsetType ==
  ASSUME TypeOK, Len(records) >= 1, NEW k \in 0..Len(records)
  PROVE  Offset(k) \in Nat
<1>1. CASE k = 0
  <2>1. RecordsNum * 8 + PalmDBHeaderLen + 2 \in Nat
    <3>1. RecordsNum \in Nat
      BY WordAssumption DEF RecordsNum, TypeOK
    <3> QED BY <3>1 DEF PalmDBHeaderLen
  <2> QED BY <1>1, <2>1, Remainder DEF Offset
<1>2. CASE k # 0
  <2>1. records \in Seq(RecordSet) /\ Len(records) \in Nat
    BY Types DEF Typed
  <2>2. k - 1 \in 0..Len(Lengths)
    BY <1>2, <2>1, LengthsType
  <2>3. SumOfFirst(Lengths)[k - 1] \in Nat
    BY <2>2, LengthsType, SumSteps
  <2>4. TextStart \in Nat
    BY WordAssumption DEF TextStart, TypeOK
  <2> QED BY <1>2, <2>3, <2>4 DEF Offset
<1> QED BY <1>1, <1>2

(* The records that are there stay where they are. *)
LEMMA RecordsKept ==
  ASSUME TypeOK, NEW more \in Seq(RecordSet), records' = records \o more
  PROVE  /\ records' \in Seq(RecordSet) /\ Len(records') = Len(records) + Len(more)
         /\ \A k \in 1..Len(records) : records'[k] = records[k]
         /\ \A j \in 1..Len(more) : records'[Len(records) + j] = more[j]
         /\ \A k, kind : IsRecord(k, kind) => IsRecord(k, kind)'
<1>1. records \in Seq(RecordSet)
  BY Types DEF Typed
<1>2. /\ records' \in Seq(RecordSet) /\ Len(records') = Len(records) + Len(more)
      /\ \A k \in 1..Len(records) : records'[k] = records[k]
      /\ \A j \in 1..Len(more) : records'[Len(records) + j] = more[j]
  BY <1>1, ConcatElements
<1>3. ASSUME NEW k, NEW kind, IsRecord(k, kind) PROVE IsRecord(k, kind)'
  <2>1. Len(records) \in Nat /\ Len(more) \in Nat
    BY <1>1
  <2>2. k + 1 \in 1..Len(records) /\ k \in 0..(Len(records') - 1)
    BY <1>2, <1>3, <2>1 DEF IsRecord
  <2> QED BY <1>2, <1>3, <2>2 DEF IsRecord, Kind
<1> QED BY <1>2, <1>3

-----------------------------------------------------------------------------
(* What a step leaves alone.                                               *)

(* RecordsInv is about nothing else. *)
LEMMA SameRecords ==
  ASSUME RecordsInv, UNCHANGED <<pc, writes, records, textCount>>
  PROVE  RecordsInv'
BY DEF RecordsInv, Kind

(* PlacesInv is about nothing else. *)
LEMMA SamePlaces ==
  ASSUME PlacesInv, UNCHANGED <<title, records, textCount, header, pc, at, writes, failed, down, accepted,
                                table, starts, nameStart>>
  PROVE  PlacesInv'
<1>1. Lengths' = Lengths /\ RecordsNum' = RecordsNum /\ TextStart' = TextStart
  BY DEF Lengths, RecordsNum, TextStart
<1>2. \A k : Offset(k)' = Offset(k)
  BY <1>1 DEF Offset
<1>3. TextBegan' = TextBegan
  BY <1>1 DEF TextBegan, HeadersFit
<1>4. StartsTrue' = StartsTrue
  BY <1>1, <1>3 DEF StartsTrue
<1>5. Finished' = Finished
  BY DEF Finished
<1> QED BY <1>1, <1>2, <1>3, <1>4, <1>5 DEF PlacesInv

(* NumbersInv is about nothing else. *)
LEMMA SameNumbers ==
  ASSUME NumbersInv, UNCHANGED <<pc, writes, records, header, exth>>
  PROVE  NumbersInv'
BY DEF NumbersInv, IsRecord, Kind, LastContent, Finished

(* OutInv is about nothing else. *)
LEMMA SameOut ==
  ASSUME OutInv, UNCHANGED <<pc, at, writes, records, outVars, table, starts, result>>
  PROVE  OutInv'
BY DEF OutInv, outVars, Finished

-----------------------------------------------------------------------------
(* The caller's steps.                                                     *)

(* AddCover keeps the invariant: a pair of images more, a thumbnail last.  *)
LEMMA CoverStep ==
  ASSUME FileInv, NEW coverLen \in ImageLens, NEW thumbLen \in ImageLens, AddCover(coverLen, thumbLen)
  PROVE  FileInv'
<1> DEFINE more == <<[type |-> "cover", len |-> coverLen], [type |-> "thumb", len |-> thumbLen]>>
<1>1. coverLen \in Nat /\ thumbLen \in Nat
  BY LensAssumption
<1>2. more \in Seq(ImageSet) /\ Len(more) = 2 /\ more[2].type = "thumb"
  BY <1>1 DEF ImageSet
<1>3. embedded \in Seq(ImageSet) /\ embedded' = embedded \o more /\ pc = "calls"
  BY Types DEF Typed, FileInv, AddCover
<1> HIDE DEF more
<1>4. /\ embedded' \in Seq(ImageSet) /\ Len(embedded') = Len(embedded) + 2 /\ Len(embedded) \in Nat
      /\ embedded'[Len(embedded) + 2] = more[2]
      /\ \A k \in 1..Len(embedded) : embedded'[k] = embedded[k]
  <2>1. /\ embedded' \in Seq(ImageSet) /\ Len(embedded') = Len(embedded) + Len(more)
        /\ \A k \in 1..Len(embedded) : embedded'[k] = embedded[k]
        /\ \A j \in 1..Len(more) : embedded'[Len(embedded) + j] = more[j]
    <3>1. more \in Seq(ImageSet) /\ embedded \in Seq(ImageSet) /\ embedded' = embedded \o more
      BY <1>2, <1>3
    <3> QED BY ONLY <3>1, ConcatElements
  <2>2. Len(embedded) \in Nat
    BY <1>3
  <2> QED BY <1>2, <2>1, <2>2
<1>5. TypeOK'
  <2>1. TypeOK
    BY DEF FileInv
  <2> QED BY <1>4, <2>1, Types DEF Typed, AddCover, outVars, fileVars
<1>6. ImagesInv'
  <2>1. embedded'[Len(embedded')].type = "thumb"
    BY <1>2, <1>4
  <2>2. ASSUME NEW k \in DOMAIN exth
        PROVE /\ exth[k].RecordLength >= 8
              /\ NamesImage(exth[k], "coverOffset", "cover")'
              /\ NamesImage(exth[k], "thumbOffset", "thumb")'
    <3>1. /\ exth[k].RecordLength >= 8 /\ exth' = exth
          /\ NamesImage(exth[k], "coverOffset", "cover") /\ NamesImage(exth[k], "thumbOffset", "thumb")
      BY DEF FileInv, ImagesInv, AddCover
    <3>2. DOMAIN embedded = 1..Len(embedded) /\ DOMAIN embedded' = 1..Len(embedded')
      BY <1>3, <1>4
    <3>3. \A i \in DOMAIN embedded : i \in DOMAIN embedded' /\ embedded'[i] = embedded[i]
      BY <1>4, <3>2
    <3> QED BY <3>1, <3>3 DEF NamesImage
  <2>3. exth' = exth
    BY DEF AddCover
  <2> QED BY <2>1, <2>2, <2>3 DEF ImagesInv, NamesImage
<1>7. RecordsInv' /\ NumbersInv' /\ OutInv' /\ PlacesInv'
  BY SameRecords, SameNumbers, SameOut, SamePlaces DEF FileInv, AddCover, outVars, fileVars
<1>8. HeadersInv'
  BY <1>3 DEF HeadersInv, AddCover
<1> QED BY <1>5, <1>6, <1>7, <1>8 DEF FileInv

(* NewExthRecord keeps the invariant: a record that names no image. *)
LEMMA ExthStep ==
  ASSUME FileInv, NEW valueLen \in ValueLens, NewExthRecord(valueLen)
  PROVE  FileInv'
<1> DEFINE r == ExthRecord("other", 0, valueLen)
<1>1. r \in ExthSet /\ r.RecordLength >= 8 /\ r.type = "other"
  BY LensAssumption DEF ExthRecord, ExthSet
<1>2. exth \in Seq(ExthSet) /\ exth' = Append(exth, r) /\ pc = "calls" /\ pc' = pc /\ TypeOK
  BY Types DEF Typed, FileInv, NewExthRecord
<1> HIDE DEF r
<1>3. /\ exth' \in Seq(ExthSet)
      /\ \A k \in DOMAIN exth' : (k \in DOMAIN exth /\ exth'[k] = exth[k]) \/ exth'[k] = r
  BY <1>1, <1>2
<1>4. TypeOK'
  BY <1>2, <1>3, Types DEF Typed, NewExthRecord, outVars, fileVars
<1>5. ImagesInv'
  <2>1. embedded' = embedded /\ ImagesInv
    BY DEF NewExthRecord, FileInv
  <2> QED BY <1>1, <1>3, <2>1 DEF ImagesInv, NamesImage
<1>6. RecordsInv' /\ OutInv' /\ PlacesInv'
  BY SameRecords, SameOut, SamePlaces DEF FileInv, NewExthRecord, outVars, fileVars
<1>7. NumbersInv'
  <2>1. NumbersInv /\ UNCHANGED <<pc, writes, records, header>>
    BY DEF FileInv, NewExthRecord
  <2> QED BY ZenonT(40), <1>1, <1>2, <1>3, <2>1 DEF NumbersInv, IsRecord, Kind, LastContent, Finished
<1>8. HeadersInv'
  BY <1>2 DEF HeadersInv
<1> QED BY <1>4, <1>5, <1>6, <1>7, <1>8 DEF FileInv

-----------------------------------------------------------------------------
(* WriteTo collects records.                                               *)

(* AddBookRecords keeps the invariant: record 0 and text behind what is there.*)
LEMMA TextStep ==
  ASSUME FileInv, NEW text \in TextLens, NEW fault \in Failures, AddBookRecords(text, fault)
  PROVE  FileInv'
<1> DEFINE zero == Rec("reserved", 1)
           body == [k \in DOMAIN text |-> Rec("text", text[k])]
           more == <<zero>> \o body
           m == Len(records)
           n == Len(text)
<1>1. /\ text \in Seq(Nat) /\ n \in Nat /\ n > 0 /\ DOMAIN text = 1..n
      /\ \A k \in 1..n : text[k] \in Nat
  BY LensAssumption
<1>2. zero \in RecordSet /\ zero.kind = "reserved"
  BY DEF Rec, RecordSet, KindSet
<1>3. body \in Seq(RecordSet) /\ Len(body) = n /\ \A k \in 1..n : body[k].kind = "text"
  <2>1. \A k \in 1..n : Rec("text", text[k]) \in RecordSet /\ Rec("text", text[k]).kind = "text"
    BY <1>1 DEF Rec, RecordSet, KindSet
  <2> HIDE DEF n
  <2> QED BY <1>1, <2>1
<1> HIDE DEF zero, body, n
<1>4. /\ more \in Seq(RecordSet) /\ Len(more) = n + 1 /\ more[1] = zero
      /\ \A k \in 1..n : more[1 + k] = body[k]
  <2>1. <<zero>> \in Seq(RecordSet) /\ Len(<<zero>>) = 1 /\ <<zero>>[1] = zero
    BY <1>2
  <2>2. /\ <<zero>> \o body \in Seq(RecordSet) /\ Len(<<zero>> \o body) = Len(<<zero>>) + Len(body)
        /\ \A i \in 1..Len(<<zero>>) : (<<zero>> \o body)[i] = <<zero>>[i]
        /\ \A j \in 1..Len(body) : (<<zero>> \o body)[Len(<<zero>>) + j] = body[j]
    <3>1. <<zero>> \in Seq(RecordSet) /\ body \in Seq(RecordSet)
      BY <1>3, <2>1
    <3> QED BY ONLY <3>1, ConcatElements
  <2>3. Len(<<zero>> \o body) = n + 1
    BY <1>1, <1>3, <2>1, <2>2
  <2>4. (<<zero>> \o body)[1] = zero
    BY <2>1, <2>2
  <2>5. \A k \in 1..n : (<<zero>> \o body)[1 + k] = body[k]
    BY <1>3, <2>1, <2>2
  <2> QED BY <2>2, <2>3, <2>4, <2>5
<1>5. TypeOK /\ records' = records \o more
  <2>1. records' = records \o <<zero>> \o body
    BY DEF AddBookRecords, zero, body
  <2>2. records \in Seq(RecordSet) /\ <<zero>> \in Seq(RecordSet) /\ TypeOK
    BY <1>2, Types DEF Typed, FileInv
  <2>3. (records \o <<zero>>) \o body = records \o (<<zero>> \o body)
    BY <1>3, <2>2
  <2> QED BY <2>1, <2>2, <2>3
<1> HIDE DEF more
<1>6. /\ records' \in Seq(RecordSet) /\ Len(records') = m + (n + 1) /\ m \in Nat
      /\ \A k \in 1..m : records'[k] = records[k]
      /\ \A j \in 1..(n + 1) : records'[m + j] = more[j]
  <2>1. m \in Nat
    BY <1>5, Types DEF Typed
  <2> QED BY <1>4, <1>5, <2>1, RecordsKept
<1>15. DOMAIN records = 1..m
  BY <1>5, Types DEF Typed
<1> HIDE DEF m
<1>7. pc = "calls" /\ pc' = "index" /\ writes' = writes /\ writes < MaxWrites /\ writes \in Nat
      /\ textCount' = TextCount(records')
  BY <1>5, BoundsAssumption, Types DEF Typed, AddBookRecords
<1>8. textCount' \in Nat /\ textCount' <= m + n
  <2>1. (m + (n + 1)) - 1 = m + n /\ m + n \in Nat
    BY <1>1, <1>6
  <2> QED BY <1>6, <1>7, <2>1, Remainder DEF TextCount
<1>14. /\ UNCHANGED <<title, embedded, exth, idxt, header, at>>
       /\ failure' \in Failures /\ down' = FALSE /\ failed' = FALSE /\ accepted' = 0 /\ writtenBytes' = 0
       /\ table' = <<>> /\ starts' = <<>> /\ nameStart' = 0 /\ result' = [n |-> 0, err |-> FALSE]
  BY DEF AddBookRecords, callVars
<1>9. TypeOK'
  <2>1. Typed
    BY <1>5, Types
  <2>2. table' \in Seq(Nat) /\ starts' \in Seq(Nat) /\ result' \in [n : Nat, err : BOOLEAN]
    BY <1>14
  <2>3. writes' \in 0..MaxWrites
    BY <1>7, BoundsAssumption
  <2> QED BY <1>6, <1>7, <1>8, <1>14, <2>1, <2>2, <2>3, Types DEF Typed
<1>10. ImagesInv'
  BY DEF FileInv, ImagesInv, NamesImage, AddBookRecords, callVars
<1>11. RecordsInv'
  <2>1. more[2].kind = "text" /\ more[1].kind = "reserved"
    <3>1. 1 \in 1..n /\ 1 + 1 = 2
      BY <1>1
    <3> QED BY <1>2, <1>3, <1>4, <3>1
  <2>2. Len(records') >= 2
    BY <1>1, <1>6
  <2>3. records'[1].kind = "reserved" /\ records'[2].kind = "text"
    <3>1. CASE writes = 0
      <4>1. records = <<>> /\ m = 0
        BY <1>7, <3>1 DEF FileInv, RecordsInv, m
      <4>2. 1 \in 1..(n + 1) /\ 2 \in 1..(n + 1) /\ 0 + 1 = 1 /\ 0 + 2 = 2
        BY <1>1
      <4> QED BY <1>6, <2>1, <4>1, <4>2
    <3>2. CASE writes # 0
      <4>1. Len(records) >= 2 /\ Kind(0) = "reserved" /\ Kind(1) = "text"
        BY <1>7, <3>2 DEF FileInv, RecordsInv
      <4>2. 1 \in 1..m /\ 2 \in 1..m /\ records[1].kind = "reserved" /\ records[2].kind = "text"
        BY <1>6, <4>1 DEF Kind, m
      <4> QED BY <1>6, <4>2
    <3> QED BY <3>1, <3>2
  <2>4. \A k \in 1..(n + 1) : more[k].kind \in {"reserved", "text"}
    <3> TAKE k \in 1..(n + 1)
    <3>1. CASE k = 1
      BY <2>1, <3>1
    <3>2. CASE k # 1
      <4>1. k - 1 \in 1..n /\ 1 + (k - 1) = k
        BY <1>1, <3>2
      <4> QED BY <1>3, <1>4, <4>1
    <3> QED BY <3>1, <3>2
  <2>5. ASSUME NEW k \in DOMAIN records', records'[k].kind \in {"indx1", "indx2"} PROVE records'[k].len > 0
    <3>1. k \in 1..(m + (n + 1))
      BY <1>6
    <3>2. CASE k <= m
      <4>1. k \in 1..m /\ k \in DOMAIN records
        BY <1>6, <1>15, <3>1, <3>2
      <4> QED BY <1>6, <2>5, <4>1 DEF FileInv, RecordsInv
    <3>3. CASE ~(k <= m)
      <4>1. k - m \in 1..(n + 1) /\ m + (k - m) = k
        BY <1>1, <1>6, <3>1, <3>3
      <4> QED BY <1>6, <2>4, <2>5, <4>1
    <3> QED BY <3>2, <3>3
  <2>6. ASSUME writes = 0, NEW k \in 1..textCount' PROVE k < Len(records') /\ records'[k + 1].kind = "text"
    <3>1. m = 0
      BY <1>7, <2>6 DEF FileInv, RecordsInv, m
    <3>2. k \in 1..n /\ k + 1 \in 1..(n + 1) /\ 0 + (k + 1) = k + 1 /\ k + 1 = 1 + k
      BY <1>1, <1>8, <3>1
    <3> QED BY <1>1, <1>3, <1>4, <1>6, <3>1, <3>2
  <2> QED BY <1>7, <2>2, <2>3, <2>5, <2>6 DEF RecordsInv, Kind
<1>12. NumbersInv' /\ HeadersInv' /\ PlacesInv'
  BY <1>7 DEF NumbersInv, HeadersInv, PlacesInv, Finished
<1>13. OutInv'
  <2>1. ~Finished' /\ pc' # "records" /\ accepted' = writtenBytes' /\ writtenBytes' <= accepted'
    BY <1>7, <1>14 DEF Finished
  <2>2. ~failed' /\ ~down' /\ accepted' = 0 /\ table' = <<>> /\ starts' = <<>>
    BY <1>14
  <2>3. down' <=> failed' /\ failure' = "for good"
    BY <2>2
  <2> QED BY ONLY <2>1, <2>2, <2>3 DEF OutInv, Finished
<1> QED BY <1>9, <1>10, <1>11, <1>12, <1>13 DEF FileInv

(* Records are added behind record 0 and the text. *)
LEMMA RecordsMore ==
  ASSUME TypeOK, RecordsInv, pc # "calls", pc' # "calls", UNCHANGED <<writes, textCount>>,
         NEW more \in Seq(RecordSet), records' = records \o more,
         \A j \in 1..Len(more) : more[j].kind \in {"indx1", "indx2"} => more[j].len > 0
  PROVE  RecordsInv'
<1> PICK m : m = Len(records)
  OBVIOUS
<1> PICK n : n = Len(more)
  OBVIOUS
<1>1. /\ Len(records') = m + n /\ m \in Nat /\ n \in Nat /\ m >= 2
      /\ DOMAIN records = 1..m /\ DOMAIN records' = 1..(m + n)
      /\ \A k \in 1..m : records'[k] = records[k]
      /\ \A j \in 1..n : records'[m + j] = more[j]
  <2>1. records \in Seq(RecordSet) /\ m \in Nat /\ m >= 2 /\ n \in Nat
    <3>1. records \in Seq(RecordSet) /\ Len(records) >= 2
      BY Types DEF Typed, RecordsInv
    <3> QED BY <3>1
  <2>2. records' \in Seq(RecordSet) /\ Len(records') = m + n
    BY RecordsKept
  <2>3. DOMAIN records = 1..m /\ DOMAIN records' = 1..(m + n)
    BY ONLY <2>1, <2>2, m = Len(records)
  <2> QED BY <2>1, <2>2, <2>3, RecordsKept
<1>2. /\ Kind(0) = "reserved" /\ Kind(1) = "text"
      /\ \A k \in DOMAIN records : records[k].kind \in {"indx1", "indx2"} => records[k].len > 0
      /\ writes = 0 => \A k \in 1..textCount : k < m /\ Kind(k) = "text"
  BY DEF RecordsInv
<1>3. Kind(0)' = "reserved" /\ Kind(1)' = "text"
  <2>1. 0 + 1 \in 1..m /\ 1 + 1 \in 1..m
    BY <1>1
  <2> QED BY <1>1, <1>2, <2>1 DEF Kind
<1>4. ASSUME NEW k \in DOMAIN records', records'[k].kind \in {"indx1", "indx2"} PROVE records'[k].len > 0
  <2>1. CASE k <= m
    <3>1. k \in 1..m /\ k \in DOMAIN records
      BY <1>1, <1>4, <2>1
    <3> QED BY <1>1, <1>2, <1>4, <3>1
  <2>2. CASE ~(k <= m)
    <3>1. k - m \in 1..n /\ m + (k - m) = k
      BY <1>1, <1>4, <2>2
    <3> QED BY <1>1, <1>4, <3>1
  <2> QED BY <2>1, <2>2
<1>5. ASSUME writes' = 0, NEW k \in 1..textCount' PROVE k < Len(records') /\ Kind(k)' = "text"
  <2>1. textCount \in Nat /\ k \in Nat /\ k >= 1 /\ k < m /\ Kind(k) = "text" /\ k + 1 \in 1..m
    <3>1. textCount \in Nat /\ writes = 0 /\ k \in 1..textCount
      BY <1>5, Types DEF Typed
    <3> QED BY <1>1, <1>2, <3>1
  <2> QED BY <1>1, <2>1 DEF Kind
<1>6. Len(records') >= 2
  BY <1>1
<1> QED BY <1>3, <1>4, <1>5, <1>6 DEF RecordsInv

(* The offsets of the entries of an index: the first is behind the header, *)
(* and without a wrap each is less than the next and than where they end.  *)
LEMMA EntriesPlaced ==
  ASSUME NEW lens \in IndexLens
  PROVE  LET n == Len(lens.entries)
             o == EntryOffsets(lens.entries)
             end == IndxHeaderLen + Total(lens.entries)
         IN  /\ n \in Nat /\ n >= 1 /\ end \in Nat /\ o \in Seq(Nat) /\ Len(o) = n
             /\ o[1] = IndxHeaderLen % Word
             /\ end < Word => /\ \A k \in 1..n : o[k] < end
                              /\ \A j, k \in 1..n : j < k => o[j] < o[k]
<1> DEFINE s == lens.entries
           n == Len(s)
           o == EntryOffsets(s)
           sum == SumOfFirst(s)
           end == IndxHeaderLen + Total(s)
<1>1. s \in Seq(1..(Word - 1)) /\ s # <<>> /\ Word \in Nat /\ Word > 0
  BY LensAssumption, WordAssumption
<1>2. s \in Seq(Nat) /\ n \in Nat /\ n >= 1 /\ DOMAIN s = 1..n /\ \A k \in 1..n : s[k] \in Nat /\ s[k] > 0
  <2>1. 1..(Word - 1) \subseteq Nat
    BY <1>1
  <2>2. s \in Seq(Nat)
    BY <1>1, <2>1
  <2>3. \A k \in DOMAIN s : s[k] \in 1..(Word - 1)
    BY <1>1, ElementOf
  <2>4. n \in Nat /\ n >= 1 /\ DOMAIN s = 1..n
    BY <1>1
  <2> QED BY <2>1, <2>2, <2>3, <2>4
<1>3. o = [k \in 1..n |-> (192 + sum[k - 1]) % Word]
  BY <1>2 DEF EntryOffsets, IndxHeaderLen
<1>4. end = 192 + sum[n]
  BY DEF Total, IndxHeaderLen
<1> HIDE DEF s, o, sum, end, n
<1>5. s \in Seq(Nat) /\ sum = SumOfFirst(s) /\ Len(s) = n
  BY <1>2 DEF sum, n
<1>6. /\ \A k \in 0..n : sum[k] \in Nat
      /\ sum[0] = 0
      /\ \A k \in 1..n : sum[k - 1] + s[k] = sum[k]
  BY <1>5, SumSteps
<1>7. ASSUME NEW k \in 1..n
      PROVE  k - 1 \in 0..n /\ 192 + sum[k - 1] \in Nat /\ sum[k - 1] + s[k] <= sum[n]
  <2>1. k - 1 \in 0..n /\ n \in 0..n /\ k - 1 <= n /\ k - 1 < n /\ (k - 1) + 1 = k
    BY <1>2
  <2>2. sum[k - 1] + s[(k - 1) + 1] <= sum[n]
    BY <1>5, <2>1, SumRises
  <2> QED BY <1>6, <2>1, <2>2
<1>8. o \in Seq(Nat) /\ Len(o) = n /\ \A k \in 1..n : o[k] = (192 + sum[k - 1]) % Word
  <2>1. \A k \in 1..n : (192 + sum[k - 1]) % Word \in Nat
    BY <1>7, Remainder
  <2>2. o \in [1..n -> Nat]
    BY ZenonT(30), <1>3, <2>1
  <2>3. o \in Seq(Nat) /\ Len(o) = n
    BY ONLY <1>2, <2>2
  <2>4. \A k \in 1..n : o[k] = (192 + sum[k - 1]) % Word
    BY ZenonT(30), <1>3
  <2> QED BY <2>3, <2>4
<1>9. o[1] = IndxHeaderLen % Word
  <2>1. 1 \in 1..n /\ 1 - 1 = 0 /\ 192 + 0 = 192
    BY <1>2
  <2> QED BY <1>6, <1>8, <2>1 DEF IndxHeaderLen
<1>10. end \in Nat
  <2>1. n \in 0..n
    BY <1>2
  <2> QED BY <1>4, <1>6, <2>1
<1>11. ASSUME end < Word, NEW k \in 1..n PROVE o[k] = 192 + sum[k - 1] /\ o[k] < end
  <2>1. sum[k - 1] \in Nat /\ sum[n] \in Nat /\ s[k] \in Nat /\ s[k] > 0 /\ sum[k - 1] + s[k] <= sum[n]
    <3>1. n \in 0..n
      BY <1>2
    <3> QED BY <1>2, <1>6, <1>7, <3>1
  <2>2. 192 + sum[k - 1] \in Nat /\ 192 + sum[k - 1] < 192 + sum[n]
    BY <2>1
  <2>3. 192 + sum[k - 1] < Word
    BY <1>1, <1>4, <1>10, <1>11, <2>2
  <2>4. (192 + sum[k - 1]) % Word = 192 + sum[k - 1]
    BY <2>2, <2>3, Remainder
  <2>5. o[k] = 192 + sum[k - 1]
    BY ZenonT(30), <1>8, <2>4
  <2> QED BY <1>4, <2>2, <2>5
<1>12. ASSUME end < Word, NEW j \in 1..n, NEW k \in 1..n, j < k PROVE o[j] < o[k]
  <2>1. j - 1 \in 0..n /\ k - 1 \in 0..n /\ (j - 1) + 1 = j /\ j - 1 < k - 1 /\ j - 1 <= k - 1
    BY <1>2, <1>12
  <2>2. o[j] = 192 + sum[j - 1] /\ o[k] = 192 + sum[k - 1]
    BY <1>11, <1>12
  <2>3. sum[j - 1] + s[(j - 1) + 1] <= sum[k - 1]
    BY <1>5, <2>1, SumRises
  <2>4. sum[j - 1] \in Nat /\ sum[k - 1] \in Nat /\ s[j] \in Nat /\ s[j] > 0 /\ sum[j - 1] + s[j] <= sum[k - 1]
    BY <1>2, <1>6, <2>1, <2>3
  <2> QED BY <2>2, <2>4
<1> QED BY <1>2, <1>8, <1>9, <1>10, <1>11, <1>12 DEF s, n, o, end

(* INDX2 made of a table of offsets. *)
LEMMA IndexMade ==
  ASSUME NEW lens \in IndexLens, NEW offsets \in Seq(Nat)
  PROVE  LET r == Indx2(lens.entries, offsets)
             end == IndxHeaderLen + Total(lens.entries)
         IN  /\ r \in RecordSet /\ r.kind = "indx2" /\ r.idxt = offsets /\ r.len \in Nat /\ r.len > 0
             /\ r.len - 4 - 2 * Len(r.idxt) - TablePadding(r.idxt) = end
<1> DEFINE r == Indx2(lens.entries, offsets)
           end == IndxHeaderLen + Total(lens.entries)
           n == Len(offsets)
<1> PICK pad : pad = TablePadding(offsets)
  OBVIOUS
<1>1. end \in Nat /\ n \in Nat
  BY EntriesPlaced
<1>2. pad \in Nat
  BY <1>1 DEF TablePadding
<1>3. r.kind = "indx2" /\ r.idxt = offsets /\ r.len = end + 4 + 2 * n + pad
      /\ r = [kind |-> "indx2", idxt |-> offsets, len |-> end + 4 + 2 * n + pad]
  BY DEF Indx2, IndxHeaderLen
<1> HIDE DEF r, end, n
<1>4. end + 4 + 2 * n + pad \in Nat /\ end + 4 + 2 * n + pad > 0
      /\ (end + 4 + 2 * n + pad) - 4 - 2 * n - pad = end
  BY <1>1, <1>2
<1>5. r \in RecordSet
  BY <1>3, <1>4 DEF RecordSet, KindSet
<1>6. r.len - 4 - 2 * Len(r.idxt) - TablePadding(r.idxt) = end
  BY <1>3, <1>4 DEF n
<1>7. r.kind = "indx2" /\ r.idxt = offsets /\ r.len \in Nat /\ r.len > 0
  BY <1>3, <1>4
<1> QED BY <1>5, <1>6, <1>7 DEF r, end

(* AddIndexRecords keeps the invariant: its numbers name its records. *)
LEMMA IndexStep ==
  ASSUME FileInv, NEW lens \in IndexLens, AddIndexRecords(lens)
  PROVE  FileInv'
<1> DEFINE more == <<Rec("zeros", 2), Rec("indx1", lens.indx1),
                     Indx2(lens.entries, idxt'), Rec("cncx", lens.cncx)>>
<1> PICK m : m = Len(records)
  OBVIOUS
<1>1. lens.indx1 \in Nat \ {0} /\ lens.cncx \in Nat
  BY LensAssumption
<1>14. idxt' \in Seq(Nat)
  <2>1. idxt \in Seq(Nat) /\ EntryOffsets(lens.entries) \in Seq(Nat)
    BY EntriesPlaced, Types DEF FileInv, Typed
  <2>2. idxt' = idxt \o EntryOffsets(lens.entries)
    BY DEF AddIndexRecords
  <2> QED BY <2>1, <2>2
<1>2. /\ more \in Seq(RecordSet) /\ Len(more) = 4
      /\ more[1].kind = "zeros" /\ more[2].kind = "indx1" /\ more[3].kind = "indx2" /\ more[4].kind = "cncx"
      /\ more[2].len > 0 /\ more[3].len > 0
  <2> DEFINE p == Rec("zeros", 2)
             q == Rec("indx1", lens.indx1)
             r == Indx2(lens.entries, idxt')
             s == Rec("cncx", lens.cncx)
  <2>1. /\ p \in RecordSet /\ q \in RecordSet /\ s \in RecordSet
        /\ p.kind = "zeros" /\ q.kind = "indx1" /\ s.kind = "cncx"
        /\ q.len > 0
    BY <1>1 DEF Rec, RecordSet, KindSet
  <2>4. r \in RecordSet /\ r.kind = "indx2" /\ r.len > 0
    BY <1>14, IndexMade
  <2>2. more = <<p, q, r, s>>
    OBVIOUS
  <2> HIDE DEF p, q, r, s, more
  <2>3. more \in Seq(RecordSet) /\ Len(more) = 4 /\ more[1] = p /\ more[2] = q /\ more[3] = r /\ more[4] = s
    BY <2>1, <2>2, <2>4
  <2> QED BY <2>1, <2>3, <2>4
<1>3. TypeOK /\ records' = records \o more /\ pc = "index" /\ pc' = "images"
  BY DEF FileInv, AddIndexRecords
<1> HIDE DEF more
<1>4. /\ records' \in Seq(RecordSet) /\ Len(records') = m + 4 /\ m \in Nat /\ m >= 2
      /\ \A k \in 1..m : records'[k] = records[k]
      /\ \A j \in 1..4 : records'[m + j] = more[j]
  <2>1. m \in Nat /\ m >= 2
    BY <1>3, Types DEF Typed, FileInv, RecordsInv
  <2> QED BY <1>2, <1>3, <2>1, RecordsKept
<1>13. DOMAIN records = 1..m /\ UNCHANGED <<title, embedded, exth, textCount, at, result, writes>>
       /\ UNCHANGED <<failure, down, failed, accepted, writtenBytes, table, starts, nameStart>>
  BY <1>3, Types DEF Typed, AddIndexRecords, callVars, outVars, fileVars
<1>5. header' = [header EXCEPT !.FirstNonBookIndex = m + 1, !.IndxRecodOffset = m + 1]
  BY DEF AddIndexRecords, IndexNumber
<1>6. TypeOK'
  <2>1. Typed
    BY <1>3, Types
  <2>2. header' \in [FirstNonBookIndex : Nat, IndxRecodOffset : Nat, FirstImageIndex : Nat \cup {NoIndex},
                     LastContentRecordNumber : Nat, FlisRecordIndex : Nat, FcisRecordIndex : Nat,
                     FullNameOffset : Nat, HeaderLenght : Nat]
    <3>1. m + 1 \in Nat
      BY <1>4
    <3> QED BY <1>5, <2>1, <3>1 DEF Typed
  <2> QED BY <1>3, <1>4, <1>13, <1>14, <2>1, <2>2, Types DEF Typed
<1>7. header'.FirstNonBookIndex = m + 1 /\ header'.IndxRecodOffset = m + 1
  BY <1>3, <1>5, Types DEF Typed
<1>8. ImagesInv'
  BY DEF FileInv, ImagesInv, NamesImage, AddIndexRecords, callVars
<1>9. RecordsInv'
  <2>1. RecordsInv /\ UNCHANGED <<writes, textCount>> /\ pc # "calls" /\ pc' # "calls"
    BY <1>3, <1>13 DEF FileInv
  <2>2. \A j \in 1..Len(more) : more[j].kind \in {"indx1", "indx2"} => more[j].len > 0
    <3>1. \A j \in 1..Len(more) : j = 1 \/ j = 2 \/ j = 3 \/ j = 4
      BY <1>2
    <3> QED BY <1>2, <3>1
  <2> QED BY <1>2, <1>3, <2>1, <2>2, RecordsMore
<1>10. NumbersInv'
  <2>1. IsRecord(m + 1, "indx1")' /\ IsRecord(m + 2, "indx2")' /\ IsRecord(m + 3, "cncx")'
    <3>1. /\ m + 1 \in 0..(Len(records') - 1) /\ m + 2 \in 0..(Len(records') - 1)
          /\ m + 3 \in 0..(Len(records') - 1)
          /\ (m + 1) + 1 = m + 2 /\ (m + 2) + 1 = m + 3 /\ (m + 3) + 1 = m + 4
      BY <1>4
    <3>2. records'[m + 2] = more[2] /\ records'[m + 3] = more[3] /\ records'[m + 4] = more[4]
      BY <1>4
    <3> QED BY <1>2, <3>1, <3>2 DEF IsRecord, Kind
  <2>2. (m + 1) + 1 = m + 2 /\ (m + 1) + 2 = m + 3 /\ Len(records') - 1 = m + 3 /\ m + 1 >= 2
    BY <1>4
  <2>3. ~Finished'
    BY <1>3 DEF Finished
  <2>4. pc' \notin {"trailer", "headers", "records"} /\ pc' = "images" /\ Len(records') - 1 = m + 3
    BY <1>3, <2>2
  <2>5. IsRecord(Len(records) - 1, "cncx")'
    BY <2>1, <2>4
  <2>6. /\ IsRecord(header.IndxRecodOffset, "indx1")' /\ IsRecord(header.IndxRecodOffset + 1, "indx2")'
        /\ IsRecord(header.IndxRecodOffset + 2, "cncx")'
    BY <1>7, <2>1, <2>2
  <2> QED BY <1>7, <2>2, <2>3, <2>4, <2>5, <2>6 DEF NumbersInv
<1>11. HeadersInv' /\ PlacesInv'
  BY <1>3 DEF HeadersInv, PlacesInv, Finished
<1>12. OutInv'
  BY <1>3 DEF FileInv, OutInv, Finished, AddIndexRecords, outVars, fileVars
<1> QED BY <1>6, <1>8, <1>9, <1>10, <1>11, <1>12 DEF FileInv

(* The images are pictures of two kinds. *)
LEMMA EmbeddedType ==
  ASSUME TypeOK
  PROVE  /\ embedded \in Seq(ImageSet) /\ Len(embedded) \in Nat /\ DOMAIN embedded = 1..Len(embedded)
         /\ \A k \in 1..Len(embedded) : embedded[k].type \in {"cover", "thumb"} /\ embedded[k].len \in Nat
<1>1. embedded \in Seq(ImageSet)
  BY Types DEF Typed
<1>2. /\ Len(embedded) \in Nat /\ DOMAIN embedded = 1..Len(embedded)
      /\ \A k \in 1..Len(embedded) : embedded[k] \in ImageSet
  BY <1>1
<1>3. \A e \in ImageSet : e.type \in {"cover", "thumb"} /\ e.len \in Nat
  BY DEF ImageSet
<1> QED BY <1>1, <1>2, <1>3

(* What WriteTo adds to the EXTH header for the images names them. *)
LEMMA ImagesNamed ==
  ASSUME TypeOK
  PROVE  LET flat == FlattenSeq([k \in DOMAIN embedded |-> ExthOfImage(k)])
         IN  /\ flat \in Seq(ExthSet)
             /\ \A i \in 1..Len(flat) :
                  /\ flat[i].RecordLength >= 8
                  /\ NamesImage(flat[i], "coverOffset", "cover") /\ NamesImage(flat[i], "thumbOffset", "thumb")
<1> DEFINE Good(r) == /\ r.RecordLength >= 8
                      /\ NamesImage(r, "coverOffset", "cover") /\ NamesImage(r, "thumbOffset", "thumb")
           ss == [k \in DOMAIN embedded |-> ExthOfImage(k)]
           flat == FlattenSeq(ss)
<1> PICK n : n = Len(embedded)
  OBVIOUS
<1>1. /\ embedded \in Seq(ImageSet) /\ n \in Nat /\ DOMAIN embedded = 1..n
      /\ \A k \in 1..n : embedded[k].type \in {"cover", "thumb"}
  BY EmbeddedType
<1>2. ASSUME NEW k \in 1..n
      PROVE  /\ ExthOfImage(k) \in Seq(ExthSet)
             /\ \A j \in 1..Len(ExthOfImage(k)) : Good(ExthOfImage(k)[j])
  <2>1. k \in Nat /\ k - 1 \in Nat /\ (k - 1) + 1 = k /\ k \in DOMAIN embedded
    BY <1>1
  <2> DEFINE p == ExthRecord("uri", k, 17)
             q == ExthRecord("coverOffset", k - 1, 4)
             r == ExthRecord("thumbOffset", k - 1, 4)
  <2>2. p \in ExthSet /\ q \in ExthSet /\ r \in ExthSet
    BY <2>1 DEF ExthRecord, ExthSet
  <2>3. /\ p.type = "uri" /\ q.type = "coverOffset" /\ r.type = "thumbOffset"
        /\ q.value = k - 1 /\ r.value = k - 1
        /\ p.RecordLength >= 8 /\ q.RecordLength >= 8 /\ r.RecordLength >= 8
    BY DEF ExthRecord
  <2> HIDE DEF p, q, r
  <2>4. CASE embedded[k].type = "cover"
    <3>1. ExthOfImage(k) = <<p, q>>
      BY <2>4 DEF ExthOfImage, p, q
    <3>2. Good(p) /\ Good(q)
      BY <2>1, <2>3, <2>4 DEF NamesImage
    <3> HIDE DEF Good
    <3> QED BY <2>2, <3>1, <3>2
  <2>5. CASE embedded[k].type # "cover"
    <3>1. ExthOfImage(k) = <<r>> /\ embedded[k].type = "thumb"
      BY <1>1, <2>5 DEF ExthOfImage, r
    <3>2. Good(r)
      BY <2>1, <2>3, <3>1 DEF NamesImage
    <3> HIDE DEF Good
    <3> QED BY <2>2, <3>1, <3>2
  <2> QED BY <2>4, <2>5
<1> HIDE DEF Good
<1>3. ss \in Seq(Seq(ExthSet)) /\ Len(ss) = n /\ \A k \in 1..n : ss[k] = ExthOfImage(k)
  <2>1. ss = [k \in 1..n |-> ExthOfImage(k)]
    BY <1>1
  <2>2. \A k \in 1..n : ExthOfImage(k) \in Seq(ExthSet)
    BY <1>2
  <2> HIDE DEF ss
  <2> QED BY <1>1, <2>1, <2>2
<1> HIDE DEF ss
<1>4. Placed(ExthSet, ss, flat)
  BY <1>3, FlattenPlaces
<1>5. ASSUME NEW i \in 1..Len(flat) PROVE Good(flat[i])
  <2>1. PICK k \in 1..n : \E j \in 1..Len(ss[k]) : i = Before(ss, k - 1) + j
    BY <1>3, <1>4 DEF Placed
  <2>2. PICK j \in 1..Len(ss[k]) : i = Before(ss, k - 1) + j
    BY <2>1
  <2>3. flat[i] = ss[k][j]
    BY <1>3, <1>4, <2>2 DEF Placed
  <2> QED BY <1>2, <1>3, <2>2, <2>3
<1>6. flat \in Seq(ExthSet)
  BY <1>4 DEF Placed
<1> QED BY <1>5, <1>6 DEF Good, ss

(* AddImages keeps the invariant: the EXTH records lead to the images. *)
LEMMA ImagesStep ==
  ASSUME FileInv, AddImages
  PROVE  FileInv'
<1> DEFINE more == [k \in DOMAIN embedded |-> Rec(embedded[k].type, embedded[k].len)]
           flat == FlattenSeq([k \in DOMAIN embedded |-> ExthOfImage(k)])
<1> PICK m : m = Len(records)
  OBVIOUS
<1> PICK n : n = Len(embedded)
  OBVIOUS
<1>1. /\ pc = "images" /\ pc' = "trailer"
      /\ records' = records \o more /\ exth' = exth \o flat
      /\ header' = [header EXCEPT !.FirstImageIndex = IF embedded = <<>> THEN NoIndex ELSE m]
      /\ UNCHANGED <<title, embedded, textCount, idxt, at, result, writes>>
      /\ UNCHANGED <<failure, down, failed, accepted, writtenBytes, table, starts, nameStart>>
  BY DEF AddImages, outVars, fileVars
<1>2. TypeOK /\ Typed /\ ImagesInv /\ RecordsInv /\ NumbersInv /\ OutInv
  BY Types DEF FileInv
<1>3. /\ embedded \in Seq(ImageSet) /\ n \in Nat /\ DOMAIN embedded = 1..n
      /\ \A k \in 1..n : embedded[k].type \in {"cover", "thumb"} /\ embedded[k].len \in Nat
  BY <1>2, EmbeddedType
<1>4. more \in Seq(RecordSet) /\ Len(more) = n /\ \A k \in 1..n : more[k].kind = embedded[k].type
  <2>1. \A k \in 1..n : /\ Rec(embedded[k].type, embedded[k].len) \in RecordSet
                        /\ Rec(embedded[k].type, embedded[k].len).kind = embedded[k].type
    BY <1>3 DEF Rec, RecordSet, KindSet
  <2> QED BY <1>3, <2>1
<1> HIDE DEF more
<1>5. /\ flat \in Seq(ExthSet)
      /\ \A i \in 1..Len(flat) :
           /\ flat[i].RecordLength >= 8
           /\ NamesImage(flat[i], "coverOffset", "cover") /\ NamesImage(flat[i], "thumbOffset", "thumb")
  BY <1>2, ImagesNamed
<1> HIDE DEF flat
<1>6. /\ records' \in Seq(RecordSet) /\ Len(records') = m + n /\ m \in Nat
      /\ \A j \in 1..n : records'[m + j] = more[j]
      /\ \A k, kind : IsRecord(k, kind) => IsRecord(k, kind)'
  <2>1. m \in Nat
    BY <1>2 DEF Typed
  <2> QED BY <1>1, <1>2, <1>4, <2>1, RecordsKept
<1>7. /\ exth' \in Seq(ExthSet)
      /\ \A k \in DOMAIN exth' :
           (\E i \in DOMAIN exth : exth'[k] = exth[i]) \/ (\E i \in 1..Len(flat) : exth'[k] = flat[i])
  <2>1. exth \in Seq(ExthSet)
    BY <1>2 DEF Typed
  <2>2. /\ exth' \in Seq(ExthSet) /\ Len(exth') = Len(exth) + Len(flat)
        /\ \A i \in 1..Len(exth) : exth'[i] = exth[i]
        /\ \A j \in 1..Len(flat) : exth'[Len(exth) + j] = flat[j]
    BY ONLY <1>1, <1>5, <2>1, ConcatElements
  <2>3. Len(exth) \in Nat /\ Len(flat) \in Nat /\ DOMAIN exth = 1..Len(exth) /\ DOMAIN exth' = 1..Len(exth')
    BY <1>5, <2>1, <2>2
  <2>4. ASSUME NEW k \in DOMAIN exth'
        PROVE  (\E i \in DOMAIN exth : exth'[k] = exth[i]) \/ (\E i \in 1..Len(flat) : exth'[k] = flat[i])
    <3>1. CASE k \in 1..Len(exth)
      BY <2>2, <2>3, <3>1
    <3>2. CASE k \notin 1..Len(exth)
      <4>1. k - Len(exth) \in 1..Len(flat) /\ Len(exth) + (k - Len(exth)) = k
        BY <2>2, <2>3, <3>2
      <4> QED BY <2>2, <4>1
    <3> QED BY <3>1, <3>2
  <2> QED BY <2>2, <2>4
<1>8. /\ header' \in [FirstNonBookIndex : Nat, IndxRecodOffset : Nat, FirstImageIndex : Nat \cup {NoIndex},
                      LastContentRecordNumber : Nat, FlisRecordIndex : Nat, FcisRecordIndex : Nat,
                      FullNameOffset : Nat, HeaderLenght : Nat]
      /\ header'.FirstImageIndex = (IF embedded = <<>> THEN NoIndex ELSE m)
      /\ header'.FirstNonBookIndex = header.FirstNonBookIndex
      /\ header'.IndxRecodOffset = header.IndxRecodOffset
  BY <1>1, <1>2, <1>6 DEF Typed
<1>9. TypeOK'
  BY <1>1, <1>2, <1>6, <1>7, <1>8, Types DEF Typed
<1>10. \A k \in DOMAIN exth' :
         /\ exth'[k].RecordLength >= 8
         /\ NamesImage(exth'[k], "coverOffset", "cover") /\ NamesImage(exth'[k], "thumbOffset", "thumb")
  BY <1>2, <1>5, <1>7 DEF ImagesInv
<1>11. ImagesInv'
  BY <1>1, <1>2, <1>10 DEF ImagesInv, NamesImage
<1>12. RecordsInv'
  <2>1. \A j \in 1..Len(more) : more[j].kind \in {"indx1", "indx2"} => more[j].len > 0
    BY <1>3, <1>4
  <2> QED BY <1>1, <1>2, <1>4, <2>1, RecordsMore
<1>13. OutInv'
  BY <1>1, <1>2 DEF OutInv, Finished
<1>14. NumbersInv'
  <2>1. /\ header.FirstNonBookIndex = header.IndxRecodOffset /\ header.IndxRecodOffset >= 2
        /\ IsRecord(header.IndxRecodOffset, "indx1") /\ IsRecord(header.IndxRecodOffset + 1, "indx2")
        /\ IsRecord(header.IndxRecodOffset + 2, "cncx") /\ IsRecord(m - 1, "cncx")
    BY <1>1, <1>2 DEF NumbersInv
  <2> PICK h : h = header.IndxRecodOffset
    OBVIOUS
  <2>2. IsRecord(h, "indx1")' /\ IsRecord(h + 1, "indx2")' /\ IsRecord(h + 2, "cncx")' /\ IsRecord(m - 1, "cncx")'
    BY <1>6, <2>1
  <2>3. ASSUME NEW v \in Nat, v + 1 \in DOMAIN embedded PROVE IsRecord(m + v, embedded[v + 1].type)'
    <3>1. m + v \in 0..(Len(records') - 1) /\ (m + v) + 1 = m + (v + 1) /\ v + 1 \in 1..n
      BY <1>3, <1>6, <2>3
    <3>2. embedded' = embedded /\ records'[(m + v) + 1].kind = embedded[v + 1].type
      BY <1>1, <1>4, <1>6, <3>1
    <3> QED BY <3>1, <3>2 DEF IsRecord, Kind
  <2>4. ASSUME NEW k \in DOMAIN exth', NEW type, NEW kind, exth'[k].type = type,
               NamesImage(exth'[k], type, kind)
        PROVE  IsRecord(header.FirstImageIndex + exth[k].value, kind)'
    <3> PICK v : v = exth'[k].value
      OBVIOUS
    <3>1. v \in Nat /\ v + 1 \in DOMAIN embedded /\ embedded[v + 1].type = kind
      <4>1. exth'[k] \in ExthSet
        BY <1>7
      <4> QED BY <2>4, <4>1 DEF NamesImage, ExthSet
    <3>2. IsRecord(m + v, kind)'
      <4>1. embedded' = embedded
        BY <1>1
      <4> PICK e : e = embedded[v + 1].type
        OBVIOUS
      <4>2. IsRecord(m + v, e)' /\ e = kind
        BY <2>3, <3>1, <4>1
      <4> QED BY <4>2
    <3>3. embedded # <<>> /\ header'.FirstImageIndex = m
      BY <1>3, <1>8, <3>1
    <3> QED BY <3>2, <3>3
  <2>5. IsRecord(Len(records) - 1, LastContent)'
    <3>1. CASE embedded = <<>>
      <4>1. n = 0 /\ LastContent' = "cncx" /\ Len(records') - 1 = m - 1
        BY <1>3, <1>6, <1>8, <3>1 DEF LastContent
      <4> QED BY <2>2, <4>1
    <3>2. CASE embedded # <<>>
      <4>1. n > 0 /\ embedded[n].type = "thumb" /\ n \in 1..n
        BY <1>2, <1>3, <3>2 DEF ImagesInv
      <4>2. LastContent' = "thumb"
        BY <1>6, <1>8, <3>2 DEF LastContent, NoIndex
      <4>3. /\ Len(records') - 1 \in 0..(Len(records') - 1) /\ (Len(records') - 1) + 1 = m + n
            /\ records'[m + n].kind = "thumb"
        BY <1>4, <1>6, <1>3, <4>1
      <4> QED BY <4>2, <4>3 DEF IsRecord, Kind
    <3> QED BY <3>1, <3>2
  <2>6. pc' = "trailer" /\ ~Finished'
    BY <1>1 DEF Finished
  <2>7. /\ header'.FirstNonBookIndex = header'.IndxRecodOffset /\ header'.IndxRecodOffset >= 2
        /\ IsRecord(header.IndxRecodOffset, "indx1")' /\ IsRecord(header.IndxRecodOffset + 1, "indx2")'
        /\ IsRecord(header.IndxRecodOffset + 2, "cncx")'
    BY <1>8, <2>1, <2>2
  <2>8. \A k \in DOMAIN exth' :
          /\ exth'[k].type = "coverOffset" => IsRecord(header.FirstImageIndex + exth[k].value, "cover")'
          /\ exth'[k].type = "thumbOffset" => IsRecord(header.FirstImageIndex + exth[k].value, "thumb")'
    BY <1>10, <2>4
  <2> QED BY <2>5, <2>6, <2>7, <2>8 DEF NumbersInv
<1>15. HeadersInv' /\ PlacesInv'
  BY <1>1 DEF HeadersInv, PlacesInv, Finished
<1> QED BY <1>9, <1>11, <1>12, <1>13, <1>14, <1>15 DEF FileInv

(* HeaderShape in the next state. *)
LEMMA HeaderShapeNext == TypeOK' /\ ImagesInv' => Laid'
<1>1. TypeOK /\ ImagesInv => Laid
  BY HeaderShape
<1> QED BY <1>1, PTL

(* AddTrailer keeps the invariant: the numbers of FLIS, FCIS and the content.*)
LEMMA TrailerStep ==
  ASSUME FileInv, AddTrailer
  PROVE  FileInv'
<1> DEFINE p == Rec("flis", 36)
           q == Rec("fcis", 44)
           r == Rec("eof", 4)
           more == <<p, q, r>>
<1> PICK m : m = Len(records)
  OBVIOUS
<1>1. /\ pc = "trailer" /\ pc' = "headers" /\ at' = 1
      /\ records' = records \o more
      /\ header' = [header EXCEPT !.LastContentRecordNumber = (m - 1) % Word,
                                  !.FlisRecordIndex = m, !.FcisRecordIndex = m + 1]
      /\ UNCHANGED <<title, embedded, exth, textCount, idxt, result, writes>>
      /\ UNCHANGED <<failure, down, failed, accepted, writtenBytes, table, starts, nameStart>>
  BY DEF AddTrailer, callVars, outVars, fileVars
<1>2. TypeOK /\ Typed /\ ImagesInv /\ RecordsInv /\ NumbersInv /\ OutInv
  BY Types DEF FileInv
<1>3. /\ p \in RecordSet /\ q \in RecordSet /\ r \in RecordSet
      /\ p.kind = "flis" /\ q.kind = "fcis" /\ r.kind = "eof"
  BY DEF Rec, RecordSet, KindSet
<1> HIDE DEF p, q, r
<1>4. more \in Seq(RecordSet) /\ Len(more) = 3 /\ more[1] = p /\ more[2] = q /\ more[3] = r
  BY <1>3
<1> HIDE DEF more
<1>5. /\ records' \in Seq(RecordSet) /\ Len(records') = m + 3 /\ m \in Nat /\ m >= 2
      /\ records'[m + 1].kind = "flis" /\ records'[m + 2].kind = "fcis" /\ records'[m + 3].kind = "eof"
      /\ \A k, kind : IsRecord(k, kind) => IsRecord(k, kind)'
  <2>1. m \in Nat /\ m >= 2
    <3>1. Len(records) >= 2 /\ records \in Seq(RecordSet)
      BY <1>1, <1>2 DEF RecordsInv, Typed
    <3> QED BY <3>1
  <2>2. /\ records' \in Seq(RecordSet) /\ Len(records') = m + 3
        /\ \A j \in 1..3 : records'[m + j] = more[j]
        /\ \A k, kind : IsRecord(k, kind) => IsRecord(k, kind)'
    BY <1>1, <1>2, <1>4, RecordsKept
  <2> QED BY <1>3, <1>4, <2>1, <2>2
<1>6. /\ header' \in [FirstNonBookIndex : Nat, IndxRecodOffset : Nat, FirstImageIndex : Nat \cup {NoIndex},
                      LastContentRecordNumber : Nat, FlisRecordIndex : Nat, FcisRecordIndex : Nat,
                      FullNameOffset : Nat, HeaderLenght : Nat]
      /\ header'.FirstImageIndex = header.FirstImageIndex
      /\ header'.FirstNonBookIndex = header.FirstNonBookIndex
      /\ header'.IndxRecodOffset = header.IndxRecodOffset
      /\ header'.LastContentRecordNumber = (m - 1) % Word
      /\ header'.FlisRecordIndex = m /\ header'.FcisRecordIndex = m + 1
  <2>1. m - 1 \in Nat /\ (m - 1) % Word \in Nat /\ m + 1 \in Nat
    <3>1. m - 1 \in Nat
      BY <1>5
    <3>2. (m - 1) % Word \in 0..(Word - 1)
      BY <3>1, Remainder
    <3> QED BY <1>5, <3>1, <3>2, WordAssumption
  <2> PICK w : w = (m - 1) % Word
    OBVIOUS
  <2>2. w \in Nat
    BY <2>1
  <2>3. header' = [header EXCEPT !.LastContentRecordNumber = w, !.FlisRecordIndex = m, !.FcisRecordIndex = m + 1]
    BY <1>1
  <2> QED BY <1>2, <1>5, <2>1, <2>2, <2>3 DEF Typed
<1>7. TypeOK'
  BY <1>1, <1>2, <1>5, <1>6, Types DEF Typed
<1>8. ImagesInv'
  BY <1>1, <1>2 DEF ImagesInv, NamesImage
<1>9. RecordsInv'
  <2>1. \A j \in 1..Len(more) : more[j].kind \in {"indx1", "indx2"} => more[j].len > 0
    <3>1. \A j \in 1..Len(more) : j = 1 \/ j = 2 \/ j = 3
      BY <1>4
    <3> QED BY <1>3, <1>4, <3>1
  <2> QED BY <1>1, <1>2, <1>4, <2>1, RecordsMore
<1>10. NumbersInv'
  <2>1. /\ header.FirstNonBookIndex = header.IndxRecodOffset /\ header.IndxRecodOffset >= 2
        /\ IsRecord(header.IndxRecodOffset, "indx1") /\ IsRecord(header.IndxRecodOffset + 1, "indx2")
        /\ IsRecord(header.IndxRecodOffset + 2, "cncx") /\ IsRecord(m - 1, LastContent)
        /\ \A k \in DOMAIN exth :
             /\ exth[k].type = "coverOffset" => IsRecord(header.FirstImageIndex + exth[k].value, "cover")
             /\ exth[k].type = "thumbOffset" => IsRecord(header.FirstImageIndex + exth[k].value, "thumb")
    BY <1>1, <1>2 DEF NumbersInv
  <2> PICK h : h = header.IndxRecodOffset
    OBVIOUS
  <2> PICK c : c = LastContent
    OBVIOUS
  <2>2. IsRecord(h, "indx1")' /\ IsRecord(h + 1, "indx2")' /\ IsRecord(h + 2, "cncx")' /\ IsRecord(m - 1, c)'
    BY <1>5, <2>1
  <2>3. ASSUME NEW k \in DOMAIN exth
        PROVE  /\ exth[k].type = "coverOffset" => IsRecord(header.FirstImageIndex + exth[k].value, "cover")'
               /\ exth[k].type = "thumbOffset" => IsRecord(header.FirstImageIndex + exth[k].value, "thumb")'
    <3> PICK v : v = header.FirstImageIndex + exth[k].value
      OBVIOUS
    <3>1. v = header'.FirstImageIndex + exth'[k].value
      BY <1>1, <1>6
    <3>2. /\ exth[k].type = "coverOffset" => IsRecord(v, "cover")
          /\ exth[k].type = "thumbOffset" => IsRecord(v, "thumb")
      BY <2>1
    <3>3. /\ exth[k].type = "coverOffset" => IsRecord(v, "cover")'
          /\ exth[k].type = "thumbOffset" => IsRecord(v, "thumb")'
      BY <1>5, <3>2
    <3> QED BY <3>1, <3>3
  <2>4. LastContent' = c /\ Len(records') - 4 = m - 1 /\ Len(records') - 3 = m /\ Len(records') - 2 = m + 1
        /\ Len(records') - 1 = m + 2
    BY <1>5, <1>6 DEF LastContent
  <2>5. IsRecord(m, "flis")' /\ IsRecord(m + 1, "fcis")' /\ IsRecord(m + 2, "eof")'
    <3>1. /\ m \in 0..(Len(records') - 1) /\ m + 1 \in 0..(Len(records') - 1) /\ m + 2 \in 0..(Len(records') - 1)
          /\ (m + 1) + 1 = m + 2 /\ (m + 2) + 1 = m + 3
      BY <1>5
    <3> QED BY <1>5, <3>1 DEF IsRecord, Kind
  <2>6. /\ IsRecord(Len(records) - 4, LastContent)' /\ IsRecord(Len(records) - 3, "flis")'
        /\ IsRecord(Len(records) - 2, "fcis")' /\ IsRecord(Len(records) - 1, "eof")'
    BY <2>2, <2>4, <2>5
  <2>7. /\ header'.FirstNonBookIndex = header'.IndxRecodOffset /\ header'.IndxRecodOffset >= 2
        /\ IsRecord(header.IndxRecodOffset, "indx1")' /\ IsRecord(header.IndxRecodOffset + 1, "indx2")'
        /\ IsRecord(header.IndxRecodOffset + 2, "cncx")'
    BY <1>6, <2>1, <2>2
  <2>8. pc' = "headers" /\ exth' = exth
    BY <1>1
  <2> QED BY <1>6, <2>3, <2>4, <2>6, <2>7, <2>8 DEF NumbersInv
<1>11. OutInv'
  BY <1>1, <1>2 DEF OutInv, Finished
<1>12. HeadersInv'
  <2>1. Laid'
    BY <1>7, <1>8, HeaderShapeNext
  <2>2. Len(HeaderParts') \in Nat /\ Len(HeaderParts') >= RecordsNum' + 9 /\ RecordsNum' \in Nat
    BY <2>1 DEF Laid
  <2>3. SumOfFirst(PartLens')[0] = 0
    BY <2>1, SumSteps DEF Laid
  <2>4. accepted' = 0 /\ table' = <<>> /\ starts' = <<>> /\ at' = 1 /\ ~failed'
    BY <1>1, <1>2 DEF OutInv
  <2>5. at' \in 1..(Len(HeaderParts') + 1) /\ ~(at' > Record0Part') /\ ~(at' > Record0Part' + 1)
        /\ ~(at' > Len(HeaderParts')) /\ at' <= 2 /\ at' - 1 = 0
    <3>1. Record0Part' = RecordsNum' + 3
      BY DEF Record0Part
    <3>2. ASSUME NEW parts \in Nat, NEW num \in Nat, NEW part0, part0 = num + 3, parts >= num + 9
          PROVE  1 \in 1..(parts + 1) /\ ~(1 > part0) /\ ~(1 > part0 + 1) /\ ~(1 > parts)
      BY <3>2
    <3>3. /\ 1 \in 1..(Len(HeaderParts') + 1) /\ ~(1 > Record0Part') /\ ~(1 > Record0Part' + 1)
          /\ ~(1 > Len(HeaderParts'))
      BY ONLY <2>2, <3>1, <3>2
    <3>4. 1 <= 2 /\ 1 - 1 = 0
      OBVIOUS
    <3> QED BY ONLY <2>4, <3>3, <3>4
  <2>6. Len(table') = 0 /\ DOMAIN table' = {} /\ Len(starts') = 0
    BY <2>4
  <2> QED BY <2>3, <2>4, <2>5, <2>6 DEF HeadersInv
<1>13. PlacesInv'
  BY <1>1 DEF PlacesInv, Finished
<1> QED BY <1>7, <1>8, <1>9, <1>10, <1>11, <1>12, <1>13 DEF FileInv

-----------------------------------------------------------------------------
(* The invariant holds at the start. *)
LEMMA Beginning == Init => FileInv
<1> SUFFICES ASSUME Init PROVE FileInv
  OBVIOUS
<1>1. /\ title \in Nat /\ embedded = <<>> /\ exth = <<>> /\ records = <<>> /\ textCount = 0 /\ idxt = <<>>
      /\ header = NoHeader
      /\ pc = "calls" /\ at = 0 /\ failure = "never" /\ down = FALSE /\ failed = FALSE
      /\ accepted = 0 /\ writtenBytes = 0 /\ table = <<>> /\ starts = <<>> /\ nameStart = 0
      /\ result = [n |-> 0, err |-> FALSE] /\ writes = 0
  BY LensAssumption DEF Init
<1>2. TypeOK
  <2>1. embedded \in Seq(ImageSet) /\ exth \in Seq(ExthSet) /\ records \in Seq(RecordSet)
        /\ table \in Seq(Nat) /\ starts \in Seq(Nat) /\ idxt \in Seq(Nat)
    BY <1>1
  <2>2. writes \in 0..MaxWrites
    BY <1>1, BoundsAssumption
  <2> QED BY <1>1, <2>1, <2>2, Types DEF Typed, NoHeader
<1>3. ImagesInv /\ RecordsInv
  BY <1>1 DEF ImagesInv, RecordsInv
<1>4. NumbersInv /\ HeadersInv /\ PlacesInv
  BY <1>1 DEF NumbersInv, HeadersInv, PlacesInv, Finished
<1>5. OutInv
  BY <1>1 DEF OutInv, Finished
<1> QED BY <1>2, <1>3, <1>4, <1>5 DEF FileInv

(* A step that changes nothing keeps the invariant. *)
LEMMA Stutter ==
  ASSUME FileInv, UNCHANGED vars
  PROVE  FileInv'
<1>1. UNCHANGED <<title, embedded, exth, records, textCount, idxt, header, pc, at>>
      /\ UNCHANGED <<failure, down, failed, accepted, writtenBytes, table, starts, nameStart, result, writes>>
  BY DEF vars, callVars, outVars, fileVars
<1>2. TypeOK'
  BY <1>1, Types DEF Typed, FileInv
<1>3. ImagesInv'
  BY <1>1 DEF FileInv, ImagesInv, NamesImage
<1>4. RecordsInv' /\ NumbersInv' /\ OutInv' /\ PlacesInv'
  BY <1>1, SameRecords, SameNumbers, SameOut, SamePlaces DEF FileInv, outVars
<1>5. HeadersInv'
  <2>1. HeaderParts' = HeaderParts /\ RecordsNum' = RecordsNum
    BY <1>1 DEF HeaderParts, PdfParts, MobiParts, ExthParts, NameParts, RecordsNum, ExthPadding, ExthLen
  <2>2. PartLens' = PartLens /\ Record0Part' = Record0Part /\ NameOffset' = NameOffset
    BY <1>1, <2>1 DEF PartLens, Record0Part, NameOffset, ExthHeaderLen, ExthPadding, ExthLen
  <2>3. \A k : Offset(k)' = Offset(k)
    BY <1>1, <2>1 DEF Offset, TextStart, Lengths
  <2> QED BY <1>1, <2>1, <2>2, <2>3 DEF FileInv, HeadersInv
<1> QED BY <1>2, <1>3, <1>4, <1>5 DEF FileInv

-----------------------------------------------------------------------------
(* WriteTo writes.                                                         *)

(* The layout of the file depends on nothing that is changed any more. *)
LEMMA SameLayout ==
  ASSUME UNCHANGED <<title, exth, records, textCount>>
  PROVE  /\ RecordsNum' = RecordsNum /\ Lengths' = Lengths /\ TextStart' = TextStart
         /\ HeaderParts' = HeaderParts /\ PartLens' = PartLens /\ Record0Part' = Record0Part
         /\ ExthHeaderLen' = ExthHeaderLen /\ NameOffset' = NameOffset
         /\ \A k : Offset(k)' = Offset(k)
<1>1. RecordsNum' = RecordsNum /\ Lengths' = Lengths /\ TextStart' = TextStart
  BY DEF RecordsNum, Lengths, TextStart
<1>2. HeaderParts' = HeaderParts
  BY <1>1 DEF HeaderParts, PdfParts, MobiParts, ExthParts, NameParts, ExthPadding, ExthLen
<1>3. PartLens' = PartLens /\ Record0Part' = Record0Part
  BY <1>1, <1>2 DEF PartLens, Record0Part
<1>4. ExthHeaderLen' = ExthHeaderLen /\ NameOffset' = NameOffset
  BY DEF NameOffset, ExthHeaderLen, ExthPadding, ExthLen
<1>5. \A k : Offset(k)' = Offset(k)
  BY <1>1 DEF Offset
<1> QED BY <1>1, <1>2, <1>3, <1>4, <1>5

(* A Write, good or bad: the two counts, and what is known of the failure. *)
LEMMA OutStep ==
  ASSUME TypeOK, OutInv, NEW len \in Nat, NEW binary \in BOOLEAN,
         OutTakes(len) \/ OutFails(len, binary)
  PROVE  /\ accepted' \in Nat /\ writtenBytes' \in Nat /\ writtenBytes' <= accepted'
         /\ failure' = failure /\ down' \in BOOLEAN /\ failed' \in BOOLEAN
         /\ ~failed' => ~failed /\ accepted' = accepted + len /\ writtenBytes' = accepted'
         /\ failed' => failure' # "never"
         /\ down' <=> failed' /\ failure' = "for good"
<1>1. /\ accepted \in Nat /\ writtenBytes \in Nat /\ writtenBytes <= accepted
      /\ down \in BOOLEAN /\ failed \in BOOLEAN
      /\ ~failed => writtenBytes = accepted
  BY DEF TypeOK, OutInv
<1>2. (failed => failure # "never") /\ (down <=> failed /\ failure = "for good")
  BY DEF OutInv
<1>3. CASE OutTakes(len)
  <2>1. accepted' = accepted + len /\ writtenBytes' = writtenBytes + len
        /\ failure' = failure /\ down' = down /\ failed' = failed
    BY <1>3 DEF OutTakes
  <2>2. accepted' \in Nat /\ writtenBytes' \in Nat /\ writtenBytes' <= accepted'
    BY <1>1, <2>1
  <2>3. ~failed => writtenBytes' = accepted'
    BY <1>1, <2>1
  <2>4. (failed' => failure' # "never") /\ (down' <=> failed' /\ failure' = "for good")
    BY ONLY <1>2, <2>1
  <2> QED BY <1>1, <2>1, <2>2, <2>3, <2>4
<1>4. CASE OutFails(len, binary)
  <2>1. PICK taken \in {0, len \div 2, len - 1} \cap Nat :
          /\ accepted' = accepted + taken
          /\ writtenBytes' = writtenBytes + Counted(len, taken, binary)
    BY <1>4 DEF OutFails
  <2>2. taken \in Nat
    OBVIOUS
  <2>3. Counted(len, taken, binary) \in Nat /\ Counted(len, taken, binary) <= taken
    BY <2>2 DEF Counted
  <2>4. accepted' \in Nat /\ writtenBytes' \in Nat /\ writtenBytes' <= accepted'
    BY <1>1, <2>1, <2>2, <2>3
  <2>5. failed' /\ failed' \in BOOLEAN /\ failure' = failure /\ down' = (failure = "for good")
    BY <1>4 DEF OutFails
  <2>6. failure # "never"
    BY <1>2, <1>4 DEF OutFails
  <2>7. down' \in BOOLEAN /\ (down' <=> failed' /\ failure' = "for good")
    BY <2>5
  <2> QED BY <2>4, <2>5, <2>6, <2>7
<1> QED BY <1>3, <1>4

(* While bytes are written the records and their numbers stay. *)
LEMMA NumbersCarried ==
  ASSUME NumbersInv, pc \in {"headers", "records"}, pc' \in {"headers", "records"} \/ Finished',
         UNCHANGED <<records, exth>>,
         UNCHANGED <<header.FirstNonBookIndex, header.IndxRecodOffset, header.FirstImageIndex,
                     header.LastContentRecordNumber, header.FlisRecordIndex, header.FcisRecordIndex>>
  PROVE  NumbersInv'
BY SMTT(60) DEF NumbersInv, IsRecord, Kind, LastContent, Finished

(* The same for what RecordsInv says, when WriteTo goes on or returns. *)
LEMMA RecordsCarried ==
  ASSUME TypeOK, RecordsInv, pc # "calls", UNCHANGED <<records, textCount>>,
         (pc' # "calls" /\ writes' = writes) \/ (pc' = "calls" /\ writes' = writes + 1)
  PROVE  RecordsInv'
<1>1. writes \in Nat
  BY BoundsAssumption DEF TypeOK
<1> QED BY <1>1 DEF RecordsInv, Kind

(* WriteHeaderPart keeps the invariant: every part is where the layout has it.*)
LEMMA HeaderPartStep ==
  ASSUME FileInv, WriteHeaderPart
  PROVE  FileInv'
<1> PICK parts : parts = Len(HeaderParts)
  OBVIOUS
<1> PICK num : num = RecordsNum
  OBVIOUS
<1> PICK part : part = HeaderParts[at]
  OBVIOUS
<1>1. /\ TypeOK /\ Typed /\ ImagesInv /\ RecordsInv /\ NumbersInv /\ OutInv /\ HeadersInv
      /\ pc = "headers" /\ pc' = "headers" /\ at' = at + 1 /\ at <= parts
      /\ UNCHANGED <<title, embedded, exth, records, textCount, idxt, result, writes>>
  BY Types DEF FileInv, WriteHeaderPart, callVars
<1>2. /\ OutTakes(part.len) \/ OutFails(part.len, part.binary)
      /\ table' = IF part.what = "offset" THEN Append(table, Offset(Len(table))) ELSE table
      /\ starts' = IF part.what = "record0" THEN Append(starts, accepted) ELSE starts
      /\ nameStart' = IF part.what = "title" THEN accepted ELSE nameStart
      /\ header' = CASE part.what = "mobi" -> [header EXCEPT !.FullNameOffset = NameOffset]
                     [] part.what = "exth" -> [header EXCEPT !.HeaderLenght = ExthHeaderLen]
                     [] OTHER -> header
  BY DEF WriteHeaderPart
<1>3. Laid /\ ExthHeaderLen \in Nat /\ NameOffset \in Nat
  BY <1>1, HeaderShape, ExthShape DEF Laid
<1>4. /\ at \in 1..parts /\ parts \in Nat /\ num \in Nat /\ parts >= num + 9
      /\ part \in PartSet /\ part.len = PartLens[at]
      /\ part.what = "offset" <=> at \in 2..(num + 1)
      /\ part.what = "record0" <=> at = num + 3
      /\ part.what = "mobi" <=> at = num + 4
      /\ part.what = "title" <=> at = parts
      /\ at = parts => part.len = title
  <2>1. parts \in Nat /\ num \in Nat /\ parts >= num + 9 /\ HeaderParts \in Seq(PartSet)
    BY <1>3 DEF Laid
  <2>2. at \in 1..parts
    <3>1. at \in Nat /\ at >= 1
      BY <1>1 DEF HeadersInv, Typed
    <3> QED BY <1>1, <2>1, <3>1
  <2>3. part \in PartSet
    BY <2>1, <2>2
  <2>4. /\ part.len = PartLens[at]
        /\ part.what = "offset" <=> at \in 2..(num + 1)
        /\ part.what = "record0" <=> at = Record0Part
        /\ part.what = "mobi" <=> at = Record0Part + 1
        /\ part.what = "title" <=> at = parts
        /\ at = parts => part.len = title
    BY <1>3, <2>2 DEF Laid
  <2>5. Record0Part = num + 3 /\ Record0Part + 1 = num + 4
    BY <2>1 DEF Record0Part
  <2> QED BY <2>1, <2>2, <2>3, <2>4, <2>5
<1>5. part.len \in Nat /\ part.binary \in BOOLEAN
  BY <1>4 DEF PartSet
<1>6. /\ accepted' \in Nat /\ writtenBytes' \in Nat /\ writtenBytes' <= accepted'
      /\ failure' = failure /\ down' \in BOOLEAN /\ failed' \in BOOLEAN
      /\ ~failed' => ~failed /\ accepted' = accepted + part.len /\ writtenBytes' = accepted'
      /\ failed' => failure' # "never"
      /\ down' <=> failed' /\ failure' = "for good"
  BY <1>1, <1>2, <1>5, OutStep
<1>7. /\ RecordsNum' = num /\ HeaderParts' = HeaderParts /\ PartLens' = PartLens
      /\ Record0Part' = num + 3 /\ Record0Part = num + 3 /\ NameOffset' = NameOffset
      /\ \A k : Offset(k)' = Offset(k)
  BY <1>1, SameLayout DEF Record0Part
<1>8. /\ table \in Seq(Nat) /\ starts \in Seq(Nat) /\ accepted \in Nat /\ nameStart \in Nat
      /\ Len(table) = (CASE at <= 2 -> 0 [] at \in 3..(num + 2) -> at - 2 [] OTHER -> num)
      /\ \A k \in DOMAIN table : table[k] = Offset(k - 1)
      /\ Len(starts) = (IF at > num + 3 THEN 1 ELSE 0)
      /\ at > num + 4 => header.FullNameOffset = NameOffset
      /\ ~failed => /\ accepted = SumOfFirst(PartLens)[at - 1]
                    /\ at > num + 3 => starts[1] = PalmDBHeaderLen + 8 * num + 2
                    /\ at > parts => nameStart + title = accepted
  <2>1. Record0Part + 1 = num + 4
    BY <1>4, <1>7
  <2> QED BY <1>1, <1>7, <2>1 DEF HeadersInv, Typed
<1>9. /\ table' \in Seq(Nat)
      /\ Len(table') = (CASE at' <= 2 -> 0 [] at' \in 3..(num + 2) -> at' - 2 [] OTHER -> num)
      /\ \A k \in DOMAIN table' : table'[k] = Offset(k - 1)
  <2>1. CASE part.what = "offset"
    <3>1. at \in 2..(num + 1) /\ Len(table) = at - 2
      <4>1. at \in 2..(num + 1)
        BY <1>4, <2>1
      <4>2. CASE at = 2
        BY <1>8, <4>1, <4>2
      <4>3. CASE at # 2
        <5>1. ~(at <= 2) /\ at \in 3..(num + 2)
          BY <1>4, <4>1, <4>3
        <5> QED BY <1>8, <4>1, <5>1
      <4> QED BY <4>2, <4>3
    <3> PICK t : t = Len(table)
      OBVIOUS
    <3>2. Offset(t) \in Nat
      <4>1. Len(records) \in Nat /\ num <= Len(records) /\ Len(records) >= 1
        <5>1. records \in Seq(RecordSet) /\ Len(records) >= 2
          BY <1>1 DEF Typed, RecordsInv
        <5>2. Len(records) \in Nat
          BY <5>1
        <5>3. num <= Len(records)
          BY <5>2, Remainder DEF RecordsNum
        <5> QED BY <5>1, <5>2, <5>3
      <4>2. t \in 0..Len(records)
        BY <1>4, <3>1, <4>1
      <4> QED BY <1>1, <4>1, <4>2, OffsetType
    <3> PICK o : o = Offset(t)
      OBVIOUS
    <3>3. /\ table' \in Seq(Nat) /\ Len(table') = t + 1 /\ table'[t + 1] = o /\ t \in Nat
          /\ DOMAIN table' = 1..(t + 1) /\ DOMAIN table = 1..t
          /\ \A k \in 1..t : table'[k] = table[k]
      <4>1. table' = Append(table, o) /\ table \in Seq(Nat) /\ o \in Nat /\ t = Len(table)
        BY <1>2, <1>8, <2>1, <3>2
      <4> QED BY ONLY <4>1
    <3>4. Len(table') = (CASE at' <= 2 -> 0 [] at' \in 3..(num + 2) -> at' - 2 [] OTHER -> num)
      <4>1. at' \in 3..(num + 2) /\ t + 1 = at' - 2 /\ ~(at' <= 2)
        BY <1>1, <1>4, <3>1
      <4> QED BY <3>3, <4>1
    <3>5. ASSUME NEW k \in DOMAIN table' PROVE table'[k] = Offset(k - 1)
      <4>1. CASE k = t + 1
        <5>1. k - 1 = t
          BY <3>3, <4>1
        <5> QED BY <3>3, <4>1, <5>1
      <4>2. CASE k # t + 1
        <5>1. k \in 1..t
          BY <3>3, <4>2
        <5> QED BY <1>8, <3>3, <5>1
      <4> QED BY <4>1, <4>2
    <3> QED BY <3>3, <3>4, <3>5
  <2>2. CASE part.what # "offset"
    <3>1. at = 1 \/ at >= num + 2
      BY <1>4, <2>2
    <3>2. Len(table) = (CASE at' <= 2 -> 0 [] at' \in 3..(num + 2) -> at' - 2 [] OTHER -> num)
      <4>1. CASE at = 1
        BY <1>1, <1>8, <4>1
      <4>2. CASE at >= num + 2 /\ at # 1
        <5>1. Len(table) = num
          <6>1. CASE at <= 2
            <7>1. num = 0
              BY <1>4, <4>2, <6>1
            <7> QED BY <1>8, <6>1, <7>1
          <6>2. CASE at > 2 /\ at = num + 2
            <7>1. ~(at <= 2) /\ at \in 3..(num + 2) /\ at - 2 = num
              BY <1>4, <6>2
            <7> QED BY <1>8, <7>1
          <6>3. CASE at > 2 /\ at > num + 2
            <7>1. ~(at <= 2) /\ at \notin 3..(num + 2)
              BY <1>4, <6>3
            <7> QED BY <1>8, <7>1
          <6> QED BY <1>4, <4>2, <6>1, <6>2, <6>3
        <5>2. ~(at' <= 2) /\ at' \notin 3..(num + 2)
          BY <1>1, <1>4, <4>2
        <5> QED BY <5>1, <5>2
      <4> QED BY <3>1, <4>1, <4>2
    <3> QED BY <1>2, <1>8, <2>2, <3>2
  <2> QED BY <2>1, <2>2
<1>10. /\ starts' \in Seq(Nat) /\ Len(starts') = (IF at' > num + 3 THEN 1 ELSE 0)
       /\ ~failed' => (at' > num + 3 => starts'[1] = PalmDBHeaderLen + 8 * num + 2)
  <2>1. CASE at = num + 3
    <3>1. starts = <<>> /\ starts' = Append(starts, accepted) /\ at' > num + 3
      <4>1. ~(at > num + 3)
        BY <1>4, <2>1
      <4>2. Len(starts) = 0
        BY <1>8, <4>1
      <4>3. at' > num + 3
        BY <1>1, <1>4, <2>1
      <4> QED BY <1>2, <1>4, <1>8, <2>1, <4>2, <4>3
    <3>2. starts' \in Seq(Nat) /\ Len(starts') = 1 /\ starts'[1] = accepted
      BY <1>8, <3>1
    <3>3. ~failed' => accepted = PalmDBHeaderLen + 8 * num + 2
      <4>1. SumOfFirst(PartLens)[at - 1] = PalmDBHeaderLen + 8 * num + 2
        BY <1>3, <1>7, <2>1 DEF Laid
      <4> QED BY <1>6, <1>8, <4>1
    <3> QED BY <3>1, <3>2, <3>3
  <2>2. CASE at # num + 3
    <3>1. starts' = starts /\ (at' > num + 3 <=> at > num + 3)
      BY <1>1, <1>2, <1>4, <2>2
    <3> QED BY <1>6, <1>8, <3>1
  <2> QED BY <2>1, <2>2
<1>11. /\ header' \in [FirstNonBookIndex : Nat, IndxRecodOffset : Nat, FirstImageIndex : Nat \cup {NoIndex},
                       LastContentRecordNumber : Nat, FlisRecordIndex : Nat, FcisRecordIndex : Nat,
                       FullNameOffset : Nat, HeaderLenght : Nat]
       /\ UNCHANGED <<header.FirstNonBookIndex, header.IndxRecodOffset, header.FirstImageIndex,
                      header.LastContentRecordNumber, header.FlisRecordIndex, header.FcisRecordIndex>>
       /\ header'.FullNameOffset = IF at = num + 4 THEN NameOffset ELSE header.FullNameOffset
  <2>1. header \in [FirstNonBookIndex : Nat, IndxRecodOffset : Nat, FirstImageIndex : Nat \cup {NoIndex},
                    LastContentRecordNumber : Nat, FlisRecordIndex : Nat, FcisRecordIndex : Nat,
                    FullNameOffset : Nat, HeaderLenght : Nat]
    BY <1>1 DEF Typed
  <2>2. CASE at = num + 4
    <3>1. header' = [header EXCEPT !.FullNameOffset = NameOffset]
      BY <1>2, <1>4, <2>2
    <3> QED BY <1>3, <2>1, <2>2, <3>1
  <2>3. CASE at # num + 4 /\ part.what = "exth"
    <3>1. header' = [header EXCEPT !.HeaderLenght = ExthHeaderLen]
      BY <1>2, <1>4, <2>3
    <3> QED BY <1>3, <2>1, <2>3, <3>1
  <2>4. CASE at # num + 4 /\ part.what # "exth"
    <3>1. header' = header
      BY <1>2, <1>4, <2>4
    <3> QED BY <2>1, <2>4, <3>1
  <2> QED BY <2>2, <2>3, <2>4
<1>12. /\ nameStart' \in Nat
       /\ ~failed' => /\ accepted' = SumOfFirst(PartLens)[at' - 1]
                      /\ at' > parts => nameStart' + title' = accepted'
  <2>1. nameStart' \in Nat
    BY <1>2, <1>8
  <2>2. ASSUME ~failed' PROVE accepted' = SumOfFirst(PartLens)[at' - 1]
    <3>1. accepted = SumOfFirst(PartLens)[at - 1] /\ accepted' = accepted + PartLens[at]
      BY <1>4, <1>6, <1>8, <2>2
    <3>2. SumOfFirst(PartLens)[at] = SumOfFirst(PartLens)[at - 1] + PartLens[at]
      <4>1. PartLens \in Seq(Nat) /\ Len(PartLens) = parts
        BY <1>3 DEF Laid
      <4> QED BY <1>4, <4>1, SumSteps
    <3>3. at' - 1 = at
      BY <1>1, <1>4
    <3> QED BY <3>1, <3>2, <3>3
  <2>3. ASSUME ~failed', at' > parts PROVE nameStart' + title' = accepted'
    <3>1. at = parts
      BY <1>1, <1>4, <2>3
    <3>2. nameStart' = accepted /\ accepted' = accepted + title /\ title' = title
      BY <1>1, <1>2, <1>4, <1>6, <2>3, <3>1
    <3> QED BY <3>2
  <2> QED BY <2>1, <2>2, <2>3
<1>13. TypeOK'
  <2>1. at' \in Nat
    BY <1>1, <1>4
  <2> QED BY <1>1, <1>6, <1>9, <1>10, <1>11, <1>12, <2>1, Types DEF Typed
<1>14. ImagesInv'
  BY <1>1 DEF ImagesInv, NamesImage
<1>15. RecordsInv' /\ NumbersInv'
  <2>1. RecordsInv'
    <3>1. pc # "calls" /\ pc' # "calls" /\ UNCHANGED <<records, textCount>> /\ writes' = writes
      BY <1>1
    <3> QED BY <1>1, <3>1, RecordsCarried
  <2>2. NumbersInv'
    BY <1>1, <1>11, NumbersCarried
  <2> QED BY <2>1, <2>2
<1>16. OutInv'
  <2>1. pc' \notin {"index", "images", "trailer"} /\ pc' # "records" /\ ~Finished'
    BY <1>1 DEF Finished
  <2> QED BY ONLY <1>6, <2>1 DEF OutInv, Finished
<1>17. HeadersInv'
  <2>1. at' \in 1..(parts + 1)
    BY <1>1, <1>4
  <2>2. at' > num + 4 => header'.FullNameOffset = NameOffset
    <3>1. CASE at = num + 4
      BY <1>11, <3>1
    <3>2. CASE at # num + 4
      <4>1. at' > num + 4 => at > num + 4
        BY <1>1, <1>4, <3>2
      <4> QED BY <1>8, <1>11, <3>2, <4>1
    <3> QED BY <3>1, <3>2
  <2>3. Record0Part' + 1 = num + 4 /\ Len(HeaderParts') = parts
    BY <1>4, <1>7
  <2> QED BY <1>7, <1>9, <1>10, <1>12, <2>1, <2>2, <2>3 DEF HeadersInv
<1>18. PlacesInv'
  BY <1>1 DEF PlacesInv, Finished
<1> QED BY <1>13, <1>14, <1>15, <1>16, <1>17, <1>18 DEF FileInv

(* What HeadersInv says when all the headers are written. *)
LEMMA HeadersWritten ==
  ASSUME FileInv, pc = "headers", at > Len(HeaderParts)
  PROVE  /\ Len(table) = RecordsNum /\ \A k \in DOMAIN table : table[k] = Offset(k - 1)
         /\ Len(starts) = 1 /\ header.FullNameOffset = NameOffset
         /\ ~failed => /\ starts[1] = PalmDBHeaderLen + 8 * RecordsNum + 2
                       /\ nameStart = starts[1] + header.FullNameOffset
                       /\ nameStart + title = accepted
<1> PICK parts : parts = Len(HeaderParts)
  OBVIOUS
<1> PICK num : num = RecordsNum
  OBVIOUS
<1> PICK mark : mark = PalmDBHeaderLen + 8 * num + 2
  OBVIOUS
<1>1. TypeOK /\ ImagesInv /\ HeadersInv /\ Laid
  BY HeaderShape DEF FileInv
<1>2. /\ parts \in Nat /\ num \in Nat /\ parts >= num + 9 /\ at = parts + 1 /\ title \in Nat
      /\ nameStart \in Nat /\ NameOffset \in Nat /\ Record0Part = num + 3
  <2>1. parts \in Nat /\ num \in Nat /\ parts >= num + 9 /\ NameOffset \in Nat
    BY <1>1 DEF Laid
  <2>2. at \in 1..(parts + 1)
    BY <1>1 DEF HeadersInv
  <2>3. title \in Nat /\ nameStart \in Nat
    BY <1>1 DEF TypeOK
  <2> QED BY <2>1, <2>2, <2>3 DEF Record0Part
<1>3. ~(at <= 2) /\ at \notin 3..(num + 2) /\ at > Record0Part /\ at > Record0Part + 1 /\ at > parts /\ at - 1 = parts
  BY <1>2
<1>4. /\ Len(table) = num /\ \A k \in DOMAIN table : table[k] = Offset(k - 1)
      /\ Len(starts) = 1 /\ header.FullNameOffset = NameOffset
      /\ ~failed => /\ accepted = SumOfFirst(PartLens)[parts] /\ starts[1] = mark
                    /\ nameStart + title = accepted
  BY <1>1, <1>3 DEF HeadersInv
<1>5. SumOfFirst(PartLens)[parts] = SumOfFirst(PartLens)[parts - 1] + title /\ SumOfFirst(PartLens)[parts - 1] = mark + NameOffset
  <2>1. PartLens \in Seq(Nat) /\ Len(PartLens) = parts /\ parts \in 1..parts
    BY <1>1, <1>2 DEF Laid
  <2>2. SumOfFirst(PartLens)[parts] = SumOfFirst(PartLens)[parts - 1] + PartLens[parts]
    BY <2>1, SumSteps
  <2>3. PartLens[parts] = title
    BY <1>1, <2>1 DEF Laid
  <2>4. SumOfFirst(PartLens)[parts - 1] = mark + NameOffset
    BY <1>1 DEF Laid
  <2> QED BY <2>2, <2>3, <2>4
<1>6. mark \in Nat
  BY <1>2 DEF PalmDBHeaderLen
<1>7. ~failed => nameStart = mark + NameOffset
  <2>1. ASSUME NEW a \in Nat, NEW b \in Nat, NEW c \in Nat, NEW d \in Nat, NEW e, a + b = e, e = (c + d) + b
        PROVE  a = c + d
    BY <2>1
  <2>2. ~failed => nameStart + title = (mark + NameOffset) + title
    BY <1>4, <1>5
  <2> QED BY SMTT(30), <1>2, <1>6, <2>1, <2>2
<1> QED BY <1>4, <1>7

(* Types after a step that writes bytes. *)
LEMMA TypesCarried ==
  ASSUME TypeOK, UNCHANGED <<title, embedded, exth, records, textCount, idxt, header, table, nameStart>>,
         starts' \in Seq(Nat), accepted' \in Nat, writtenBytes' \in Nat, at' \in Nat,
         failure' = failure, down' \in BOOLEAN, failed' \in BOOLEAN,
         \/ pc # "calls" /\ pc' = "records" /\ UNCHANGED <<result, writes>>
         \/ pc # "calls" /\ pc' = "calls" /\ result' \in [n : Nat, err : BOOLEAN] /\ writes' = writes + 1
  PROVE  TypeOK'
<1>1. Typed
  BY Types
<1>2. writes' \in 0..MaxWrites /\ (pc' # "calls" => writes' < MaxWrites)
  <2>1. writes \in 0..MaxWrites /\ (pc # "calls" => writes < MaxWrites) /\ MaxWrites \in Nat
    BY <1>1, BoundsAssumption DEF Typed
  <2>2. writes < MaxWrites => writes + 1 \in 0..MaxWrites
    BY <2>1
  <2> QED BY <2>1, <2>2
<1> QED BY <1>1, <1>2, Types DEF Typed

(* SeekToText keeps the invariant: the text begins at the mark, or behind it.*)
LEMMA SeekStep ==
  ASSUME FileInv, SeekToText
  PROVE  FileInv'
<1> PICK gap : gap = TextStart - writtenBytes
  OBVIOUS
<1>1. /\ TypeOK /\ Typed /\ ImagesInv /\ RecordsInv /\ NumbersInv /\ OutInv
      /\ pc = "headers" /\ at > Len(HeaderParts)
      /\ UNCHANGED <<title, embedded, exth, records, textCount, idxt, header, table, starts, nameStart>>
  BY Types DEF FileInv, SeekToText, callVars, fileVars
<1>2. \/ /\ gap > 0 /\ OutTakes(gap)
         /\ pc' = "records" /\ at' = 1 /\ UNCHANGED <<result, writes>>
      \/ gap > 0 /\ OutFails(gap, FALSE) /\ Return(writtenBytes', TRUE)
      \/ /\ gap <= 0 /\ UNCHANGED <<failure, down, failed, accepted, writtenBytes>>
         /\ pc' = "records" /\ at' = 1 /\ UNCHANGED <<result, writes>>
  BY DEF SeekToText, outVars
<1>3. /\ writtenBytes \in Nat /\ accepted \in Nat /\ title \in Nat /\ nameStart \in Nat
      /\ TextStart \in Nat /\ gap \in Int /\ writes \in Nat /\ Len(records) \in Nat /\ Len(records) >= 2
      /\ starts \in Seq(Nat) /\ down \in BOOLEAN /\ failed \in BOOLEAN
      /\ ~failed => writtenBytes = accepted
  <2>1. writtenBytes \in Nat /\ accepted \in Nat /\ title \in Nat /\ nameStart \in Nat /\ textCount \in Nat
        /\ starts \in Seq(Nat) /\ down \in BOOLEAN /\ failed \in BOOLEAN /\ records \in Seq(RecordSet)
        /\ writes \in 0..MaxWrites
    BY <1>1 DEF Typed
  <2>2. TextStart \in Nat
    BY <2>1, WordAssumption DEF TextStart
  <2>3. Len(records) >= 2
    BY <1>1 DEF RecordsInv
  <2>4. ~failed => writtenBytes = accepted
    BY <1>1 DEF OutInv
  <2>5. Len(records) \in Nat /\ writes \in Nat
    BY <2>1, BoundsAssumption
  <2> QED BY <2>1, <2>2, <2>3, <2>4, <2>5
<1>4. /\ Len(table) = RecordsNum /\ \A k \in DOMAIN table : table[k] = Offset(k - 1)
      /\ Len(starts) = 1 /\ header.FullNameOffset = NameOffset
      /\ ~failed => /\ starts[1] = PalmDBHeaderLen + 8 * RecordsNum + 2
                    /\ nameStart = starts[1] + header.FullNameOffset
                    /\ nameStart + title = accepted
  BY <1>1, HeadersWritten
<1>5. /\ accepted' \in Nat /\ writtenBytes' \in Nat /\ writtenBytes' <= accepted'
      /\ failure' = failure /\ down' \in BOOLEAN /\ failed' \in BOOLEAN
      /\ ~failed' => ~failed /\ writtenBytes' = accepted'
                     /\ accepted' = IF gap > 0 THEN accepted + gap ELSE accepted
      /\ failed' => failure' # "never"
      /\ down' <=> failed' /\ failure' = "for good"
  <2>1. CASE gap > 0
    <3>1. gap \in Nat /\ ~(gap <= 0)
      BY <1>3, <2>1
    <3>2. OutTakes(gap) \/ OutFails(gap, FALSE)
      BY <1>2, <3>1
    <3> QED BY <1>1, <2>1, <3>1, <3>2, OutStep
  <2>2. CASE ~(gap > 0)
    <3>1. UNCHANGED <<failure, down, failed, accepted, writtenBytes>>
      BY <1>2, <2>2
    <3>2. /\ writtenBytes <= accepted /\ (~failed => writtenBytes = accepted)
          /\ failed => failure # "never"
          /\ down <=> failed /\ failure = "for good"
      BY <1>1 DEF OutInv
    <3> QED BY <1>3, <2>2, <3>1, <3>2
  <2> QED BY <2>1, <2>2
<1>6. \/ pc' = "records" /\ at' = 1 /\ UNCHANGED <<result, writes>>
      \/ /\ pc' = "calls" /\ at' = 0 /\ writes' = writes + 1 /\ failed'
         /\ result' = [n |-> writtenBytes', err |-> TRUE]
  BY <1>2 DEF OutFails, Return
<1>7. TypeOK'
  <2>1. pc' = "calls" => result' \in [n : Nat, err : BOOLEAN]
    <3>1. writtenBytes' \in Nat /\ [n |-> writtenBytes', err |-> TRUE] \in [n : Nat, err : BOOLEAN]
      BY <1>5
    <3> QED BY <1>6, <3>1
  <2>2. at' \in Nat /\ starts' \in Seq(Nat) /\ pc # "calls"
    BY <1>1, <1>3, <1>6
  <2>3. \/ pc # "calls" /\ pc' = "records" /\ UNCHANGED <<result, writes>>
        \/ pc # "calls" /\ pc' = "calls" /\ result' \in [n : Nat, err : BOOLEAN] /\ writes' = writes + 1
    BY <1>6, <2>1, <2>2
  <2>4. UNCHANGED <<title, embedded, exth, records, textCount, idxt, header, table, nameStart>>
    BY <1>1
  <2> QED BY <1>1, <1>5, <2>2, <2>3, <2>4, TypesCarried
<1>8. ImagesInv'
  BY <1>1 DEF ImagesInv, NamesImage
<1>9. RecordsInv'
  <2>1. (pc' # "calls" /\ writes' = writes) \/ (pc' = "calls" /\ writes' = writes + 1)
    BY <1>6
  <2>2. pc # "calls" /\ UNCHANGED <<records, textCount>>
    BY <1>1
  <2> QED BY <1>1, <2>1, <2>2, RecordsCarried
<1>10. NumbersInv'
  <2>1. pc' \in {"headers", "records"} \/ Finished'
    BY <1>3, <1>6 DEF Finished
  <2> QED BY <1>1, <2>1, NumbersCarried
<1>11. OutInv'
  <2>1. pc' = "records" => at' \in 1..Len(records') /\ (down' => at' = 1)
    BY <1>1, <1>3, <1>6
  <2>2. Finished' => result'.n <= accepted' /\ (down' => result'.err) /\ failed'
    <3>1. SUFFICES ASSUME Finished' PROVE result'.n <= accepted' /\ (down' => result'.err) /\ failed'
      OBVIOUS
    <3>2. failed' /\ result' = [n |-> writtenBytes', err |-> TRUE]
      BY <1>6, <3>1 DEF Finished
    <3>3. result'.n = writtenBytes' /\ result'.err
      BY <3>2
    <3> QED BY <1>5, <3>2, <3>3
  <2>3. pc' \notin {"index", "images", "trailer"}
    BY <1>6
  <2> QED BY ONLY <1>5, <2>1, <2>2, <2>3 DEF OutInv, Finished
<1>12. HeadersInv'
  BY <1>6 DEF HeadersInv
<1>13. PlacesInv'
  <2>1. /\ RecordsNum' = RecordsNum /\ Lengths' = Lengths /\ TextStart' = TextStart
        /\ \A k : Offset(k)' = Offset(k)
    BY <1>1, SameLayout
  <2>2. /\ Len(table') = RecordsNum' /\ \A k \in DOMAIN table' : table'[k] = Offset(k - 1)'
        /\ Len(starts') = 1 /\ 1 \in 1..Len(records')
    BY <1>1, <1>3, <1>4, <2>1
  <2>3. /\ pc' = "records" => Len(starts') = at'
        /\ Finished' => failed'
    BY <1>6, <2>2 DEF Finished
  <2>4. ASSUME ~failed' PROVE StartsTrue'
    <3>1. /\ starts'[1] = PalmDBHeaderLen + 8 * RecordsNum' + 2
          /\ nameStart' = starts'[1] + header'.FullNameOffset
      BY <1>1, <1>4, <1>5, <2>1, <2>4
    <3>2. 2..Len(starts') = {}
      BY <2>2
    <3> QED BY <3>1, <3>2 DEF StartsTrue
  <2>5. ASSUME ~failed' PROVE accepted' = TextBegan' + SumOfFirst(Lengths')[Len(starts') - 1]
    <3>1. SumOfFirst(Lengths)[0] = 0
      BY <1>1, <1>3, LengthsType, SumSteps
    <3>2. nameStart + title = accepted /\ writtenBytes = accepted
          /\ accepted' = IF gap > 0 THEN accepted + gap ELSE accepted
      BY <1>3, <1>4, <1>5, <2>4, <2>5
    <3>3. TextBegan' = IF nameStart + title <= TextStart THEN TextStart ELSE nameStart + title
      BY <1>1, <2>1 DEF TextBegan, HeadersFit
    <3>4. accepted' = TextBegan'
      <4>1. CASE gap > 0
        <5>1. nameStart + title <= TextStart /\ accepted + gap = TextStart
          BY <1>3, <3>2, <4>1
        <5> QED BY <3>2, <3>3, <4>1, <5>1
      <4>2. CASE ~(gap > 0)
        <5>1. accepted >= TextStart /\ (accepted <= TextStart => accepted = TextStart)
          BY <1>3, <3>2, <4>2
        <5> QED BY <3>2, <3>3, <4>2, <5>1
      <4> QED BY <4>1, <4>2
    <3>5. Len(starts') - 1 = 0 /\ Lengths' = Lengths
      BY <2>1, <2>2
    <3>6. accepted' + 0 = accepted'
      <4>1. \A a \in Nat : a + 0 = a
        OBVIOUS
      <4> QED BY <1>5, <4>1
    <3> QED BY <3>1, <3>4, <3>5, <3>6
  <2>6. ~(Len(starts') > 2)
    BY <2>2
  <2>7. header'.FullNameOffset > PalmDocHeaderLen + MobiHeaderLen + 12
    <3>1. ExthHeaderLen \in Nat /\ ExthHeaderLen >= 12
      BY <1>1, ExthShape
    <3>2. NameOffset > PalmDocHeaderLen + MobiHeaderLen + 12
      BY <3>1 DEF NameOffset, PalmDocHeaderLen, MobiHeaderLen
    <3> QED BY <1>1, <1>4, <3>2
  <2> QED BY <2>2, <2>3, <2>4, <2>5, <2>6, <2>7 DEF PlacesInv
<1> QED BY <1>7, <1>8, <1>9, <1>10, <1>11, <1>12, <1>13 DEF FileInv

(* One record more, placed behind the others. *)
LEMMA StartsMore ==
  ASSUME TypeOK, RecordsInv, pc # "calls", StartsTrue, Len(starts) \in 1..(Len(records) - 1),
         accepted = TextBegan + SumOfFirst(Lengths)[Len(starts) - 1],
         UNCHANGED <<title, exth, records, textCount, header, nameStart>>, starts' = Append(starts, accepted)
  PROVE  StartsTrue'
<1> PICK n : n = Len(starts)
  OBVIOUS
<1>1. starts \in Seq(Nat) /\ accepted \in Nat
  BY DEF TypeOK
<1>2. /\ n \in Nat /\ n >= 1 /\ Len(starts') = n + 1 /\ starts'[n + 1] = accepted
      /\ \A k \in 1..n : starts'[k] = starts[k]
  BY <1>1
<1>3. RecordsNum' = RecordsNum /\ Lengths' = Lengths /\ TextStart' = TextStart
  BY SameLayout
<1>4. TextBegan' = TextBegan
  BY <1>3 DEF TextBegan, HeadersFit
<1>5. /\ starts[1] = PalmDBHeaderLen + 8 * RecordsNum + 2
      /\ nameStart = starts[1] + header.FullNameOffset
      /\ \A k \in 2..n : starts[k] = TextBegan + SumOfFirst(Lengths)[k - 2]
  BY DEF StartsTrue
<1>6. ASSUME NEW k \in 2..(n + 1) PROVE starts'[k] = TextBegan + SumOfFirst(Lengths)[k - 2]
  <2>1. CASE k = n + 1
    <3>1. k - 2 = n - 1
      BY <1>2, <2>1
    <3> QED BY <1>2, <2>1, <3>1
  <2>2. CASE k # n + 1
    <3>1. k \in 2..n /\ k \in 1..n
      BY <1>2, <2>2
    <3> QED BY <1>2, <1>5, <3>1
  <2> QED BY <2>1, <2>2
<1>7. starts'[1] = starts[1]
  BY <1>2
<1> QED BY <1>2, <1>3, <1>4, <1>5, <1>6, <1>7 DEF StartsTrue

(* WriteRecord keeps the invariant: a record more, or an error returned. *)
LEMMA RecordStep ==
  ASSUME FileInv, WriteRecord
  PROVE  FileInv'
<1> PICK m : m = Len(records)
  OBVIOUS
<1> PICK len : len = records[at + 1].len
  OBVIOUS
<1>1. /\ TypeOK /\ Typed /\ ImagesInv /\ RecordsInv /\ NumbersInv /\ OutInv /\ PlacesInv
      /\ pc = "records" /\ at < m /\ starts' = Append(starts, accepted)
      /\ UNCHANGED <<title, embedded, exth, records, textCount, idxt, header, table, nameStart>>
  BY Types DEF FileInv, WriteRecord, callVars
<1>2. \/ OutTakes(len) /\ at' = at + 1 /\ UNCHANGED <<pc, result, writes>>
      \/ OutFails(len, FALSE) /\ Return(writtenBytes', TRUE)
  BY DEF WriteRecord
<1>3. /\ writtenBytes \in Nat /\ accepted \in Nat /\ writes \in Nat /\ m \in Nat /\ m >= 2
      /\ at \in 1..m /\ (down => at = 1) /\ starts \in Seq(Nat) /\ Len(starts) = at
      /\ down \in BOOLEAN /\ failed \in BOOLEAN
  <2>1. writtenBytes \in Nat /\ accepted \in Nat /\ starts \in Seq(Nat) /\ records \in Seq(RecordSet)
        /\ down \in BOOLEAN /\ failed \in BOOLEAN /\ writes \in 0..MaxWrites
    BY <1>1 DEF Typed
  <2>2. Len(records) >= 2
    BY <1>1 DEF RecordsInv
  <2>3. at \in 1..m /\ (down => at = 1)
    BY <1>1 DEF OutInv
  <2>4. Len(starts) = at
    BY <1>1 DEF PlacesInv
  <2>5. m \in Nat /\ writes \in Nat
    BY <2>1, BoundsAssumption
  <2> QED BY <2>1, <2>2, <2>3, <2>4, <2>5
<1>4. /\ Len(table) = RecordsNum /\ \A k \in DOMAIN table : table[k] = Offset(k - 1)
      /\ ~failed => StartsTrue /\ accepted = TextBegan + SumOfFirst(Lengths)[at - 1]
  BY <1>1, <1>3 DEF PlacesInv
<1>5. at \in 1..(m - 1) /\ len = Lengths[at] /\ len \in Nat
  <2>1. at \in 1..(m - 1)
    BY <1>1, <1>3
  <2>2. Lengths \in Seq(Nat) /\ Len(Lengths) = m - 1 /\ Lengths[at] = len
    BY <1>1, <1>3, <2>1, LengthsType
  <2>3. Lengths[at] \in Nat
    BY <2>1, <2>2, ElementOf
  <2> QED BY <2>1, <2>2, <2>3
<1>6. /\ accepted' \in Nat /\ writtenBytes' \in Nat /\ writtenBytes' <= accepted'
      /\ failure' = failure /\ down' \in BOOLEAN /\ failed' \in BOOLEAN
      /\ ~failed' => ~failed /\ accepted' = accepted + len /\ writtenBytes' = accepted'
      /\ failed' => failure' # "never"
      /\ down' <=> failed' /\ failure' = "for good"
  BY <1>1, <1>2, <1>5, OutStep
<1>7. \/ pc' = "records" /\ at' = at + 1 /\ UNCHANGED <<result, writes>> /\ ~down'
      \/ /\ pc' = "calls" /\ at' = 0 /\ writes' = writes + 1 /\ failed'
         /\ result' = [n |-> writtenBytes', err |-> TRUE]
  BY <1>1, <1>2 DEF OutTakes, OutFails, Return
<1>8. starts' \in Seq(Nat) /\ Len(starts') = at + 1
  BY <1>1, <1>3
<1>9. TypeOK'
  <2>1. pc' = "calls" => result' \in [n : Nat, err : BOOLEAN]
    <3>1. writtenBytes' \in Nat /\ [n |-> writtenBytes', err |-> TRUE] \in [n : Nat, err : BOOLEAN]
      BY <1>6
    <3> QED BY <1>7, <3>1
  <2>2. at' \in Nat /\ pc # "calls"
    BY <1>1, <1>3, <1>7
  <2>3. \/ pc # "calls" /\ pc' = "records" /\ UNCHANGED <<result, writes>>
        \/ pc # "calls" /\ pc' = "calls" /\ result' \in [n : Nat, err : BOOLEAN] /\ writes' = writes + 1
    BY <1>7, <2>1, <2>2
  <2>4. UNCHANGED <<title, embedded, exth, records, textCount, idxt, header, table, nameStart>>
    BY <1>1
  <2> QED BY <1>1, <1>6, <1>8, <2>2, <2>3, <2>4, TypesCarried
<1>10. ImagesInv'
  BY <1>1 DEF ImagesInv, NamesImage
<1>11. RecordsInv'
  <2>1. (pc' # "calls" /\ writes' = writes) \/ (pc' = "calls" /\ writes' = writes + 1)
    BY <1>7
  <2>2. pc # "calls" /\ UNCHANGED <<records, textCount>>
    BY <1>1
  <2> QED BY <1>1, <2>1, <2>2, RecordsCarried
<1>12. NumbersInv'
  <2>1. pc' \in {"headers", "records"} \/ Finished'
    BY <1>3, <1>7 DEF Finished
  <2> QED BY <1>1, <2>1, NumbersCarried
<1>13. OutInv'
  <2>1. pc' = "records" => at' \in 1..Len(records') /\ (down' => at' = 1)
    <3>1. at + 1 \in 1..m
      BY <1>3, <1>5
    <3> QED BY <1>1, <1>7, <3>1
  <2>2. Finished' => result'.n <= accepted' /\ (down' => result'.err) /\ failed'
    <3>1. SUFFICES ASSUME Finished' PROVE result'.n <= accepted' /\ (down' => result'.err) /\ failed'
      OBVIOUS
    <3>2. failed' /\ result' = [n |-> writtenBytes', err |-> TRUE]
      BY <1>7, <3>1 DEF Finished
    <3>3. result'.n = writtenBytes' /\ result'.err
      BY <3>2
    <3> QED BY <1>6, <3>2, <3>3
  <2>3. pc' \notin {"index", "images", "trailer"}
    BY <1>7
  <2> QED BY ONLY <1>6, <2>1, <2>2, <2>3 DEF OutInv, Finished
<1>14. HeadersInv'
  BY <1>7 DEF HeadersInv
<1>15. ~failed => StartsTrue'
  <2>1. SUFFICES ASSUME ~failed PROVE StartsTrue'
    OBVIOUS
  <2>2. pc # "calls" /\ Len(starts) \in 1..(Len(records) - 1)
    BY <1>1, <1>3, <1>5
  <2>3. StartsTrue /\ accepted = TextBegan + SumOfFirst(Lengths)[Len(starts) - 1]
    BY <1>3, <1>4, <2>1
  <2>4. UNCHANGED <<title, exth, records, textCount, header, nameStart>> /\ starts' = Append(starts, accepted)
    BY <1>1
  <2> QED BY <1>1, <2>2, <2>3, <2>4, StartsMore
<1>16. PlacesInv'
  <2>1. /\ RecordsNum' = RecordsNum /\ Lengths' = Lengths /\ TextStart' = TextStart
        /\ \A k : Offset(k)' = Offset(k)
    BY <1>1, SameLayout
  <2>2. TextBegan' = TextBegan
    BY <1>1, <2>1 DEF TextBegan, HeadersFit
  <2>3. /\ Len(table') = RecordsNum' /\ \A k \in DOMAIN table' : table'[k] = Offset(k - 1)'
        /\ Len(starts') \in 1..Len(records')
    <3>1. Len(starts') \in 1..Len(records')
      BY <1>1, <1>3, <1>5, <1>8
    <3> QED BY <1>1, <1>4, <2>1, <3>1
  <2>4. /\ pc' = "records" => Len(starts') = at'
        /\ Finished' => failed'
    BY <1>7, <1>8 DEF Finished
  <2>5. ASSUME ~failed' PROVE StartsTrue'
    BY <1>6, <1>15, <2>5
  <2>6. ASSUME down', Len(starts') > 2 PROVE StartsTrue'
    <3>1. at # 1
      BY <1>8, <2>6
    <3>2. ~down /\ failure = "for good"
      BY <1>3, <1>6, <2>6, <3>1
    <3>3. ~failed
      BY <1>1, <3>2 DEF OutInv
    <3> QED BY <1>15, <3>3
  <2>7. ASSUME ~failed' PROVE accepted' = TextBegan' + SumOfFirst(Lengths')[Len(starts') - 1]
    <3>1. accepted = TextBegan + SumOfFirst(Lengths)[at - 1] /\ accepted' = accepted + len
      BY <1>4, <1>6, <2>7
    <3>2. SumOfFirst(Lengths)[at] = SumOfFirst(Lengths)[at - 1] + len /\ SumOfFirst(Lengths)[at - 1] \in Nat
      <4>1. Lengths \in Seq(Nat) /\ Len(Lengths) = m - 1
        BY <1>1, <1>3, LengthsType
      <4>2. at \in 1..(m - 1) /\ at - 1 \in 0..(m - 1)
        BY <1>5, <1>3
      <4>3. SumOfFirst(Lengths) \in [0..(m - 1) -> Nat] /\ SumOfFirst(Lengths)[at] = SumOfFirst(Lengths)[at - 1] + Lengths[at]
        BY <4>1, <4>2, SumSteps
      <4> QED BY <1>5, <4>2, <4>3
    <3>3. TextBegan \in Nat
      <4>1. TextStart \in Nat /\ nameStart + title \in Nat
        BY <1>1, WordAssumption DEF TextStart, Typed
      <4> QED BY <4>1 DEF TextBegan
    <3>4. Len(starts') - 1 = at
      BY <1>3, <1>8
    <3>5. \A a, b, c \in Nat : (a + b) + c = a + (b + c)
      OBVIOUS
    <3>6. accepted' = TextBegan + SumOfFirst(Lengths)[at]
      <4> PICK sum : sum = SumOfFirst(Lengths)[at - 1]
        OBVIOUS
      <4>1. accepted' = (TextBegan + sum) + len /\ SumOfFirst(Lengths)[at] = sum + len
        BY ONLY <3>1, <3>2, sum = SumOfFirst(Lengths)[at - 1]
      <4>2. (TextBegan + sum) + len = TextBegan + (sum + len)
        <5>1. sum \in Nat /\ TextBegan \in Nat /\ len \in Nat
          BY <1>5, <3>2, <3>3
        <5> QED BY ONLY <5>1, <3>5
      <4> QED BY ONLY <4>1, <4>2
    <3>7. SumOfFirst(Lengths')[Len(starts') - 1] = SumOfFirst(Lengths)[at]
      BY <2>1, <3>4
    <3> QED BY <2>2, <3>6, <3>7
  <2>8. header'.FullNameOffset > PalmDocHeaderLen + MobiHeaderLen + 12
    BY <1>1 DEF PlacesInv
  <2> QED BY <2>3, <2>4, <2>5, <2>6, <2>7, <2>8 DEF PlacesInv
<1> QED BY <1>9, <1>10, <1>11, <1>12, <1>13, <1>14, <1>16 DEF FileInv

(* AllWritten keeps the invariant: a lasting failure cannot get here. *)
LEMMA WrittenStep ==
  ASSUME FileInv, AllWritten
  PROVE  FileInv'
<1>1. /\ TypeOK /\ Typed /\ ImagesInv /\ RecordsInv /\ NumbersInv /\ OutInv /\ PlacesInv
      /\ pc = "records" /\ at >= Len(records) /\ pc' = "calls" /\ at' = 0 /\ writes' = writes + 1
      /\ result' = [n |-> writtenBytes, err |-> FALSE]
      /\ UNCHANGED <<title, embedded, exth, records, textCount, idxt, header, table, starts, nameStart>>
      /\ UNCHANGED <<failure, down, failed, accepted, writtenBytes>>
  BY Types DEF FileInv, AllWritten, Return, callVars, outVars, fileVars
<1>2. /\ writtenBytes \in Nat /\ accepted \in Nat /\ writes \in Nat /\ starts \in Seq(Nat)
      /\ down \in BOOLEAN /\ failed \in BOOLEAN /\ at = Len(records) /\ at \in 1..Len(records) /\ ~down
  <2>1. /\ writtenBytes \in Nat /\ accepted \in Nat /\ writes \in 0..MaxWrites /\ starts \in Seq(Nat)
        /\ down \in BOOLEAN /\ failed \in BOOLEAN /\ records \in Seq(RecordSet)
    BY <1>1 DEF Typed
  <2>2. at \in 1..Len(records) /\ (down => at = 1)
    BY <1>1 DEF OutInv
  <2>3. Len(records) >= 2
    BY <1>1 DEF RecordsInv
  <2>4. Len(records) \in Nat /\ writes \in Nat
    BY <2>1, BoundsAssumption
  <2>5. at = Len(records)
    BY <1>1, <2>2, <2>4
  <2> QED BY <2>1, <2>2, <2>3, <2>4, <2>5
<1>3. TypeOK'
  <2>1. result' \in [n : Nat, err : BOOLEAN] /\ pc # "calls" /\ at' \in Nat
    BY <1>1, <1>2
  <2> QED BY <1>1, <1>2, <2>1, TypesCarried
<1>4. ImagesInv'
  BY <1>1 DEF ImagesInv, NamesImage
<1>5. RecordsInv'
  <2>1. (pc' # "calls" /\ writes' = writes) \/ (pc' = "calls" /\ writes' = writes + 1)
    BY <1>1
  <2>2. pc # "calls" /\ UNCHANGED <<records, textCount>>
    BY <1>1
  <2> QED BY <1>1, <2>1, <2>2, RecordsCarried
<1>6. NumbersInv'
  <2>1. pc' \in {"headers", "records"} \/ Finished'
    BY <1>1, <1>2 DEF Finished
  <2> QED BY <1>1, <2>1, NumbersCarried
<1>7. OutInv'
  <2>1. result'.n = writtenBytes /\ ~result'.err
    BY <1>1
  <2>2. /\ writtenBytes <= accepted /\ (~failed => writtenBytes = accepted)
        /\ failed => failure # "never"
        /\ down <=> failed /\ failure = "for good"
    BY <1>1 DEF OutInv
  <2>3. Finished' => /\ result'.n <= accepted' /\ (down' => result'.err)
                     /\ ~failed' => result'.n = accepted' /\ ~result'.err
    BY <1>1, <1>2, <2>1, <2>2
  <2>4. pc' \notin {"index", "images", "trailer", "records"}
    BY <1>1
  <2> QED BY <1>1, <2>2, <2>3, <2>4 DEF OutInv
<1>8. HeadersInv'
  BY <1>1 DEF HeadersInv
<1>9. PlacesInv'
  <2>1. /\ RecordsNum' = RecordsNum /\ Lengths' = Lengths /\ TextStart' = TextStart
        /\ \A k : Offset(k)' = Offset(k)
    BY <1>1, SameLayout
  <2>2. TextBegan' = TextBegan
    BY <1>1, <2>1 DEF TextBegan, HeadersFit
  <2>3. StartsTrue' = StartsTrue
    BY <1>1, <2>1, <2>2 DEF StartsTrue
  <2>4. /\ Len(table) = RecordsNum /\ \A k \in DOMAIN table : table[k] = Offset(k - 1)
        /\ Len(starts) = Len(records) /\ Len(starts) \in 1..Len(records)
        /\ (~failed \/ (down /\ Len(starts) > 2)) => StartsTrue
        /\ ~failed => accepted = TextBegan + SumOfFirst(Lengths)[Len(starts) - 1]
        /\ header.FullNameOffset > PalmDocHeaderLen + MobiHeaderLen + 12
    BY <1>1, <1>2 DEF PlacesInv
  <2> QED BY <1>1, <2>1, <2>2, <2>3, <2>4 DEF PlacesInv
<1> QED BY <1>3, <1>4, <1>5, <1>6, <1>7, <1>8, <1>9 DEF FileInv

-----------------------------------------------------------------------------
(* Every step of the builder and of WriteTo keeps the invariant. *)
LEMMA FileInductive ==
  ASSUME FileInv, [Next]_vars
  PROVE  FileInv'
<1>1. ASSUME NEW coverLen \in ImageLens, NEW thumbLen \in ImageLens, AddCover(coverLen, thumbLen) PROVE FileInv'
  BY <1>1, CoverStep
<1>2. ASSUME NEW valueLen \in ValueLens, NewExthRecord(valueLen) PROVE FileInv'
  BY <1>2, ExthStep
<1>3. ASSUME NEW text \in TextLens, NEW fault \in Failures, AddBookRecords(text, fault) PROVE FileInv'
  BY <1>3, TextStep
<1>4. ASSUME NEW lens \in IndexLens, AddIndexRecords(lens) PROVE FileInv'
  BY <1>4, IndexStep
<1>5. CASE AddImages
  BY <1>5, ImagesStep
<1>6. CASE AddTrailer
  BY <1>6, TrailerStep
<1>7. CASE WriteHeaderPart
  BY <1>7, HeaderPartStep
<1>8. CASE SeekToText
  BY <1>8, SeekStep
<1>9. CASE WriteRecord
  BY <1>9, RecordStep
<1>10. CASE AllWritten
  BY <1>10, WrittenStep
<1>11. CASE UNCHANGED vars
  BY <1>11, Stutter
<1> QED BY <1>1, <1>2, <1>3, <1>4, <1>5, <1>6, <1>7, <1>8, <1>9, <1>10, <1>11 DEF Next, Call, WriteTo, Done

-----------------------------------------------------------------------------
(* The tables of offsets in the records INDX2.                             *)

(* The tables at the beginning: there are none. *)
LEMMA TablesBegin == Init => TablesInv
<1> SUFFICES ASSUME Init PROVE TablesInv
  OBVIOUS
<1>1. idxt = <<>> /\ records = <<>> /\ pc = "calls" /\ writes = 0
  BY DEF Init
<1>2. Indexes = 0
  BY <1>1 DEF Indexes
<1>3. Len(idxt) = 0 /\ Len(records) = 0 /\ \A k : k \notin 0..(0 - 1) /\ k \notin 1..(0 - 1)
  BY <1>1
<1> QED BY <1>1, <1>2, <1>3 DEF TablesInv

(* They stay true while no index is made. *)
LEMMA TablesCarried ==
  ASSUME TypeOK, TablesInv, idxt' = idxt, Indexes' = Indexes,
         header'.IndxRecodOffset = header.IndxRecodOffset,
         NEW more \in Seq(RecordSet), records' = records \o more,
         \A j \in 1..Len(more) : more[j].kind # "indx2"
  PROVE  TablesInv'
<1> PICK m : m = Len(records)
  OBVIOUS
<1> PICK n : n = Len(more)
  OBVIOUS
<1>1. /\ m \in Nat /\ n \in Nat /\ Len(records') = m + n
      /\ \A k \in 1..m : records'[k] = records[k]
      /\ \A j \in 1..n : records'[m + j] = more[j]
      /\ \A k, kind : IsRecord(k, kind) => IsRecord(k, kind)'
  <2>1. records \in Seq(RecordSet)
    BY Types DEF Typed
  <2>2. m \in Nat /\ n \in Nat
    BY <2>1
  <2> QED BY <2>2, RecordsKept
<1>2. ASSUME NEW k \in 0..(m - 1)
      PROVE  Kind(k)' = Kind(k) /\ Table(k)' = Table(k) /\ IdxtOffset(k)' = IdxtOffset(k)
  <2>1. records'[k + 1] = records[k + 1]
    <3>1. k + 1 \in 1..m
      BY <1>1
    <3> QED BY <1>1, <3>1
  <2> QED BY <2>1 DEF Kind, Table, IdxtOffset
<1>3. ASSUME NEW k \in 0..(m + n - 1), Kind(k)' = "indx2" PROVE k \in 0..(m - 1)
  <2>1. CASE k >= m
    <3>1. (k - m) + 1 \in 1..n /\ m + ((k - m) + 1) = k + 1
      BY <1>1, <2>1
    <3>2. records'[k + 1] = more[(k - m) + 1]
      BY <1>1, <3>1
    <3> QED BY <1>3, <3>1, <3>2 DEF Kind
  <2>2. CASE ~(k >= m)
    BY <1>1, <2>2
  <2> QED BY <2>1, <2>2
<1>4. 0..(m - 1) \subseteq 0..(m + n - 1)
  BY <1>1
<1>5. OffsetsFit' => OffsetsFit
  BY <1>1, <1>2, <1>4 DEF OffsetsFit
<1>6. ContentsRewritten => ContentsRewritten'
  BY <1>1, <1>2, <1>4 DEF ContentsRewritten
<1>7. ASSUME NEW k \in 0..(Len(records') - 1), Kind(k)' = "indx2"
      PROVE  /\ Len(Table(k)') \in 1..Len(idxt')
             /\ Len(Table(k)') < Len(idxt') => idxt'[Len(Table(k)') + 1] = FirstOffset
             /\ IdxtOffset(k)' < Word => Last(Table(k)') < IdxtOffset(k)'
  <2>1. k \in 0..(m - 1)
    BY <1>1, <1>3, <1>7
  <2> QED BY <1>2, <1>7, <2>1 DEF TablesInv
<1>8. Indexes' > 0 =>
        IsRecord(header.IndxRecodOffset + 1, "indx2")' /\ Table(header.IndxRecodOffset + 1)' = idxt'
  <2> PICK i : i = header.IndxRecodOffset + 1
    OBVIOUS
  <2> SUFFICES ASSUME Indexes' > 0 PROVE IsRecord(i, "indx2")' /\ Table(i)' = idxt'
    BY DEF IsRecord, Table, Kind
  <2>1. IsRecord(i, "indx2") /\ Table(i) = idxt
    BY DEF TablesInv
  <2> QED BY <1>1, <1>2, <2>1 DEF IsRecord
<1>9. /\ idxt' # <<>> => idxt'[1] = FirstOffset
      /\ Len(idxt') >= Indexes' /\ (Indexes' = 0 => idxt' = <<>>)
      /\ OffsetsFit' =>
           /\ idxt' # <<>> /\ Last(idxt') = FirstOffset => Len(idxt') = 1
           /\ \A j \in 1..(Len(idxt') - 1) : idxt'[j] = idxt'[j + 1] => j = 1 /\ ContentsRewritten'
  BY <1>5, <1>6 DEF TablesInv
<1>10. FirstOffset' = FirstOffset
  BY DEF FirstOffset
<1> QED BY <1>7, <1>8, <1>9, <1>10 DEF TablesInv

(* AddIndexRecords adds a table that is all of Idxt.Offset. *)
LEMMA TablesMore ==
  ASSUME FileInv, TablesInv, NEW lens \in IndexLens, AddIndexRecords(lens)
  PROVE  TablesInv'
<1> PICK m : m = Len(records)
  OBVIOUS
<1> PICK o : o = EntryOffsets(lens.entries)
  OBVIOUS
<1> PICK n : n = Len(lens.entries)
  OBVIOUS
<1> PICK before : before = Len(idxt)
  OBVIOUS
<1> PICK end : end = IndxHeaderLen + Total(lens.entries)
  OBVIOUS
<1> PICK second : second = Indx2(lens.entries, idxt')
  OBVIOUS
<1>1. /\ TypeOK /\ Typed /\ pc = "index" /\ pc' = "images" /\ writes' = writes
      /\ idxt' = idxt \o o /\ (idxt = <<>> \/ before < writes * n)
      /\ records' = records \o <<Rec("zeros", 2), Rec("indx1", lens.indx1), second, Rec("cncx", lens.cncx)>>
      /\ header' = [header EXCEPT !.FirstNonBookIndex = m + 1, !.IndxRecodOffset = m + 1]
  BY Types DEF FileInv, AddIndexRecords, MayFollow, IndexNumber
<1>2. /\ n \in Nat /\ n >= 1 /\ end \in Nat /\ o \in Seq(Nat) /\ Len(o) = n /\ o[1] = FirstOffset
      /\ end < Word => (\A k \in 1..n : o[k] < end) /\ (\A j, k \in 1..n : j < k => o[j] < o[k])
  BY EntriesPlaced DEF FirstOffset
<1>3. /\ idxt \in Seq(Nat) /\ before \in Nat /\ idxt' \in Seq(Nat) /\ Len(idxt') = before + n
      /\ \A j \in 1..before : idxt'[j] = idxt[j]
      /\ \A j \in 1..n : idxt'[before + j] = o[j]
  <2>1. idxt \in Seq(Nat) /\ o \in Seq(Nat) /\ Len(o) = n
    BY <1>1, <1>2 DEF Typed
  <2>2. /\ idxt \o o \in Seq(Nat) /\ Len(idxt \o o) = Len(idxt) + Len(o)
        /\ \A i \in 1..Len(idxt) : (idxt \o o)[i] = idxt[i]
        /\ \A j \in 1..Len(o) : (idxt \o o)[Len(idxt) + j] = o[j]
    <3> PICK t : t = idxt
      OBVIOUS
    <3>1. t \in Seq(Nat) /\ o \in Seq(Nat)
      BY <2>1
    <3>2. /\ t \o o \in Seq(Nat) /\ Len(t \o o) = Len(t) + Len(o)
          /\ \A i \in 1..Len(t) : (t \o o)[i] = t[i]
          /\ \A j \in 1..Len(o) : (t \o o)[Len(t) + j] = o[j]
      BY ONLY <3>1
    <3> QED BY <3>2
  <2>3. before \in Nat
    BY <2>1
  <2> QED BY <1>1, <2>1, <2>2, <2>3
<1>4. before \in Nat /\ n \in Nat /\ n >= 1 /\ Len(idxt') = before + n
  BY <1>2, <1>3
<1>5. writes \in Nat /\ Indexes = writes /\ Indexes' = writes + 1
  <2>1. writes \in Nat
    BY <1>1, BoundsAssumption DEF Typed
  <2> QED BY <1>1, <2>1 DEF Indexes
<1>6. /\ second \in RecordSet /\ second.kind = "indx2" /\ second.idxt = idxt'
      /\ second.len - 4 - 2 * Len(second.idxt) - TablePadding(second.idxt) = end
  BY <1>3, IndexMade
<1>7. /\ m \in Nat /\ Len(records') = m + 4
      /\ \A k \in 1..m : records'[k] = records[k]
      /\ records'[m + 3] = second
      /\ records'[m + 1].kind # "indx2" /\ records'[m + 2].kind # "indx2" /\ records'[m + 4].kind # "indx2"
  <2> PICK p : p = Rec("zeros", 2)
    OBVIOUS
  <2> PICK q : q = Rec("indx1", lens.indx1)
    OBVIOUS
  <2> PICK r : r = Rec("cncx", lens.cncx)
    OBVIOUS
  <2>1. p \in RecordSet /\ q \in RecordSet /\ r \in RecordSet
        /\ p.kind # "indx2" /\ q.kind # "indx2" /\ r.kind # "indx2"
    <3>1. lens.indx1 \in Nat /\ lens.cncx \in Nat
      BY LensAssumption
    <3> QED BY <3>1 DEF Rec, RecordSet, KindSet
  <2> PICK more : more = <<p, q, second, r>>
    OBVIOUS
  <2>2. /\ more \in Seq(RecordSet) /\ Len(more) = 4
        /\ more[1] = p /\ more[2] = q /\ more[3] = second /\ more[4] = r
    BY <1>6, <2>1
  <2>3. records' = records \o more
    BY <1>1
  <2>4. m \in Nat /\ 1 \in 1..4 /\ 2 \in 1..4 /\ 3 \in 1..4 /\ 4 \in 1..4
    BY <1>1 DEF Typed
  <2>5. /\ Len(records') = m + 4 /\ \A k \in 1..m : records'[k] = records[k]
        /\ \A j \in 1..4 : records'[m + j] = more[j]
    BY <1>1, <2>2, <2>3, RecordsKept
  <2> QED BY <2>1, <2>2, <2>4, <2>5
<1>8. ASSUME NEW k \in 0..(m - 1)
      PROVE  Kind(k)' = Kind(k) /\ Table(k)' = Table(k) /\ IdxtOffset(k)' = IdxtOffset(k)
  <2>1. records'[k + 1] = records[k + 1]
    <3>1. k + 1 \in 1..m
      BY <1>7
    <3> QED BY <1>7, <3>1
  <2> QED BY <2>1 DEF Kind, Table, IdxtOffset
<1>9. Kind(m + 2)' = "indx2" /\ Table(m + 2)' = idxt' /\ IdxtOffset(m + 2)' = end /\ m + 2 \in 0..(Len(records') - 1)
  <2>1. (m + 2) + 1 = m + 3 /\ m + 2 \in 0..(Len(records') - 1)
    BY <1>7
  <2>2. records'[(m + 2) + 1] = second
    BY <1>7, <2>1
  <2> QED BY <1>6, <2>1, <2>2 DEF Kind, Table, IdxtOffset
<1>10. ASSUME NEW k \in 0..(Len(records') - 1), Kind(k)' = "indx2" PROVE k \in 0..(m - 1) \/ k = m + 2
  <2>1. k + 1 # m + 1 /\ k + 1 # m + 2 /\ k + 1 # m + 4
    BY <1>7, <1>10 DEF Kind
  <2>2. k \in 0..(m + 3)
    BY <1>7
  <2> QED BY <1>7, <2>1, <2>2
<1>11. 0..(m - 1) \subseteq 0..(Len(records') - 1)
  BY <1>7
<1>12. Last(idxt') = o[n]
  <2>1. before + n = Len(idxt') /\ n \in 1..n
    BY <1>2, <1>3
  <2>2. idxt'[before + n] = o[n]
    BY <1>3, <2>1
  <2> QED BY <2>1, <2>2 DEF Last
<1>13. ASSUME NEW k \in 0..(Len(records') - 1), Kind(k)' = "indx2"
       PROVE  /\ Len(Table(k)') \in 1..Len(idxt')
              /\ Len(Table(k)') < Len(idxt') => idxt'[Len(Table(k)') + 1] = FirstOffset
              /\ IdxtOffset(k)' < Word => Last(Table(k)') < IdxtOffset(k)'
  <2>1. CASE k \in 0..(m - 1)
    <3> PICK len : len = Len(Table(k))
      OBVIOUS
    <3>1. /\ len \in 1..before /\ (len < before => idxt[len + 1] = FirstOffset)
          /\ IdxtOffset(k) < Word => Last(Table(k)) < IdxtOffset(k)
      BY <1>8, <1>13, <2>1 DEF TablesInv
    <3>2. len \in 1..Len(idxt')
      BY ONLY <1>4, <3>1
    <3>3. idxt'[len + 1] = FirstOffset
      <4>1. CASE len < before
        <5>1. len + 1 \in 1..before
          BY ONLY <1>4, <3>1, <4>1
        <5> QED BY <1>3, <3>1, <4>1, <5>1
      <4>2. CASE ~(len < before)
        <5>1. len = before /\ 1 \in 1..n
          BY ONLY <1>4, <3>1, <4>2
        <5> QED BY <1>2, <1>3, <5>1
      <4> QED BY <4>1, <4>2
    <3> QED BY <1>8, <2>1, <3>1, <3>2, <3>3
  <2>2. CASE k = m + 2
    <3>1. Len(idxt') \in 1..Len(idxt') /\ ~(Len(idxt') < Len(idxt'))
      BY ONLY <1>4
    <3>2. end < Word => o[n] < end
      <4>1. n \in 1..n
        BY ONLY <1>4
      <4> QED BY <1>2, <4>1
    <3> QED BY <1>9, <1>12, <2>2, <3>1, <3>2
  <2> QED BY <1>10, <1>13, <2>1, <2>2
<1>14. idxt'[1] = FirstOffset /\ Len(idxt') >= Indexes' /\ Indexes' # 0
  <2>1. before >= writes
    BY <1>5 DEF TablesInv
  <2>2. Len(idxt') >= Indexes' /\ Indexes' # 0
    BY ONLY <1>4, <1>5, <2>1
  <2>3. CASE idxt = <<>>
    <3>0. before = 0
      BY <2>3
    <3>1. before = 0 /\ 1 \in 1..n /\ before + 1 = 1
      BY ONLY <1>4, <3>0
    <3> QED BY <1>2, <1>3, <2>2, <3>1
  <2>4. CASE idxt # <<>>
    <3>1. 1 \in 1..before
      BY <1>3, <2>4
    <3> QED BY <1>3, <2>2, <2>4, <3>1 DEF TablesInv
  <2> QED BY <2>3, <2>4
<1>15. IsRecord(header.IndxRecodOffset + 1, "indx2")' /\ Table(header.IndxRecodOffset + 1)' = idxt'
  <2>1. header'.IndxRecodOffset + 1 = m + 2
    <3>1. header'.IndxRecodOffset = m + 1
      BY <1>1 DEF Typed
    <3> QED BY <1>7, <3>1
  <2> QED BY <1>9, <2>1 DEF IsRecord, Table, Kind
<1>16. ASSUME OffsetsFit' PROVE OffsetsFit /\ end < Word
  BY <1>8, <1>9, <1>11, <1>16 DEF OffsetsFit
<1>17. ASSUME n = 1 PROVE idxt = <<>>
  <2>1. before >= writes
    BY <1>5 DEF TablesInv
  <2> QED BY <1>1, <1>3, <1>5, <1>17, <2>1
<1>18. ASSUME OffsetsFit', Last(idxt') = FirstOffset PROVE Len(idxt') = 1
  <2>1. n = 1
    <3>1. ~(1 < n)
      <4> SUFFICES ASSUME 1 < n PROVE FALSE
        OBVIOUS
      <4>1. 1 \in 1..n /\ n \in 1..n
        BY ONLY <1>4
      <4>2. o[1] < o[n] /\ o[1] \in Nat /\ o[n] \in Nat
        <5>1. \A a, b \in 1..n : a < b => o[a] < o[b]
          BY <1>2, <1>16, <1>18
        <5>2. o \in Seq(Nat) /\ Len(o) = n
          BY <1>2
        <5> QED BY ONLY 1 < n, <4>1, <5>1, <5>2
      <4>3. o[n] = o[1]
        BY <1>2, <1>12, <1>18
      <4> QED BY ONLY <4>2, <4>3
    <3> QED BY ONLY <1>4, <3>1
  <2>2. before = 0
    BY <1>3, <1>17, <2>1
  <2> QED BY ONLY <1>4, <2>1, <2>2
<1>19. ASSUME OffsetsFit', NEW j \in 1..(Len(idxt') - 1), idxt'[j] = idxt'[j + 1]
       PROVE  j = 1 /\ ContentsRewritten'
  <2>1. j \in Nat /\ j >= 1 /\ j <= (before + n) - 1 /\ Len(idxt') > 1
    <3>1. j \in 1..((before + n) - 1) /\ (before + n) - 1 \in Int
      BY <1>4, <1>19
    <3> QED BY ONLY <1>4, <3>1
  <2>2. CASE j < before
    <3>1. j \in 1..before /\ j + 1 \in 1..before /\ j \in 1..(before - 1)
      BY ONLY <1>4, <2>1, <2>2
    <3>2. idxt[j] = idxt[j + 1]
      BY <1>3, <1>19, <3>1
    <3>3. j = 1 /\ ContentsRewritten
      BY <1>16, <1>19, <3>1, <3>2 DEF TablesInv
    <3>4. PICK k \in 0..(m - 1) : Kind(k) = "indx2" /\ Len(Table(k)) = 1
      BY <3>3 DEF ContentsRewritten
    <3> QED BY <1>8, <1>11, <2>1, <3>3, <3>4 DEF ContentsRewritten
  <2>3. CASE j = before
    <3>0. j \in 1..before /\ 1 \in 1..n /\ before # 0
      BY ONLY <1>4, <2>1, <2>3
    <3>1. j \in 1..before /\ 1 \in 1..n /\ idxt # <<>>
      BY <3>0
    <3>2. Last(idxt) = FirstOffset
      <4>1. idxt'[j] = idxt[before] /\ idxt'[j + 1] = o[1]
        BY <1>3, <2>3, <3>1
      <4> QED BY <1>2, <1>19, <4>1 DEF Last
    <3>3. before = 1
      BY <1>16, <1>19, <3>1, <3>2 DEF TablesInv
    <3>4. Indexes > 0
      BY <1>5, <3>1 DEF TablesInv
    <3> PICK i : i = header.IndxRecodOffset + 1
      OBVIOUS
    <3>5. IsRecord(i, "indx2") /\ Table(i) = idxt
      BY <3>4 DEF TablesInv
    <3>6. i \in 0..(m - 1) /\ Kind(i) = "indx2" /\ Len(Table(i)) = 1
      BY <3>3, <3>5 DEF IsRecord
    <3> QED BY <1>8, <1>11, <2>1, <2>3, <3>3, <3>6 DEF ContentsRewritten
  <2>4. CASE j > before
    <3> PICK i : i = j - before
      OBVIOUS
    <3>1. i \in 1..n /\ i + 1 \in 1..n /\ before + i = j /\ before + (i + 1) = j + 1 /\ i < i + 1
      BY ONLY <1>4, <2>1, <2>4, i = j - before
    <3>2. idxt'[j] = o[i] /\ idxt'[j + 1] = o[i + 1]
      BY <1>3, <3>1
    <3>3. o[i] < o[i + 1] /\ o[i] \in Nat /\ o[i + 1] \in Nat
      <4>1. \A a, b \in 1..n : a < b => o[a] < o[b]
        BY <1>2, <1>16, <1>19
      <4>2. o \in Seq(Nat) /\ Len(o) = n
        BY <1>2
      <4> QED BY ONLY <3>1, <4>1, <4>2
    <3>4. o[i] = o[i + 1]
      BY <1>19, <3>2
    <3> QED BY ONLY <3>3, <3>4
  <2>5. j < before \/ j = before \/ j > before
    BY ONLY <1>4, <2>1
  <2> QED BY <2>2, <2>3, <2>4, <2>5
<1>20. FirstOffset' = FirstOffset
  BY DEF FirstOffset
<1> QED BY <1>13, <1>14, <1>15, <1>18, <1>19, <1>20 DEF TablesInv

(* Every step keeps the tables true. *)
LEMMA TablesInductive ==
  ASSUME FileInv, TablesInv, [Next]_vars
  PROVE  TablesInv'
<1>1. TypeOK /\ Typed /\ records \in Seq(RecordSet) /\ records \o <<>> = records /\ <<>> \in Seq(RecordSet)
  <2>1. TypeOK /\ Typed
    BY Types DEF FileInv
  <2>2. records \in Seq(RecordSet)
    BY <2>1 DEF Typed
  <2>3. records \o <<>> = records /\ <<>> \in Seq(RecordSet)
    BY <2>2
  <2> QED BY <2>1, <2>2, <2>3
<1>2. ASSUME records' = records, idxt' = idxt, Indexes' = Indexes,
             header'.IndxRecodOffset = header.IndxRecodOffset
      PROVE  TablesInv'
  <2>1. \A j \in 1..Len(<<>>) : <<>>[j].kind # "indx2"
    OBVIOUS
  <2> QED BY <1>1, <1>2, <2>1, TablesCarried
<1>3. ASSUME NEW coverLen \in ImageLens, NEW thumbLen \in ImageLens, AddCover(coverLen, thumbLen) PROVE TablesInv'
  BY <1>2, <1>3 DEF AddCover, Indexes
<1>4. ASSUME NEW valueLen \in ValueLens, NewExthRecord(valueLen) PROVE TablesInv'
  BY <1>2, <1>4 DEF NewExthRecord, Indexes
<1>5. ASSUME NEW text \in TextLens, NEW fault \in Failures, AddBookRecords(text, fault) PROVE TablesInv'
  <2> PICK n : n = Len(text)
    OBVIOUS
  <2> PICK recs : recs = [k \in 1..n |-> Rec("text", text[k])]
    OBVIOUS
  <2> PICK zero : zero = Rec("reserved", 1)
    OBVIOUS
  <2>1. text \in Seq(Nat) /\ n \in Nat /\ DOMAIN text = 1..n
    BY LensAssumption
  <2>2. \A k \in 1..n : Rec("text", text[k]) \in RecordSet /\ Rec("text", text[k]).kind # "indx2"
    <3>1. \A k \in 1..n : text[k] \in Nat
      BY <2>1
    <3> QED BY <3>1 DEF Rec, RecordSet, KindSet
  <2>3. recs \in Seq(RecordSet) /\ Len(recs) = n /\ \A k \in 1..n : recs[k].kind # "indx2"
    BY <2>1, <2>2
  <2>4. zero \in RecordSet /\ zero.kind # "indx2"
    BY DEF Rec, RecordSet, KindSet
  <2> PICK more : more = <<zero>> \o recs
    OBVIOUS
  <2>5. more \in Seq(RecordSet) /\ \A j \in 1..Len(more) : more[j].kind # "indx2"
    BY <2>1, <2>3, <2>4
  <2>6. records' = (records \o <<zero>>) \o recs
    BY <1>5, <2>1 DEF AddBookRecords
  <2>7. records' = records \o more
    BY <1>1, <2>3, <2>4, <2>6
  <2>8. idxt' = idxt /\ header' = header /\ Indexes' = Indexes
    BY <1>5 DEF AddBookRecords, Indexes
  <2> QED BY <1>1, <2>5, <2>7, <2>8, TablesCarried
<1>6. ASSUME NEW lens \in IndexLens, AddIndexRecords(lens) PROVE TablesInv'
  BY <1>6, TablesMore
<1>7. CASE AddImages
  <2> PICK n : n = Len(embedded)
    OBVIOUS
  <2> PICK more : more = [k \in 1..n |-> Rec(embedded[k].type, embedded[k].len)]
    OBVIOUS
  <2>1. /\ embedded \in Seq(ImageSet) /\ n \in Nat /\ DOMAIN embedded = 1..n
        /\ \A k \in 1..n : embedded[k].type \in {"cover", "thumb"} /\ embedded[k].len \in Nat
    BY <1>1, EmbeddedType
  <2>2. \A k \in 1..n : /\ Rec(embedded[k].type, embedded[k].len) \in RecordSet
                        /\ Rec(embedded[k].type, embedded[k].len).kind # "indx2"
    BY <2>1 DEF Rec, RecordSet, KindSet
  <2>3. more \in Seq(RecordSet) /\ \A j \in 1..Len(more) : more[j].kind # "indx2"
    BY <2>1, <2>2
  <2>4. records' = records \o more /\ idxt' = idxt /\ Indexes' = Indexes
    BY <1>7, <2>1 DEF AddImages, Indexes
  <2>5. header'.IndxRecodOffset = header.IndxRecodOffset
    BY <1>1, <1>7 DEF AddImages, Typed
  <2> QED BY <1>1, <2>3, <2>4, <2>5, TablesCarried
<1>8. CASE AddTrailer
  <2> PICK more : more = <<Rec("flis", 36), Rec("fcis", 44), Rec("eof", 4)>>
    OBVIOUS
  <2>1. more \in Seq(RecordSet) /\ \A j \in 1..Len(more) : more[j].kind # "indx2"
    BY DEF Rec, RecordSet, KindSet
  <2>2. records' = records \o more /\ idxt' = idxt /\ Indexes' = Indexes
    BY <1>8 DEF AddTrailer, Indexes
  <2>3. header'.IndxRecodOffset = header.IndxRecodOffset
    BY <1>1, <1>8 DEF AddTrailer, Typed
  <2> QED BY <1>1, <2>1, <2>2, <2>3, TablesCarried
<1>9. CASE WriteHeaderPart
  <2>1. records' = records /\ idxt' = idxt /\ Indexes' = Indexes
    BY <1>9 DEF WriteHeaderPart, Indexes
  <2>2. header'.IndxRecodOffset = header.IndxRecodOffset
    BY <1>1, <1>9 DEF WriteHeaderPart, Typed
  <2> QED BY <1>2, <2>1, <2>2
<1>10. CASE SeekToText
  <2>1. records' = records /\ idxt' = idxt /\ header' = header /\ Indexes' = Indexes
    BY <1>10 DEF SeekToText, Return, Indexes
  <2> QED BY <1>2, <2>1
<1>11. CASE WriteRecord
  <2>1. records' = records /\ idxt' = idxt /\ header' = header /\ Indexes' = Indexes
    BY <1>11 DEF WriteRecord, Return, Indexes
  <2> QED BY <1>2, <2>1
<1>12. CASE AllWritten
  <2>1. records' = records /\ idxt' = idxt /\ header' = header /\ Indexes' = Indexes
    BY <1>12 DEF AllWritten, Return, Indexes
  <2> QED BY <1>2, <2>1
<1>13. CASE UNCHANGED vars
  <2>1. records' = records /\ idxt' = idxt /\ header' = header /\ Indexes' = Indexes
    BY <1>13 DEF vars, Indexes
  <2> QED BY <1>2, <2>1
<1> QED BY <1>3, <1>4, <1>5, <1>6, <1>7, <1>8, <1>9, <1>10, <1>11, <1>12, <1>13 DEF Next, Call, WriteTo, Done

(* IndInv holds in every state of the builder, of WriteTo and of its       *)
(* failures, for all lengths, all numbers of records and calls (writer.go).*)
THEOREM Invariance == Spec => []IndInv
<1>1. Init => IndInv
  BY Beginning, TablesBegin DEF IndInv
<1>2. IndInv /\ [Next]_vars => IndInv'
  BY FileInductive, TablesInductive DEF IndInv
<1> QED BY <1>1, <1>2, PTL DEF Spec

-----------------------------------------------------------------------------
(* What the file promises.                                                 *)

(* The state has its types, the numbers of the headers among them.         *)
THEOREM TypeCorrect == Spec => []TypeOK
<1>1. IndInv => TypeOK
  BY DEF IndInv, FileInv
<1> QED BY <1>1, Invariance, PTL

(* For every book the EXTH records lead a reader to the cover and to the   *)
(* thumbnail (writer.go:169-171), also after further covers were written.  *)
THEOREM CoversAreFound == Spec => []CoversFound
<1>1. IndInv => CoversFound
  BY DEF IndInv, FileInv, NumbersInv, IsRecord, CoversFound
<1> QED BY <1>1, Invariance, PTL

(* In a file written once the records that Pdh.RecordCount counts are text *)
(* (pdh.go:20), however many there are and although the count is a uint16. *)
THEOREM TextStaysText == Spec => []TextIsTextOnce
<1>1. IndInv => TextIsTextOnce
  BY DEF IndInv, FileInv, RecordsInv, TextIsTextOnce, TextIsText, Finished
<1> QED BY <1>1, Invariance, PTL

(* A failure for good never goes unnoticed, although no error is looked at *)
(* before the seek (writer.go:208-222).                                    *)
THEOREM FailuresAreReported == Spec => []FailureReported
<1>1. IndInv => FailureReported
  BY DEF IndInv, FileInv, OutInv, FailureReported
<1> QED BY <1>1, Invariance, PTL

(* WriteTo never returns a count that out has not taken, whichever Write   *)
(* failed and however much of it was taken.                                *)
THEOREM CountIsNotOverstated == Spec => []NeverOverstated
<1>1. IndInv => NeverOverstated
  BY DEF IndInv, FileInv, OutInv, NeverOverstated
<1> QED BY <1>1, Invariance, PTL

(* FullNameOffset leads to the title (header.go:21), for every EXTH header.*)
THEOREM NameIsFound == Spec => []NameFound
<1>1. IndInv => NameFound
  BY DEF IndInv, FileInv, PlacesInv, StartsTrue, NameFound, Undisturbed
<1> QED BY <1>1, Invariance, PTL

(* The numbers of the headers name records of their kinds, as long as no   *)
(* record has a number beyond uint16: LastContentRecordNumber is one.      *)
THEOREM NumbersAreNames == Spec => [](Len(records) <= Word => NumbersName)
<1>1. ASSUME IndInv, Len(records) <= Word, Finished PROVE NumbersName
  <2> PICK m : m = Len(records)
    OBVIOUS
  <2> PICK h : h = header.IndxRecodOffset
    OBVIOUS
  <2>1. NumbersInv /\ Typed
    BY <1>1, Types DEF IndInv, FileInv
  <2>2. /\ header.FirstNonBookIndex = h /\ h \in Nat
        /\ IsRecord(h, "indx1") /\ IsRecord(h + 1, "indx2") /\ IsRecord(h + 2, "cncx")
        /\ IsRecord(m - 4, LastContent) /\ header.LastContentRecordNumber = (m - 4) % Word
        /\ header.FlisRecordIndex = m - 3 /\ IsRecord(m - 3, "flis")
        /\ header.FcisRecordIndex = m - 2 /\ IsRecord(m - 2, "fcis")
        /\ IsRecord(m - 1, "eof")
    BY <1>1, <2>1 DEF NumbersInv, Typed
  <2>3. header.LastContentRecordNumber = m - 4
    <3>1. m - 4 \in 0..(m - 1) /\ m \in Nat
      BY <2>1, <2>2 DEF IsRecord, Typed
    <3>2. m - 4 \in Nat /\ m - 4 < Word
      BY <1>1, <3>1, WordAssumption
    <3>3. (m - 4) % Word = m - 4
      BY <3>2, Remainder
    <3> QED BY <2>2, <3>3
  <2>4. ASSUME NEW k \in 0..2 PROVE Kind(header.IndxRecodOffset + k) = <<"indx1", "indx2", "cncx">>[k + 1]
    <3>1. Kind(h) = "indx1" /\ Kind(h + 1) = "indx2" /\ Kind(h + 2) = "cncx" /\ h + 0 = h
      BY <2>2 DEF IsRecord
    <3>2. k = 0 \/ k = 1 \/ k = 2
      OBVIOUS
    <3> QED BY <3>1, <3>2
  <2> QED BY <2>2, <2>3, <2>4 DEF NumbersName, IsRecord, LastContent
<1>2. IndInv => (Len(records) <= Word => NumbersName)
  BY <1>1 DEF NumbersName
<1> QED BY <1>2, Invariance, PTL

(* The places of a file that nothing has disturbed. *)
LEMMA PlacesOf ==
  ASSUME IndInv, Undisturbed
  PROVE  /\ Len(records) \in Nat /\ Len(records) >= 2 /\ table \in Seq(Nat) /\ starts \in Seq(Nat)
         /\ Len(table) = RecordsNum /\ Len(starts) = Len(records)
         /\ \A k \in 1..RecordsNum : table[k] = Offset(k - 1)
         /\ starts[1] = PalmDBHeaderLen + 8 * RecordsNum + 2
         /\ \A k \in 2..Len(records) : starts[k] = TextBegan + SumOfFirst(Lengths)[k - 2]
         /\ accepted = TextBegan + SumOfFirst(Lengths)[Len(records) - 1]
         /\ TextBegan \in Nat /\ TextStart \in Nat /\ (TextBegan = TextStart <=> HeadersFit)
         /\ Lengths \in Seq(Nat) /\ Len(Lengths) = Len(records) - 1
         /\ \A j \in 1..(Len(records) - 1) : Lengths[j] = records[j + 1].len
<1>1. Finished /\ ~failed /\ TypeOK /\ Typed /\ RecordsInv /\ PlacesInv
  BY Types DEF IndInv, FileInv, Undisturbed
<1>2. Len(records) \in Nat /\ Len(records) >= 2 /\ table \in Seq(Nat) /\ starts \in Seq(Nat)
  <2>1. records \in Seq(RecordSet) /\ table \in Seq(Nat) /\ starts \in Seq(Nat) /\ writes # 0
    BY <1>1, BoundsAssumption DEF Typed, Finished
  <2>2. Len(records) >= 2
    BY <1>1, <2>1 DEF RecordsInv
  <2> QED BY <2>1, <2>2
<1>3. /\ Len(table) = RecordsNum /\ \A k \in DOMAIN table : table[k] = Offset(k - 1)
      /\ Len(starts) = Len(records) /\ StartsTrue
      /\ accepted = TextBegan + SumOfFirst(Lengths)[Len(starts) - 1]
  BY <1>1 DEF PlacesInv
<1>4. TextBegan \in Nat /\ TextStart \in Nat /\ (TextBegan = TextStart <=> HeadersFit)
  <2>1. title \in Nat /\ nameStart \in Nat /\ textCount \in Nat
    BY <1>1 DEF Typed
  <2>2. TextStart \in Nat /\ nameStart + title \in Nat
    BY <2>1, WordAssumption DEF TextStart
  <2> QED BY <2>2 DEF TextBegan, HeadersFit
<1>5. Lengths \in Seq(Nat) /\ Len(Lengths) = Len(records) - 1
      /\ \A j \in 1..(Len(records) - 1) : Lengths[j] = records[j + 1].len
  BY <1>1, <1>2, LengthsType
<1>6. DOMAIN table = 1..RecordsNum
  BY <1>2, <1>3
<1> QED BY <1>2, <1>3, <1>4, <1>5, <1>6 DEF StartsTrue

(* The count that an undisturbed WriteTo returns is the size of the file.  *)
THEOREM CountIsTheFile == Spec => []CountsWholeFile
<1>1. ASSUME IndInv, Undisturbed PROVE ~result.err /\ result.n = accepted /\ accepted = Last(starts) + Last(records).len
  <2> PICK m : m = Len(records)
    OBVIOUS
  <2>1. ~result.err /\ result.n = accepted
    BY <1>1 DEF IndInv, FileInv, OutInv, Undisturbed
  <2>2. /\ m \in Nat /\ m >= 2 /\ Len(starts) = m /\ TextBegan \in Nat
        /\ starts[m] = TextBegan + SumOfFirst(Lengths)[m - 2]
        /\ accepted = TextBegan + SumOfFirst(Lengths)[m - 1]
        /\ Lengths \in Seq(Nat) /\ Len(Lengths) = m - 1 /\ Lengths[m - 1] = records[(m - 1) + 1].len
    <3>1. m \in Nat /\ m >= 2
      BY <1>1, PlacesOf
    <3>2. m \in 2..m /\ m - 1 \in 1..(m - 1)
      BY <3>1
    <3> QED BY <1>1, <3>1, <3>2, PlacesOf
  <2>3. SumOfFirst(Lengths)[m - 1] = SumOfFirst(Lengths)[m - 2] + Lengths[m - 1]
        /\ SumOfFirst(Lengths)[m - 2] \in Nat /\ Lengths[m - 1] \in Nat
    <3>1. m - 1 \in 1..(m - 1) /\ (m - 1) - 1 = m - 2 /\ m - 2 \in 0..(m - 1)
      BY <2>2
    <3>2. Lengths[m - 1] \in Nat
      BY <2>2, <3>1, ElementOf
    <3>3. SumOfFirst(Lengths) \in [0..(m - 1) -> Nat]
          /\ SumOfFirst(Lengths)[m - 1] = SumOfFirst(Lengths)[(m - 1) - 1] + Lengths[m - 1]
      BY <2>2, <3>1, SumSteps
    <3> QED BY <3>1, <3>2, <3>3
  <2> PICK sum : sum = SumOfFirst(Lengths)[m - 2]
    OBVIOUS
  <2> PICK len : len = Lengths[m - 1]
    OBVIOUS
  <2>4. accepted = (TextBegan + sum) + len
    <3>1. TextBegan \in Nat /\ sum \in Nat /\ len \in Nat /\ accepted = TextBegan + (sum + len)
      BY <2>2, <2>3
    <3>2. \A a, b, c \in Nat : a + (b + c) = (a + b) + c
      OBVIOUS
    <3> QED BY ONLY <3>1, <3>2
  <2>5. Last(starts) = TextBegan + sum /\ Last(records).len = len
    <3>1. Last(starts) = starts[m] /\ Last(records) = records[m] /\ (m - 1) + 1 = m
      BY <2>2 DEF Last
    <3> QED BY <2>2, <3>1
  <2> QED BY <2>1, <2>4, <2>5
<1>2. IndInv => CountsWholeFile
  BY <1>1 DEF CountsWholeFile
<1> QED BY <1>2, Invariance, PTL

(* The table is right exactly as long as the headers fit and nothing wraps *)
(* (mobi.go:33), whatever the lengths of title, EXTH records and text.     *)
THEOREM OffsetsAreTrue == Spec => []OffsetsTrue
<1>1. ASSUME IndInv, Undisturbed PROVE table = starts <=> HeadersFit /\ NoWrap
  <2> PICK m : m = Len(records)
    OBVIOUS
  <2> PICK num : num = RecordsNum
    OBVIOUS
  <2>1. /\ m \in Nat /\ m >= 2 /\ table \in Seq(Nat) /\ starts \in Seq(Nat)
        /\ Len(table) = num /\ Len(starts) = m
        /\ \A k \in 1..num : table[k] = Offset(k - 1)
        /\ starts[1] = PalmDBHeaderLen + 8 * num + 2
        /\ \A k \in 2..m : starts[k] = TextBegan + SumOfFirst(Lengths)[k - 2]
        /\ TextBegan \in Nat /\ TextStart \in Nat /\ (TextBegan = TextStart <=> HeadersFit)
        /\ Lengths \in Seq(Nat)
    BY <1>1, PlacesOf
  <2>2. num \in Nat /\ num <= m /\ (m < Word => num = m)
    <3>1. m % Word \in 0..(Word - 1) /\ m % Word <= m /\ (m < Word => m % Word = m)
      BY <2>1, Remainder
    <3> QED BY <3>1, WordAssumption DEF RecordsNum
  <2>3. Offset(0) = (num * 8 + 78 + 2) % Word
    BY DEF Offset, PalmDBHeaderLen
  <2>4. starts[1] = 78 + 8 * num + 2 /\ num * 8 + 78 + 2 = 78 + 8 * num + 2 /\ 78 + 8 * num + 2 \in Nat
    BY <2>1, <2>2 DEF PalmDBHeaderLen
  <2>5. Word \in Nat /\ Word > 0 /\ (NoWrap <=> 78 + 8 * m + 2 < Word)
    BY WordAssumption DEF NoWrap, PalmDBHeaderLen
  <2>6. ASSUME table = starts PROVE HeadersFit /\ NoWrap
    <3>1. num = m
      BY <2>1, <2>6
    <3>2. table[1] = Offset(0) /\ table[2] = Offset(1)
      <4>1. 1 \in 1..num /\ 2 \in 1..num /\ 1 - 1 = 0 /\ 2 - 1 = 1
        BY <2>1, <3>1
      <4> QED BY <2>1, <4>1
    <3>3. NoWrap
      <4> PICK e : e = 78 + 8 * num + 2
        OBVIOUS
      <4>1. e % Word = e /\ e \in Nat
        BY <2>3, <2>4, <2>6, <3>2
      <4>2. e % Word \in 0..(Word - 1)
        BY <4>1, Remainder
      <4>3. e < Word
        BY <2>5, <4>1, <4>2
      <4> QED BY <2>5, <3>1, <4>3
    <3>4. HeadersFit
      <4>1. SumOfFirst(Lengths)[0] = 0
        BY <2>1, SumSteps
      <4>2. Offset(1) = TextStart + 0
        BY <4>1 DEF Offset
      <4>3. starts[2] = TextBegan + 0
        <5>1. 2 \in 2..m /\ 2 - 2 = 0
          BY <2>1
        <5>2. starts[2] = TextBegan + SumOfFirst(Lengths)[2 - 2]
          BY <2>1, <5>1
        <5> QED BY <4>1, <5>1, <5>2
      <4>4. TextStart + 0 = TextStart /\ TextBegan + 0 = TextBegan
        <5>1. \A a \in Nat : a + 0 = a
          OBVIOUS
        <5> QED BY <2>1, <5>1
      <4> QED BY <2>1, <2>6, <3>2, <4>2, <4>3, <4>4
    <3> QED BY <3>3, <3>4
  <2>7. ASSUME HeadersFit, NoWrap PROVE table = starts
    <3>1. num = m
      <4>1. m < Word
        BY <2>1, <2>5, <2>7
      <4> QED BY <2>2, <4>1
    <3>2. table[1] = starts[1]
      <4> PICK e : e = 78 + 8 * num + 2
        OBVIOUS
      <4>1. e \in Nat /\ e < Word /\ starts[1] = e /\ Offset(0) = e % Word
        BY <2>3, <2>4, <2>5, <2>7, <3>1
      <4>2. e % Word = e
        BY <4>1, Remainder
      <4>3. table[1] = Offset(0)
        <5>1. 1 \in 1..num /\ 1 - 1 = 0
          BY <2>1, <3>1
        <5> QED BY <2>1, <5>1
      <4> QED BY <4>1, <4>2, <4>3
    <3>3. ASSUME NEW k \in 1..m PROVE table[k] = starts[k]
      <4>1. CASE k = 1
        BY <3>2, <4>1
      <4>2. CASE k # 1
        <5>1. k \in 2..m /\ k - 1 # 0 /\ (k - 1) - 1 = k - 2
          BY <2>1, <4>2
        <5>2. table[k] = TextStart + SumOfFirst(Lengths)[(k - 1) - 1]
          BY <2>1, <3>1, <5>1 DEF Offset
        <5>3. starts[k] = TextBegan + SumOfFirst(Lengths)[k - 2]
          BY <2>1, <5>1
        <5> QED BY <2>1, <2>7, <5>1, <5>2, <5>3
      <4> QED BY <4>1, <4>2
    <3>4. table \in Seq(Nat) /\ starts \in Seq(Nat) /\ Len(table) = m /\ Len(starts) = m
      BY <2>1, <3>1
    <3> QED BY ONLY <3>3, <3>4
  <2> QED BY <2>6, <2>7
<1>2. IndInv => OffsetsTrue
  BY <1>1 DEF OffsetsTrue
<1> QED BY <1>2, Invariance, PTL

-----------------------------------------------------------------------------
(* A reader of the file.                                                   *)

(* A reader changes nothing of the file, and reads it once. *)
LEMMA ReaderVars ==
  ASSUME ReaderNext
  PROVE  /\ [Next]_vars
         /\ parsed # NotParsed => UNCHANGED <<vars, parsed>>
         /\ parsed' # parsed => UNCHANGED vars /\ (Parse \/ ParseCrashes)
<1>1. CASE parsed = NotParsed /\ (Call \/ WriteTo) /\ UNCHANGED parsed
  BY <1>1 DEF Next
<1>2. CASE parsed = NotParsed /\ (Parse \/ ParseCrashes)
  BY <1>2 DEF Parse, ParseCrashes
<1>3. CASE Done /\ UNCHANGED parsed
  BY <1>3 DEF Done
<1> QED BY <1>1, <1>2, <1>3 DEF ReaderNext

(* The steps of a reader are none of the file: with it the builder and     *)
(* WriteTo do what they do alone.                                          *)
THEOREM ReaderLeavesFile == ReaderSpec => Spec
<1>1. ReaderInit => Init
  BY DEF ReaderInit
<1>2. [ReaderNext]_<<vars, parsed>> => [Next]_vars
  BY ReaderVars
<1> QED BY <1>1, <1>2, PTL DEF ReaderSpec, Spec

(* The invariant of the file holds while a reader parses it.               *)
THEOREM ReaderInvariance == ReaderSpec => []IndInv
BY ReaderLeavesFile, Invariance, PTL

(* Two records of the index never begin at the same place. *)
LEMMA IndexPlaces ==
  ASSUME TypeOK, RecordsInv, Len(records) >= 2,
         NEW r \in 1..(Len(records) - 1), NEW q \in 1..(Len(records) - 1),
         Kind(r) \in {"indx1", "indx2"}, Kind(q) \in {"indx1", "indx2"},
         SumOfFirst(Lengths)[r - 1] = SumOfFirst(Lengths)[q - 1]
  PROVE  r = q
<1> PICK m : m = Len(records) - 1
  OBVIOUS
<1>1. /\ m \in Nat /\ Lengths \in Seq(Nat) /\ Len(Lengths) = m
      /\ \A j \in 1..m : Lengths[j] = records[j + 1].len
  <2>1. records \in Seq(RecordSet)
    BY Types DEF Typed
  <2> QED BY <2>1, LengthsType
<1>2. ASSUME NEW i \in 1..m, Kind(i) \in {"indx1", "indx2"} PROVE Lengths[i] > 0
  <2>1. i + 1 \in DOMAIN records /\ records[i + 1].kind \in {"indx1", "indx2"}
    <3>1. records \in Seq(RecordSet)
      BY Types DEF Typed
    <3> QED BY <1>2, <3>1 DEF Kind
  <2> QED BY <1>1, <2>1 DEF RecordsInv
<1>3. ASSUME NEW i \in 1..m, NEW j \in 1..m, Kind(i) \in {"indx1", "indx2"}, i < j
      PROVE  SumOfFirst(Lengths)[i - 1] # SumOfFirst(Lengths)[j - 1]
  <2>1. i - 1 \in 0..m /\ j - 1 \in 0..m /\ i - 1 < j - 1 /\ i - 1 <= j - 1 /\ (i - 1) + 1 = i
    <3>1. m \in Nat /\ i \in 1..m /\ j \in 1..m /\ i < j
      BY <1>1, <1>3
    <3> QED BY ONLY <3>1
  <2>2. /\ SumOfFirst(Lengths)[i - 1] \in Nat /\ SumOfFirst(Lengths)[j - 1] \in Nat
        /\ SumOfFirst(Lengths)[i - 1] + Lengths[i] <= SumOfFirst(Lengths)[j - 1]
    BY <1>1, <2>1, SumRises
  <2>3. Lengths[i] > 0 /\ Lengths[i] \in Nat
    <3>1. i \in DOMAIN Lengths
      BY <1>1
    <3> QED BY <1>1, <1>2, <1>3, <3>1, ElementOf
  <2> QED BY <2>2, <2>3, SMTT(60)
<1>4. r \in 1..m /\ q \in 1..m
  OBVIOUS
<1>5. ~(r < q) /\ ~(q < r)
  BY <1>3, <1>4
<1> QED BY <1>1, <1>4, <1>5

(* What is at the place that the table gives for a record: no more than one *)
(* record of the index, and that record itself if the headers fit.         *)
LEMMA FoundOnce ==
  ASSUME IndInv, Finished, ~failed \/ down, Len(records) < Word,
         NEW h \in 2..(Len(records) - 1), NEW r \in FoundAt(h)
  PROVE  /\ r \in 2..(Len(records) - 1) /\ r \in 0..(Len(starts) - 1)
         /\ FoundAt(h) = {r} /\ Kind(r) \in {"indx1", "indx2"}
         /\ HeadersFit /\ Kind(h) \in {"indx1", "indx2"} => r = h
<1> PICK m : m = Len(records)
  OBVIOUS
<1>1. TypeOK /\ Typed /\ RecordsInv /\ NumbersInv /\ PlacesInv /\ OutInv
  BY Types DEF IndInv, FileInv
<1>2. m \in Nat /\ m >= 2 /\ starts \in Seq(Nat) /\ table \in Seq(Nat) /\ Kind(0) = "reserved" /\ Kind(1) = "text"
  <2>1. records \in Seq(RecordSet) /\ table \in Seq(Nat) /\ starts \in Seq(Nat) /\ writes # 0
    BY <1>1, BoundsAssumption DEF Typed, Finished
  <2>2. Len(records) >= 2 /\ Kind(0) = "reserved" /\ Kind(1) = "text"
    BY <1>1, <2>1 DEF RecordsInv
  <2> QED BY <2>1, <2>2
<1>3. RecordsNum = m /\ Len(table) = m /\ Len(starts) \in 1..m
      /\ \A k \in 1..m : table[k] = Offset(k - 1)
  <2>1. RecordsNum = m
    BY <1>2, Remainder DEF RecordsNum
  <2>2. Len(table) = RecordsNum /\ (\A k \in DOMAIN table : table[k] = Offset(k - 1)) /\ Len(starts) \in 1..m
    BY <1>1 DEF PlacesInv
  <2> QED BY <1>2, <2>1, <2>2
<1>4. h \in 2..(m - 1)
  OBVIOUS
<1>5. ASSUME NEW q \in FoundAt(h) PROVE q \in 2..(Len(starts) - 1) /\ q \in 2..(m - 1) /\ Kind(q) \in {"indx1", "indx2"} /\ starts[q + 1] = table[h + 1]
  <2>1. q \in 0..(Len(starts) - 1) /\ Kind(q) \in {"indx1", "indx2"} /\ starts[q + 1] = table[h + 1]
    BY <1>5 DEF FoundAt
  <2>2. q # 0 /\ q # 1
    BY <1>2, <2>1
  <2> QED BY <1>2, <1>3, <2>1, <2>2
<1>6. StartsTrue
  <2>1. Len(starts) > 2
    BY <1>2, <1>5
  <2> QED BY <1>1, <2>1 DEF PlacesInv
<1>7. ASSUME NEW q \in FoundAt(h) PROVE starts[q + 1] = TextBegan + SumOfFirst(Lengths)[q - 1] /\ SumOfFirst(Lengths)[q - 1] \in Nat
  <2>1. q \in 2..(Len(starts) - 1) /\ q \in 2..(m - 1)
    BY <1>5
  <2>2. q + 1 \in 2..Len(starts) /\ (q + 1) - 2 = q - 1 /\ q - 1 \in 0..(m - 1)
    BY <1>2, <2>1
  <2>3. starts[q + 1] = TextBegan + SumOfFirst(Lengths)[(q + 1) - 2]
    BY <1>6, <2>2 DEF StartsTrue
  <2>4. SumOfFirst(Lengths)[q - 1] \in Nat
    <3>1. Lengths \in Seq(Nat) /\ Len(Lengths) = m - 1
      BY <1>1, <1>2, LengthsType
    <3> QED BY <2>2, <3>1, SumSteps
  <2> QED BY <2>2, <2>3, <2>4
<1>8. TextBegan \in Nat /\ TextStart \in Nat /\ (HeadersFit => TextBegan = TextStart)
  <2>1. TextStart \in Nat /\ nameStart + title \in Nat
    BY <1>1, WordAssumption DEF TextStart, Typed
  <2> QED BY <2>1 DEF TextBegan
<1>9. \A a, b, c \in Nat : a + b = a + c => b = c
  OBVIOUS
<1>10. ASSUME NEW q \in FoundAt(h) PROVE q = r
  <2>1. starts[q + 1] = starts[r + 1] /\ q \in 1..(m - 1) /\ r \in 1..(m - 1)
    BY SMTT(30), <1>2, <1>5
  <2>2. SumOfFirst(Lengths)[q - 1] = SumOfFirst(Lengths)[r - 1]
    BY SMTT(30), <1>7, <1>8, <1>9, <2>1
  <2> QED BY <1>1, <1>2, <1>5, <2>1, <2>2, IndexPlaces
<1>11. ASSUME HeadersFit, Kind(h) \in {"indx1", "indx2"} PROVE r = h
  <2>1. table[h + 1] = TextStart + SumOfFirst(Lengths)[h - 1] /\ SumOfFirst(Lengths)[h - 1] \in Nat
    <3>1. h + 1 \in 1..m /\ (h + 1) - 1 = h /\ h # 0 /\ h - 1 \in 0..(m - 1)
      BY <1>2, <1>4
    <3>2. table[h + 1] = Offset(h)
      BY <1>3, <3>1
    <3>3. SumOfFirst(Lengths)[h - 1] \in Nat
      <4>1. Lengths \in Seq(Nat) /\ Len(Lengths) = m - 1
        BY <1>1, <1>2, LengthsType
      <4> QED BY <3>1, <4>1, SumSteps
    <3> QED BY <3>1, <3>2, <3>3 DEF Offset
  <2>2. SumOfFirst(Lengths)[r - 1] = SumOfFirst(Lengths)[h - 1]
    BY SMTT(30), <1>5, <1>7, <1>8, <1>9, <1>11, <2>1
  <2>3. r \in 1..(m - 1) /\ h \in 1..(m - 1)
    BY SMTT(30), <1>2, <1>4, <1>5
  <2> QED BY <1>1, <1>2, <1>5, <1>11, <2>2, <2>3, IndexPlaces
<1>12. r \in 2..(m - 1) /\ r \in 0..(Len(starts) - 1) /\ FoundAt(h) = {r} /\ Kind(r) \in {"indx1", "indx2"}
  BY <1>2, <1>5, <1>10
<1> QED BY <1>11, <1>12

(* Where the table leads to a record of the index that has been begun. *)
LEMMA FoundHere ==
  ASSUME IndInv, Finished, ~failed \/ down, Len(records) < Word,
         NEW h \in 2..(Len(starts) - 1), Kind(h) \in {"indx1", "indx2"}
  PROVE  h \in FoundAt(h) <=> HeadersFit
<1> PICK m : m = Len(records)
  OBVIOUS
<1>1. TypeOK /\ Typed /\ RecordsInv /\ PlacesInv
  BY Types DEF IndInv, FileInv
<1>2. m \in Nat /\ Len(starts) \in 1..m /\ Len(starts) > 2 /\ StartsTrue
      /\ Len(table) = RecordsNum /\ \A k \in DOMAIN table : table[k] = Offset(k - 1)
  <2>1. records \in Seq(RecordSet) /\ starts \in Seq(Nat)
    BY <1>1 DEF Typed
  <2>2. Len(starts) \in Nat
    BY <2>1
  <2>3. Len(starts) > 2
    BY ONLY <2>2, h \in 2..(Len(starts) - 1)
  <2> QED BY <1>1, <2>1, <2>3 DEF PlacesInv
<1>3. RecordsNum = m
  BY <1>2, Remainder DEF RecordsNum
<1>4. /\ h \in 0..(Len(starts) - 1) /\ h < RecordsNum /\ h + 1 \in 2..Len(starts) /\ h + 1 \in 1..m
      /\ (h + 1) - 1 = h /\ (h + 1) - 2 = h - 1 /\ h # 0 /\ h - 1 \in 0..(m - 1)
  <2>1. m \in Nat /\ Len(starts) \in 1..m /\ h \in 2..(Len(starts) - 1) /\ RecordsNum = m
    BY <1>2, <1>3
  <2> QED BY ONLY <2>1
<1> PICK sum : sum = SumOfFirst(Lengths)[h - 1]
  OBVIOUS
<1>5. starts[h + 1] = TextBegan + sum /\ table[h + 1] = TextStart + sum
  <2>1. starts[h + 1] = TextBegan + SumOfFirst(Lengths)[(h + 1) - 2]
    BY <1>2, <1>4 DEF StartsTrue
  <2>2. table[h + 1] = Offset((h + 1) - 1)
    <3>1. table \in Seq(Nat)
      BY <1>1 DEF Typed
    <3>2. h + 1 \in DOMAIN table
      BY <1>2, <1>3, <1>4, <3>1
    <3> QED BY <1>2, <3>2
  <2> QED BY <1>4, <2>1, <2>2 DEF Offset
<1>6. sum \in Nat
  <2>1. Lengths \in Seq(Nat) /\ Len(Lengths) = m - 1
    <3>1. records \in Seq(RecordSet)
      BY <1>1 DEF Typed
    <3>2. m >= 2
      BY <1>2
    <3> QED BY <1>1, <3>1, <3>2, LengthsType
  <2> QED BY <1>4, <2>1, SumSteps
<1>7. TextBegan \in Nat /\ TextStart \in Nat /\ (TextBegan = TextStart <=> HeadersFit)
  <2>1. TextStart \in Nat /\ nameStart + title \in Nat
    BY <1>1, WordAssumption DEF TextStart, Typed
  <2> QED BY <2>1 DEF TextBegan, HeadersFit
<1>8. starts[h + 1] = table[h + 1] <=> HeadersFit
  <2>1. \A a, b, c \in Nat : a + c = b + c <=> a = b
    OBVIOUS
  <2>2. TextBegan + sum = TextStart + sum <=> TextBegan = TextStart
    BY <1>6, <1>7, <2>1
  <2> QED BY <1>5, <1>7, <2>2
<1>9. h \in FoundAt(h) <=> starts[h + 1] = table[h + 1]
  BY <1>4 DEF FoundAt
<1> QED BY <1>8, <1>9

(* The numbers of the two index records, and the table in the second. *)
LEMMA IndexNumbers ==
  ASSUME IndInv, Finished
  PROVE  LET h == header.IndxRecodOffset
         IN  /\ Len(records) \in Nat /\ h \in 2..(Len(records) - 2) /\ h \in 2..(Len(records) - 1)
             /\ h + 1 \in 2..(Len(records) - 1) /\ Kind(h) = "indx1" /\ Kind(h + 1) = "indx2"
             /\ Table(h + 1) = idxt /\ idxt \in Seq(Nat) /\ Len(idxt) \in Nat /\ Len(idxt) >= 1
<1> PICK m : m = Len(records)
  OBVIOUS
<1> PICK h : h = header.IndxRecodOffset
  OBVIOUS
<1>1. NumbersInv /\ Typed /\ TablesInv /\ writes > 0 /\ pc = "calls"
  BY Types DEF IndInv, FileInv, Finished
<1>2. m \in Nat /\ h >= 2 /\ h \in 0..(m - 1) /\ h + 1 \in 0..(m - 1) /\ Kind(h) = "indx1" /\ Kind(h + 1) = "indx2"
  <2>1. records \in Seq(RecordSet)
    BY <1>1 DEF Typed
  <2>2. h >= 2 /\ IsRecord(h, "indx1") /\ IsRecord(h + 1, "indx2")
    BY <1>1 DEF NumbersInv
  <2> QED BY <2>1, <2>2 DEF IsRecord
<1>3. h \in 2..(m - 2) /\ h \in 2..(m - 1) /\ h + 1 \in 2..(m - 1)
  BY ONLY <1>2
<1>4. Table(h + 1) = idxt /\ idxt \in Seq(Nat) /\ Len(idxt) \in Nat /\ Len(idxt) >= 1
  <2>1. Indexes = writes /\ writes \in Nat
    BY <1>1, BoundsAssumption DEF Indexes, Typed
  <2>2. idxt \in Seq(Nat) /\ Len(idxt) \in Nat
    BY <1>1 DEF Typed
  <2>3. Len(idxt) >= Indexes /\ Table(h + 1) = idxt
    BY <1>1, <2>1 DEF TablesInv
  <2>4. Len(idxt) >= 1
    BY ONLY <1>1, <2>1, <2>2, <2>3
  <2> QED BY <2>2, <2>3, <2>4
<1> QED BY <1>2, <1>3, <1>4

(* The latest table has two equal offsets exactly when the contents were   *)
(* all that the first had, and when it is cut off unless it has only one.  *)
LEMMA EmptyEntries ==
  ASSUME IndInv, Finished, OffsetsFit
  PROVE  LET k == header.IndxRecodOffset + 1
         IN  EmptyEntry(k) <=> IF Has(TableEnd(k)) THEN ContentsRewritten ELSE Len(Table(k)) > 1
<1> PICK k : k = header.IndxRecodOffset + 1
  OBVIOUS
<1> PICK n : n = Len(idxt)
  OBVIOUS
<1> PICK end : end = IdxtOffset(k)
  OBVIOUS
<1>1. /\ k \in 0..(Len(records) - 1) /\ Kind(k) = "indx2" /\ Table(k) = idxt
      /\ idxt \in Seq(Nat) /\ n \in Nat /\ n >= 1
  <2>1. k \in 2..(Len(records) - 1) /\ Len(records) \in Nat
    BY IndexNumbers
  <2>2. k \in 0..(Len(records) - 1)
    BY ONLY <2>1
  <2> QED BY <2>2, IndexNumbers
<1>2. TablesInv
  BY DEF IndInv
<1>3. n \in 1..n /\ 1 \in 1..n /\ ~(n < n) /\ DOMAIN idxt = 1..n
  <2>1. n \in 1..n /\ 1 \in 1..n /\ ~(n < n)
    BY ONLY <1>1
  <2> QED BY <1>1, <2>1
<1>4. end \in Nat /\ idxt[n] < end /\ idxt[n] \in Nat /\ end < Word /\ end % Word = end
  <2>1. end < Word /\ idxt[n] < end
    BY <1>1, <1>2 DEF OffsetsFit, TablesInv, Last
  <2>2. idxt[n] \in Nat
    BY <1>1, <1>3
  <2>3. end \in Int
    <3>1. records[k + 1].len \in Nat
      <4>1. records \in Seq(RecordSet)
        BY Types DEF IndInv, FileInv, Typed
      <4>2. k + 1 \in DOMAIN records
        BY <1>1, <4>1
      <4>3. records[k + 1] \in RecordSet
        BY <4>1, <4>2, ElementOf
      <4> QED BY <4>3 DEF RecordSet
    <3>2. TablePadding(idxt) \in Int
      BY <1>1 DEF TablePadding
    <3> QED BY <1>1, <3>1, <3>2 DEF IdxtOffset
  <2>4. end \in Nat
    BY ONLY <2>1, <2>2, <2>3
  <2>5. end % Word = end
    BY <2>1, <2>4, Remainder
  <2> QED BY <2>1, <2>2, <2>4, <2>5
<1>5. CASE Has(TableEnd(k))
  <2>1. EmptyEntry(k) <=> \E j \in 1..n : idxt[j] = (IF j < n THEN idxt[j + 1] ELSE end % Word)
    <3> PICK o : o = [j \in DOMAIN Table(k) |-> IF Has(TableEnd(k)) THEN Table(k)[j] ELSE 0]
      OBVIOUS
    <3>1. EmptyEntry(k) <=> \E j \in DOMAIN o : o[j] = (IF j < Len(o) THEN o[j + 1] ELSE IdxtOffset(k) % Word)
      BY DEF EmptyEntry
    <3>2. o = idxt
      <4>1. [j \in DOMAIN idxt |-> IF Has(TableEnd(k)) THEN idxt[j] ELSE 0] = idxt
        BY <1>1, <1>5
      <4> QED BY <1>1, <4>1
    <3> QED BY <1>3, <3>1, <3>2
  <2>2. ASSUME NEW j \in 1..n, idxt[j] = (IF j < n THEN idxt[j + 1] ELSE end % Word) PROVE ContentsRewritten
    <3>1. CASE j < n
      <4>1. j \in 1..(n - 1)
        BY ONLY <1>1, <3>1, j \in 1..n
      <4>2. idxt[j] = idxt[j + 1]
        BY <2>2, <3>1
      <4> QED BY <1>2, <4>1, <4>2 DEF TablesInv
    <3>2. CASE ~(j < n)
      <4>1. j = n
        BY ONLY <1>1, <3>2, j \in 1..n
      <4>2. idxt[n] = end
        BY <1>4, <2>2, <3>2, <4>1
      <4> QED BY ONLY <1>4, <4>2
    <3> QED BY <3>1, <3>2
  <2>3. ASSUME ContentsRewritten PROVE \E j \in 1..n : idxt[j] = (IF j < n THEN idxt[j + 1] ELSE end % Word)
    <3>1. PICK q \in 0..(Len(records) - 1) : Kind(q) = "indx2" /\ Len(Table(q)) = 1
      BY <2>3 DEF ContentsRewritten
    <3>2. 1 < n
      BY <2>3 DEF ContentsRewritten
    <3>3. idxt[1 + 1] = FirstOffset
      BY <1>2, <3>1, <3>2 DEF TablesInv
    <3>4. idxt[1] = FirstOffset
      <4>1. idxt # <<>>
        BY <1>1
      <4> QED BY <1>2, <4>1 DEF TablesInv
    <3> QED BY <1>3, <3>2, <3>3, <3>4
  <2>4. ContentsRewritten <=> \E j \in 1..n : idxt[j] = (IF j < n THEN idxt[j + 1] ELSE end % Word)
    BY ONLY <2>2, <2>3
  <2> QED BY <1>5, <2>1, <2>4
<1>6. CASE ~Has(TableEnd(k))
  <2> PICK zeros : zeros = [j \in 1..n |-> 0]
    OBVIOUS
  <2>1. EmptyEntry(k) <=> \E j \in DOMAIN zeros : zeros[j] = (IF j < Len(zeros) THEN zeros[j + 1] ELSE end % Word)
    <3> PICK o : o = [j \in DOMAIN Table(k) |-> IF Has(TableEnd(k)) THEN Table(k)[j] ELSE 0]
      OBVIOUS
    <3>1. EmptyEntry(k) <=> \E j \in DOMAIN o : o[j] = (IF j < Len(o) THEN o[j + 1] ELSE IdxtOffset(k) % Word)
      BY DEF EmptyEntry
    <3>2. o = zeros
      <4>1. [j \in DOMAIN idxt |-> IF Has(TableEnd(k)) THEN idxt[j] ELSE 0] = zeros
        BY <1>3, <1>6
      <4> QED BY <1>1, <4>1
    <3> QED BY <3>1, <3>2
  <2>2. Len(zeros) = n /\ DOMAIN zeros = 1..n /\ \A j \in 1..n : zeros[j] = 0
    BY <1>1
  <2>3. ASSUME n > 1 PROVE \E j \in 1..n : zeros[j] = (IF j < n THEN zeros[j + 1] ELSE end % Word)
    <3>1. 1 < n /\ 1 + 1 \in 1..n
      BY ONLY <1>1, <2>3
    <3> QED BY <1>3, <2>2, <3>1
  <2>4. ASSUME NEW j \in 1..n, zeros[j] = (IF j < n THEN zeros[j + 1] ELSE end % Word) PROVE n > 1
    <3>1. j < n
      <4> SUFFICES ASSUME ~(j < n) PROVE FALSE
        OBVIOUS
      <4>1. end = 0
        BY <1>4, <2>2, <2>4
      <4> QED BY ONLY <1>4, <4>1
    <3> QED BY ONLY <1>1, <3>1, j \in 1..n
  <2>5. EmptyEntry(k) <=> n > 1
    BY ONLY <2>1, <2>2, <2>3, <2>4
  <2> QED BY <1>1, <1>6, <2>5
<1> QED BY <1>5, <1>6

(* Behind the index at its place Parse meets INDX2 and nothing else, and   *)
(* panics when that is begun and has two equal offsets.                    *)
LEMMA IndexPanics ==
  ASSUME IndInv, Finished, ~failed \/ down, Len(records) < Word, HeadersFit, OffsetsFit,
         header.IndxRecodOffset \in FoundAt(header.IndxRecodOffset), IndexWhole(header.IndxRecodOffset)
  PROVE  LET h == header.IndxRecodOffset
         IN  PanicBehind(h) <=>
               /\ h + 1 < Len(starts) /\ accepted >= IdxtEnd(h + 1)
               /\ IF Has(TableEnd(h + 1)) THEN ContentsRewritten ELSE Len(Table(h + 1)) > 1
<1> PICK m : m = Len(records)
  OBVIOUS
<1> PICK h : h = header.IndxRecodOffset
  OBVIOUS
<1>1. /\ m \in Nat /\ h \in 2..(m - 2) /\ h \in 2..(m - 1) /\ h + 1 \in 2..(m - 1)
      /\ Kind(h) = "indx1" /\ Kind(h + 1) = "indx2"
  BY IndexNumbers
<1>2. RecordsNum = m
  BY <1>1, Remainder DEF RecordsNum
<1>3. ASSUME NEW r \in FoundAt(h + 1) PROVE r = h + 1 /\ h + 1 < Len(starts)
  <2>1. r = h + 1 /\ r \in 0..(Len(starts) - 1)
    BY <1>1, FoundOnce
  <2>2. Len(starts) \in Nat
    BY Types DEF IndInv, FileInv, Typed
  <2> QED BY ONLY <2>1, <2>2
<1>4. PanicAt(h + 1) <=>
        /\ h + 1 < Len(starts) /\ accepted >= IdxtEnd(h + 1)
        /\ IF Has(TableEnd(h + 1)) THEN ContentsRewritten ELSE Len(Table(h + 1)) > 1
  <2>1. EmptyEntry(h + 1) <=> IF Has(TableEnd(h + 1)) THEN ContentsRewritten ELSE Len(Table(h + 1)) > 1
    BY EmptyEntries
  <2>2. IndexWhole(h + 1) <=> accepted >= IdxtEnd(h + 1)
    BY DEF IndexWhole, Has
  <2>3. ASSUME h + 1 < Len(starts) PROVE h + 1 \in FoundAt(h + 1)
    <3>1. Len(starts) \in Nat
      BY Types DEF IndInv, FileInv, Typed
    <3>2. h + 1 \in 2..(Len(starts) - 1)
      BY ONLY <1>1, <2>3, <3>1
    <3> QED BY <1>1, <3>2, FoundHere
  <2>4. PanicAt(h + 1) <=> h + 1 < Len(starts) /\ IndexWhole(h + 1) /\ EmptyEntry(h + 1)
    BY <1>1, <1>3, <2>3 DEF PanicAt
  <2> QED BY <2>1, <2>2, <2>4
<1>5. PanicBehind(h) <=> PanicAt(h + 1)
  <2>1. Inflected(h)
    BY <1>1 DEF Inflected
  <2>2. ~Inflected(h + 1)
    BY <1>1, <1>3 DEF Inflected
  <2>3. ASSUME PanicAt(h + 1) PROVE PanicBehind(h)
    <3>1. h + 1 \in (h + 1)..(m - 1) /\ \A i \in h..((h + 1) - 1) : i = h
      BY ONLY <1>1
    <3> QED BY <1>2, <2>1, <2>3, <3>1 DEF PanicBehind
  <2>4. ASSUME PanicBehind(h) PROVE PanicAt(h + 1)
    <3>1. PICK j \in (h + 1)..(m - 1) : PanicAt(j) /\ \A i \in h..(j - 1) : Inflected(i)
      BY <1>2, <2>4 DEF PanicBehind
    <3>2. j = h + 1 \/ h + 1 \in h..(j - 1)
      BY ONLY <1>1, j \in (h + 1)..(m - 1)
    <3> QED BY <2>2, <3>1, <3>2
  <2> QED BY <2>3, <2>4
<1> QED BY <1>4, <1>5

(* What Parse makes of the record it takes for the index. *)
Answer(r) == IF PanicBehind(header.IndxRecodOffset) THEN Panic(r) ELSE Nil(r)

(* Parse takes a record of the index for the index, and has it whole, or   *)
(* says that there is none.                                                *)
LEMMA IndexParsed ==
  ASSUME IndInv, Finished, ~failed \/ down, Len(records) < Word
  PROVE  LET h == header.IndxRecodOffset
         IN  /\ \/ parseIndexRecord(h) = Error
                \/ \E r \in FoundAt(h) : parseIndexRecord(h) = Answer(r) /\ IndexWhole(r)
             /\ \A r \in FoundAt(h) : IndexWhole(r) => parseIndexRecord(h) = Answer(r)
<1> PICK h : h = header.IndxRecodOffset
  OBVIOUS
<1>1. ASSUME NEW r \in FoundAt(h), IndexWhole(r) PROVE parseIndexRecord(h) = Answer(r)
  <2>1. FoundAt(h) = {r}
    BY IndexNumbers, FoundOnce
  <2>2. (CHOOSE q \in FoundAt(h) : TRUE) = r
    BY <2>1
  <2> QED BY <1>1, <2>2 DEF parseIndexRecord, Answer
<1>2. CASE \E r \in FoundAt(h) : IndexWhole(r)
  BY <1>1, <1>2
<1>3. CASE ~(\E r \in FoundAt(h) : IndexWhole(r))
  BY <1>3 DEF parseIndexRecord
<1> QED BY <1>1, <1>2, <1>3

(* Of a file that nothing has disturbed all of the headers are there. *)
LEMMA WholeHeaders ==
  ASSUME IndInv, Undisturbed, Len(records) < Word
  PROVE  ~PdfError /\ ~NoMobi /\ HeaderRead /\ ~NoExth
<1> PICK num : num = RecordsNum
  OBVIOUS
<1>1. /\ num \in Nat /\ num >= 1 /\ starts[1] = 78 + 8 * num + 2
  <2>1. Len(records) \in Nat /\ Len(records) >= 2 /\ starts[1] = PalmDBHeaderLen + 8 * num + 2
    BY PlacesOf
  <2>2. num = Len(records)
    BY <2>1, Remainder DEF RecordsNum
  <2> QED BY <2>1, <2>2 DEF PalmDBHeaderLen
<1>2. nameStart = starts[1] + header.FullNameOffset /\ header.FullNameOffset > 260 /\ header.FullNameOffset \in Nat
  <2>1. StartsTrue /\ header.FullNameOffset > PalmDocHeaderLen + MobiHeaderLen + 12 /\ Typed
    BY Types DEF IndInv, FileInv, PlacesInv, Undisturbed
  <2> QED BY <2>1 DEF StartsTrue, Typed, PalmDocHeaderLen, MobiHeaderLen
<1>3. accepted \in Nat /\ accepted >= nameStart
  <2>1. title \in Nat /\ nameStart \in Nat /\ accepted \in Nat /\ textCount \in Nat
    BY Types DEF IndInv, FileInv, Typed
  <2>2. TextStart \in Nat /\ TextBegan \in Nat /\ TextBegan >= nameStart
    <3>1. TextStart \in Nat
      BY <2>1, WordAssumption DEF TextStart
    <3> QED BY <2>1, <3>1 DEF TextBegan, HeadersFit
  <2> PICK sum : sum = SumOfFirst(Lengths)[Len(records) - 1]
    OBVIOUS
  <2>3. accepted = TextBegan + sum /\ sum \in Nat
    <3>1. Len(records) - 1 \in 0..Len(Lengths) /\ Lengths \in Seq(Nat)
      BY PlacesOf, SMTT(60)
    <3>2. sum \in Nat
      BY <3>1, SumSteps
    <3> QED BY <3>2, PlacesOf
  <2> QED BY <2>1, <2>2, <2>3
<1>4. accepted > 78 + 8 * num + 262
  BY <1>1, <1>2, <1>3
<1>5. ~(num < 1) /\ accepted >= 78 /\ accepted >= 78 + 8 * num /\ accepted >= 78 + 8 * num + 2 + 16 + 232 + 4
      /\ accepted >= 78 + 8 * num + 2 + 16 + 4 /\ accepted >= 78 + 8 * num + 2 + 16 + 232
  BY <1>1, <1>3, <1>4
<1> QED BY <1>5 DEF PdfError, NoMobi, HeaderRead, NoExth, Has, ExthAt, MobiAt, Record0,
          PalmDBHeaderLen, PalmDocHeaderLen, MobiHeaderLen

(* Of a file that nothing has disturbed every record is there. *)
LEMMA WholeRecord ==
  ASSUME IndInv, Undisturbed, NEW r \in 2..(Len(records) - 1)
  PROVE  /\ starts[r + 1] \in Nat /\ records[r + 1].len \in Nat /\ accepted \in Nat
         /\ starts[r + 1] + records[r + 1].len <= accepted
<1> PICK m : m = Len(records)
  OBVIOUS
<1>1. /\ m \in Nat /\ m >= 2 /\ TextBegan \in Nat
      /\ \A k \in 2..m : starts[k] = TextBegan + SumOfFirst(Lengths)[k - 2]
      /\ accepted = TextBegan + SumOfFirst(Lengths)[m - 1]
      /\ Lengths \in Seq(Nat) /\ Len(Lengths) = m - 1
      /\ \A j \in 1..(m - 1) : Lengths[j] = records[j + 1].len
  BY PlacesOf
<1>2. /\ r + 1 \in 2..m /\ (r + 1) - 2 = r - 1 /\ r - 1 \in 0..(m - 1) /\ m - 1 \in 0..(m - 1)
      /\ r - 1 < m - 1 /\ r - 1 <= m - 1 /\ (r - 1) + 1 = r /\ r \in 1..(m - 1)
  <2>1. m \in Nat /\ r \in 2..(m - 1)
    BY <1>1
  <2> QED BY ONLY <2>1
<1> PICK sum : sum = SumOfFirst(Lengths)[r - 1]
  OBVIOUS
<1> PICK all : all = SumOfFirst(Lengths)[m - 1]
  OBVIOUS
<1> PICK len : len = records[r + 1].len
  OBVIOUS
<1>3. starts[r + 1] = TextBegan + sum /\ accepted = TextBegan + all
  <2>1. starts[r + 1] = TextBegan + SumOfFirst(Lengths)[(r + 1) - 2]
    BY <1>1, <1>2
  <2> QED BY <1>1, <1>2, <2>1
<1>4. sum \in Nat /\ all \in Nat /\ len \in Nat /\ sum + len <= all
  <2>1. /\ SumOfFirst(Lengths)[r - 1] \in Nat /\ SumOfFirst(Lengths)[m - 1] \in Nat
        /\ SumOfFirst(Lengths)[r - 1] + Lengths[(r - 1) + 1] <= SumOfFirst(Lengths)[m - 1]
    <3>1. r - 1 \in 0..Len(Lengths) /\ m - 1 \in 0..Len(Lengths)
      BY <1>1, <1>2
    <3> QED BY <1>1, <1>2, <3>1, SumRises
  <2>2. Lengths[(r - 1) + 1] = len /\ Lengths[r] = len
    BY <1>1, <1>2
  <2>3. Lengths[r] \in Nat
    <3>1. r \in DOMAIN Lengths
      BY <1>1, <1>2
    <3> QED BY <1>1, <3>1, ElementOf
  <2> QED BY <2>1, <2>2, <2>3
<1>5. TextBegan + sum \in Nat /\ TextBegan + all \in Nat /\ (TextBegan + sum) + len <= TextBegan + all
  <2>1. TextBegan \in Nat
    BY <1>1
  <2> QED BY ONLY <1>4, <2>1
<1> QED BY <1>3, <1>4, <1>5

(* Where the table leads to the index of such a file, and only there; and  *)
(* both index records are there to the end of their tables.                *)
LEMMA FoundThere ==
  ASSUME IndInv, Undisturbed, Len(records) < Word
  PROVE  LET h == header.IndxRecodOffset
         IN  /\ (h \in FoundAt(h) <=> HeadersFit) /\ IndexWhole(h)
             /\ h + 1 < Len(starts) /\ accepted >= IdxtEnd(h + 1) /\ Has(TableEnd(h + 1))
<1> PICK m : m = Len(records)
  OBVIOUS
<1> PICK h : h = header.IndxRecodOffset
  OBVIOUS
<1>1. /\ Finished /\ m \in Nat /\ Len(starts) = m
      /\ h \in 2..(m - 2) /\ h \in 2..(m - 1) /\ h + 1 \in 2..(m - 1)
      /\ Kind(h) = "indx1" /\ Kind(h + 1) = "indx2"
      /\ Table(h + 1) = idxt /\ idxt \in Seq(Nat) /\ Len(idxt) \in Nat
  <2>1. Finished
    BY DEF Undisturbed
  <2> QED BY <2>1, PlacesOf, IndexNumbers
<1>2. h \in FoundAt(h) <=> HeadersFit
  <2>1. ~failed
    BY DEF Undisturbed
  <2> QED BY <1>1, <2>1, FoundHere
<1>3. IndexWhole(h)
  <2>1. starts[h + 1] \in Nat /\ records[h + 1].len \in Nat /\ accepted \in Nat
        /\ starts[h + 1] + records[h + 1].len <= accepted
    BY <1>1, WholeRecord
  <2>2. IdxtEnd(h) = starts[h + 1] + (records[h + 1].len - 8) + 4
    BY <1>1 DEF IdxtEnd
  <2>3. accepted >= IdxtEnd(h)
    BY ONLY <2>1, <2>2
  <2> QED BY <2>3 DEF IndexWhole, Has
<1>4. accepted >= IdxtEnd(h + 1) /\ accepted >= TableEnd(h + 1)
  <2> PICK place : place = starts[(h + 1) + 1]
    OBVIOUS
  <2> PICK len : len = records[(h + 1) + 1].len
    OBVIOUS
  <2> PICK n : n = Len(idxt)
    OBVIOUS
  <2>1. place \in Nat /\ len \in Nat /\ accepted \in Nat /\ place + len <= accepted
    BY <1>1, WholeRecord
  <2>2. IdxtEnd(h + 1) = place + (len - 4 - 2 * n - TablePadding(idxt)) + 4
    BY <1>1 DEF IdxtEnd, IdxtOffset
  <2>3. TableEnd(h + 1) = IdxtEnd(h + 1) + 2 * n
    BY <1>1 DEF TableEnd
  <2>4. TablePadding(idxt) \in Nat
    BY <1>1 DEF TablePadding
  <2>5. n \in Nat
    BY <1>1
  <2> QED BY ONLY <2>1, <2>2, <2>3, <2>4, <2>5
<1>5. h + 1 < Len(starts)
  BY ONLY <1>1
<1> QED BY <1>2, <1>3, <1>4, <1>5 DEF Has

(* What IndexFound and CutsOfBook say of a result. *)
FoundAs(p) ==
  LET k == header.IndxRecodOffset
  IN  /\ p \in {Nil(k), Panic(k)} <=> HeadersFit
      /\ HeadersFit /\ OffsetsFit => (p = Panic(k) <=> ContentsRewritten)

CutAs(p) ==
  LET r == p.index
      k == header.IndxRecodOffset
      indx2 == k + 1
  IN  /\ p.result = "nil" /\ r = 0 => accepted \in (MobiAt + 4)..(ExthAt - 1)
      /\ p.result \in {"nil", "panic"} /\ r # 0 =>
           /\ accepted >= IdxtEnd(r)
           /\ HeadersFit => r = k
           /\ HeadersFit /\ OffsetsFit =>
                (p.result = "panic" <=>
                   /\ indx2 < Len(starts) /\ accepted >= IdxtEnd(indx2)
                   /\ IF accepted < TableEnd(indx2) THEN Len(Table(indx2)) > 1 ELSE ContentsRewritten)
      /\ p.result = "panic" => r # 0
      /\ p.result = "crash" => accepted \in (ExthAt + 12)..(ExthAt + ExthLen - 1)

(* They are about the file alone. *)
LEMMA SameFile ==
  ASSUME UNCHANGED vars, FoundAs(parsed') \/ failed, CutAs(parsed') \/ ~failed
  PROVE  IndexFound' /\ CutsOfBook'
<1> PICK p : p = parsed'
  OBVIOUS
<1>1. UNCHANGED <<failed, header, accepted, starts, records, title, nameStart, textCount, exth, idxt>>
  BY DEF vars, callVars, outVars, fileVars
<1>2. /\ HeadersFit' = HeadersFit /\ MobiAt' = MobiAt /\ ExthAt' = ExthAt /\ ExthLen' = ExthLen
      /\ OffsetsFit' = OffsetsFit /\ ContentsRewritten' = ContentsRewritten
  BY <1>1 DEF HeadersFit, TextStart, MobiAt, ExthAt, Record0, RecordsNum, ExthLen,
              OffsetsFit, ContentsRewritten, Kind, Table, IdxtOffset
<1>3. IndexFound'
  BY <1>1, <1>2 DEF IndexFound, FoundAs
<1>4. CutsOfBook'
  BY <1>1, <1>2 DEF CutsOfBook, CutAs, IdxtEnd, TableEnd, IdxtOffset, Table, Kind
<1> QED BY <1>3, <1>4

(* Parse of the whole file, or of what was left of it. *)
LEMMA ParseStep ==
  ASSUME IndInv, Parse, Len(records) < Word
  PROVE  IndexFound' /\ CutsOfBook'
<1> PICK h : h = header.IndxRecodOffset
  OBVIOUS
<1> PICK p : p = parsed'
  OBVIOUS
<1>1. /\ Finished /\ (~failed \/ down) /\ UNCHANGED vars
      /\ p = IF PdfError \/ NoMobi THEN Error
             ELSE IF ~HeaderRead THEN Nil(0)
             ELSE IF NoExth THEN Error
             ELSE parseIndexRecord(h)
  <2>1. pc = "calls" /\ writes > 0 /\ (~failed \/ failure = "for good")
    BY DEF Parse
  <2>2. down <=> failed /\ failure = "for good"
    BY DEF IndInv, FileInv, OutInv
  <2> QED BY <2>1, <2>2 DEF Parse, Finished
<1>2. /\ \/ parseIndexRecord(h) = Error
         \/ \E r \in FoundAt(h) : parseIndexRecord(h) = Answer(r) /\ IndexWhole(r)
      /\ \A r \in FoundAt(h) : IndexWhole(r) => parseIndexRecord(h) = Answer(r)
  BY <1>1, IndexParsed
<1>3. ASSUME NEW r \in FoundAt(h)
      PROVE  /\ r \in 2..(Len(records) - 1) /\ r # 0
             /\ FoundAt(h) = {r} /\ (HeadersFit => r = h)
  <2>1. h \in 2..(Len(records) - 1) /\ Kind(h) = "indx1"
    BY <1>1, IndexNumbers
  <2>2. r \in 2..(Len(records) - 1) /\ FoundAt(h) = {r} /\ (HeadersFit => r = h)
    BY <1>1, <2>1, FoundOnce
  <2>3. r # 0
    BY ONLY <2>2
  <2> QED BY <2>2, <2>3
<1>4. ASSUME NEW r
      PROVE  /\ Nil(r).result = "nil" /\ Nil(r).index = r /\ Panic(r).result = "panic" /\ Panic(r).index = r
             /\ Nil(r) # Error /\ Panic(r) # Error /\ Panic(r) # Nil(r)
  <2>1. Nil(r).result = "nil" /\ Nil(r).index = r /\ Panic(r).result = "panic" /\ Panic(r).index = r
    BY DEF Nil, Panic
  <2>2. Error.result = "error"
    BY DEF Error
  <2> QED BY <2>1, <2>2
<1>5. ASSUME ~failed PROVE FoundAs(p)
  <2>1. Undisturbed
    BY <1>1, <1>5 DEF Undisturbed
  <2>2. p = parseIndexRecord(h)
    BY <1>1, <2>1, WholeHeaders
  <2>3. /\ (h \in FoundAt(h) <=> HeadersFit) /\ IndexWhole(h)
        /\ h + 1 < Len(starts) /\ accepted >= IdxtEnd(h + 1) /\ Has(TableEnd(h + 1))
    BY <2>1, FoundThere
  <2>4. HeadersFit => p = Answer(h)
    BY <1>2, <2>2, <2>3
  <2>5. Answer(h) \in {Nil(h), Panic(h)} /\ (Answer(h) = Panic(h) <=> PanicBehind(h))
    BY <1>4 DEF Answer
  <2>6. ASSUME p \in {Nil(h), Panic(h)} PROVE HeadersFit
    <3>1. PICK r \in FoundAt(h) : p = Answer(r)
      BY <1>2, <1>4, <2>2, <2>6
    <3>2. p.index = h /\ p.index = r
      BY <1>4, <2>6, <3>1 DEF Answer
    <3> QED BY <2>3, <3>1, <3>2
  <2>7. ASSUME HeadersFit, OffsetsFit PROVE PanicBehind(h) <=> ContentsRewritten
    BY <1>1, <2>3, <2>7, IndexPanics
  <2> QED BY <2>4, <2>5, <2>6, <2>7 DEF FoundAs
<1>6. ASSUME failed PROVE CutAs(p)
  <2>1. CASE p = Error
    <3>1. Error.result = "error"
      BY DEF Error
    <3> QED BY <2>1, <3>1 DEF CutAs
  <2>2. CASE p = Nil(0) /\ ~NoMobi /\ ~HeaderRead
    <3>1. p.index = 0 /\ p.result = "nil"
      BY <1>4, <2>2
    <3>2. accepted \in Nat /\ RecordsNum \in Nat
      BY WordAssumption, Types DEF IndInv, FileInv, Typed, RecordsNum
    <3>3. MobiAt \in Nat /\ ExthAt \in Nat
      BY <3>2 DEF MobiAt, ExthAt, Record0, PalmDBHeaderLen, PalmDocHeaderLen, MobiHeaderLen
    <3>4. accepted >= MobiAt + 4 /\ ~(accepted >= ExthAt)
      BY <2>2 DEF NoMobi, HeaderRead, Has
    <3>5. accepted \in (MobiAt + 4)..(ExthAt - 1)
      BY ONLY <3>2, <3>3, <3>4
    <3> QED BY <3>1, <3>5 DEF CutAs
  <2>3. ASSUME NEW r \in FoundAt(h), p = Answer(r), IndexWhole(r) PROVE CutAs(p)
    <3>1. /\ p.index = r /\ r # 0 /\ p.result \in {"nil", "panic"} /\ (HeadersFit => r = h)
          /\ p.result = "panic" <=> PanicBehind(h)
      BY <1>3, <1>4, <2>3 DEF Answer
    <3>2. accepted >= IdxtEnd(r)
      BY <2>3 DEF IndexWhole, Has
    <3>3. ASSUME HeadersFit, OffsetsFit
          PROVE  p.result = "panic" <=>
                   /\ h + 1 < Len(starts) /\ accepted >= IdxtEnd(h + 1)
                   /\ IF accepted < TableEnd(h + 1) THEN Len(Table(h + 1)) > 1 ELSE ContentsRewritten
      <4>1. PanicBehind(h) <=>
              /\ h + 1 < Len(starts) /\ accepted >= IdxtEnd(h + 1)
              /\ IF Has(TableEnd(h + 1)) THEN ContentsRewritten ELSE Len(Table(h + 1)) > 1
        BY <1>1, <2>3, <3>1, <3>3, IndexPanics
      <4>2. ASSUME h + 1 < Len(starts) PROVE Has(TableEnd(h + 1)) <=> ~(accepted < TableEnd(h + 1))
        <5>1. accepted \in Nat /\ starts \in Seq(Nat) /\ records \in Seq(RecordSet)
          BY Types DEF IndInv, FileInv, Typed
        <5>2. /\ Len(records) \in Nat /\ h \in 2..(Len(records) - 1) /\ h + 1 \in 2..(Len(records) - 1)
              /\ Kind(h + 1) = "indx2" /\ Table(h + 1) = idxt /\ idxt \in Seq(Nat) /\ Len(idxt) \in Nat
          BY <1>1, IndexNumbers
        <5>3. (h + 1) + 1 \in 1..Len(starts) /\ (h + 1) + 1 \in 1..Len(records)
          <6>1. Len(starts) \in Nat
            BY <5>1
          <6> QED BY ONLY <4>2, <5>2, <6>1
        <5>4. starts[(h + 1) + 1] \in Nat
          BY <5>1, <5>3
        <5>5. records[(h + 1) + 1].len \in Nat
          <6>1. (h + 1) + 1 \in DOMAIN records
            BY <5>1, <5>3
          <6>2. records[(h + 1) + 1] \in RecordSet
            BY <5>1, <6>1, ElementOf
          <6> QED BY <6>2 DEF RecordSet
        <5>6. TablePadding(idxt) \in Nat
          BY <5>2 DEF TablePadding
        <5>7. TableEnd(h + 1) = starts[(h + 1) + 1]
                + (records[(h + 1) + 1].len - 4 - 2 * Len(idxt) - TablePadding(idxt)) + 4 + 2 * Len(idxt)
          BY <5>2 DEF TableEnd, IdxtEnd, IdxtOffset
        <5>8. TableEnd(h + 1) \in Int
          <6> PICK n : n = Len(idxt)
            OBVIOUS
          <6> PICK place : place = starts[(h + 1) + 1]
            OBVIOUS
          <6> PICK len : len = records[(h + 1) + 1].len
            OBVIOUS
          <6> PICK zeros : zeros = TablePadding(idxt)
            OBVIOUS
          <6>1. n \in Nat /\ place \in Nat /\ len \in Nat /\ zeros \in Nat
            BY <5>2, <5>4, <5>5, <5>6
          <6>2. place + (len - 4 - 2 * n - zeros) + 4 + 2 * n \in Int
            BY ONLY <6>1
          <6> QED BY <5>7, <6>2
        <5>9. accepted >= TableEnd(h + 1) <=> ~(accepted < TableEnd(h + 1))
          BY ONLY <5>1, <5>8
        <5> QED BY <5>9 DEF Has
      <4> QED BY <3>1, <4>1, <4>2
    <3> QED BY <3>1, <3>2, <3>3 DEF CutAs
  <2>4. p = Error \/ (p = Nil(0) /\ ~NoMobi /\ ~HeaderRead) \/ p = parseIndexRecord(h)
    BY <1>1
  <2> QED BY <1>2, <2>1, <2>2, <2>3, <2>4
<1> QED BY <1>1, <1>5, <1>6, SameFile

(* Parse crashes only when the cut is inside the EXTH records. *)
LEMMA CrashStep ==
  ASSUME IndInv, ParseCrashes
  PROVE  IndexFound' /\ CutsOfBook'
<1> PICK e : e = ExthAt
  OBVIOUS
<1> PICK len : len = ExthLen
  OBVIOUS
<1>1. /\ failed /\ parsed' = Crash /\ accepted >= e + 12 /\ exth # <<>>
      /\ ~(accepted >= e + len - Last(exth).RecordLength + 4 + 4) /\ UNCHANGED vars
  BY DEF ParseCrashes, LengthUnderflows, LastLengthAt, Has
<1>2. accepted \in Nat /\ e \in Nat /\ len \in Nat
  <2>1. RecordsNum \in Nat
    BY WordAssumption, Types DEF IndInv, FileInv, Typed, RecordsNum
  <2>2. e \in Nat
    BY <2>1 DEF ExthAt, MobiAt, Record0, PalmDBHeaderLen, PalmDocHeaderLen, MobiHeaderLen
  <2>3. len \in Nat
    BY ExthShape DEF IndInv, FileInv
  <2> QED BY <2>2, <2>3, Types DEF IndInv, FileInv, Typed
<1>3. Last(exth).RecordLength >= 8 /\ Last(exth).RecordLength \in Nat
  <2>1. exth \in Seq(ExthSet)
    BY Types DEF IndInv, FileInv, Typed
  <2>2. Len(exth) \in DOMAIN exth
    BY <1>1, <2>1
  <2>3. exth[Len(exth)] \in ExthSet /\ exth[Len(exth)].RecordLength >= 8
    BY <2>1, <2>2 DEF IndInv, FileInv, ImagesInv
  <2> QED BY <2>3 DEF Last, ExthSet
<1>4. accepted \in (e + 12)..(e + len - 1)
  BY <1>1, <1>2, <1>3
<1>5. Crash.result = "crash"
  BY DEF Crash
<1>6. CutAs(Crash)
  BY <1>4, <1>5 DEF CutAs
<1> QED BY <1>1, <1>6, SameFile

(* Parse says of the file what is true, or nothing is parsed yet. *)
ReaderInv ==
  /\ ReaderTypeOK
  /\ Len(records) < Word => IndexFound /\ CutsOfBook

(* Every step of the reader keeps what it has said true. *)
LEMMA ReaderStep ==
  ASSUME IndInv, ReaderInv, [ReaderNext]_<<vars, parsed>>
  PROVE  ReaderInv'
<1>1. CASE UNCHANGED <<vars, parsed>>
  <2>1. UNCHANGED <<failed, header, accepted, starts, records, title, nameStart, textCount, exth, idxt, parsed>>
    BY <1>1 DEF vars, callVars, outVars, fileVars
  <2>2. (IndexFound <=> (Parsed /\ ~failed => FoundAs(parsed))) /\ (CutsOfBook <=> (Parsed /\ failed => CutAs(parsed)))
    <3>1. IndexFound <=> (Parsed /\ ~failed => FoundAs(parsed))
      BY DEF IndexFound, FoundAs
    <3>2. CutsOfBook <=> (Parsed /\ failed => CutAs(parsed))
      BY DEF CutsOfBook, CutAs
    <3> QED BY <3>1, <3>2
  <2>3. ASSUME Len(records) < Word PROVE IndexFound' /\ CutsOfBook'
    <3>1. CASE ~Parsed
      BY <2>1, <3>1 DEF IndexFound, CutsOfBook, Parsed
    <3>2. CASE Parsed
      <4>1. (FoundAs(parsed) \/ failed) /\ (CutAs(parsed) \/ ~failed)
        BY <2>2, <2>3, <3>2 DEF ReaderInv
      <4>2. UNCHANGED vars /\ parsed' = parsed
        BY <1>1
      <4>3. (FoundAs(parsed') \/ failed) /\ (CutAs(parsed') \/ ~failed)
        BY <4>1, <4>2
      <4> QED BY <4>2, <4>3, SameFile
    <3> QED BY <3>1, <3>2
  <2> QED BY <2>1, <2>3 DEF ReaderInv, ReaderTypeOK
<1>2. CASE parsed = NotParsed /\ parsed' = NotParsed
  <2>1. ~Parsed'
    BY <1>2 DEF Parsed, NotParsed
  <2> QED BY <1>2, <2>1 DEF ReaderInv, ReaderTypeOK, IndexFound, CutsOfBook
<1>3. CASE UNCHANGED vars /\ (Parse \/ ParseCrashes)
  <2>1. records' = records
    BY <1>3 DEF vars
  <2>2. Len(records) < Word => IndexFound' /\ CutsOfBook'
    BY <1>3, ParseStep, CrashStep
  <2>3. parsed' \in {Error, Crash} \cup {Nil(k) : k \in 0..(Len(records) - 1)}
                      \cup {Panic(k) : k \in 0..(Len(records) - 1)}
    <3>1. CASE ParseCrashes
      BY <3>1 DEF ParseCrashes
    <3>2. CASE Parse
      <4>1. Len(records) >= 2 /\ Len(records) \in Nat /\ Len(starts) \in 1..Len(records)
        <5>1. RecordsInv /\ PlacesInv /\ Typed /\ pc = "calls" /\ writes > 0 /\ writes \in Nat
          <6>1. RecordsInv /\ PlacesInv /\ Typed
            BY Types DEF IndInv, FileInv
          <6>2. pc = "calls" /\ writes > 0
            BY <3>2 DEF Parse
          <6>3. writes \in Nat
            BY <6>1, BoundsAssumption DEF Typed
          <6> QED BY <6>1, <6>2, <6>3
        <5>2. Len(records) >= 2 /\ Len(starts) \in 1..Len(records)
          BY <5>1 DEF RecordsInv, PlacesInv, Finished
        <5>3. records \in Seq(RecordSet)
          BY <5>1 DEF Typed
        <5> QED BY <5>2, <5>3
      <4>2. \A k : FoundAt(k) \subseteq 0..(Len(records) - 1)
        BY <4>1 DEF FoundAt
      <4>3. ASSUME NEW k
            PROVE  parseIndexRecord(k) \in {Error} \cup {Nil(r) : r \in 0..(Len(records) - 1)}
                                              \cup {Panic(r) : r \in 0..(Len(records) - 1)}
        <5> PICK found : found = CHOOSE r \in FoundAt(k) : TRUE
          OBVIOUS
        <5>1. parseIndexRecord(k) \in {Error, Nil(found), Panic(found)}
          BY DEF parseIndexRecord
        <5>2. CASE FoundAt(k) = {}
          BY <5>2 DEF parseIndexRecord
        <5>3. CASE FoundAt(k) # {}
          <6>1. found \in 0..(Len(records) - 1)
            BY <4>2, <5>3
          <6> QED BY <5>1, <6>1
        <5> QED BY <5>2, <5>3
      <4>4. 0 \in 0..(Len(records) - 1)
        BY <4>1
      <4> QED BY <3>2, <4>3, <4>4 DEF Parse
    <3> QED BY <1>3, <3>1, <3>2
  <2> QED BY <2>1, <2>2, <2>3 DEF ReaderInv, ReaderTypeOK
<1>4. CASE ReaderNext
  BY <1>1, <1>2, <1>3, <1>4, ReaderVars
<1> QED BY <1>1, <1>4

(* What a reader has said of the file is true in every state. *)
LEMMA ReaderInductive == ReaderSpec => []ReaderInv
<1>1. ReaderInit => ReaderInv
  <2> SUFFICES ASSUME ReaderInit PROVE ReaderInv
    OBVIOUS
  <2>1. parsed = NotParsed /\ ~Parsed
    BY DEF ReaderInit, Parsed, NotParsed
  <2> QED BY <2>1 DEF ReaderInv, ReaderTypeOK, IndexFound, CutsOfBook
<1>2. IndInv /\ ReaderInv /\ [ReaderNext]_<<vars, parsed>> => ReaderInv'
  BY ReaderStep
<1> QED BY <1>1, <1>2, ReaderInvariance, PTL DEF ReaderSpec

(* Parse returns nil, an error or not at all, or it panics; the record it  *)
(* names is one of the file, and of the file it changes nothing.           *)
THEOREM ReaderCorrect == ReaderSpec => []ReaderIndInv
<1>1. IndInv /\ ReaderInv => ReaderIndInv
  BY DEF ReaderInv, ReaderIndInv
<1> QED BY <1>1, ReaderInvariance, ReaderInductive, PTL

(* A reader gets to the index of an undisturbed file exactly as long as the *)
(* headers fit, and it panics there exactly when a builder that had nothing *)
(* but its contents was written again, as long as no offset in an index    *)
(* has wrapped; the number of records is a uint16 (pdf.go:17).             *)
THEOREM IndexIsFound == ReaderSpec => [](Len(records) < Word => IndexFound)
<1>1. ReaderInv => (Len(records) < Word => IndexFound)
  BY DEF ReaderInv
<1> QED BY <1>1, ReaderInductive, PTL

(* Of a file that was cut off anywhere a reader says so but for the cuts   *)
(* that CutsOfBook names, the panic of INDX2's table among them            *)
(* (reader.go:365, 380); the number of records is a uint16.                *)
THEOREM CutsAreNoticed == ReaderSpec => [](Len(records) < Word => CutsOfBook)
<1>1. ReaderInv => (Len(records) < Word => CutsOfBook)
  BY DEF ReaderInv
<1> QED BY <1>1, ReaderInductive, PTL
=============================================================================
