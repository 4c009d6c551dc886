-------------------------- MODULE ExthRecordsProofs -------------------------
(***************************************************************************)
(* What ExthParse finds in the bytes that initExth wrote, for any calls of *)
(* NewExthRecord and any number of records.                                *)
(***************************************************************************)
EXTENDS ExthRecords, BytesProofs

-----------------------------------------------------------------------------
(* The bytes of the records.                                               *)

(* Sequences of the lengths r, one after another. *)
LEMMA BeforeIsSum ==
  ASSUME NEW X, NEW ss \in Seq(Seq(X)), NEW r \in Seq(Nat), Len(r) = Len(ss),
         \A k \in 1..Len(ss) : Len(ss[k]) = r[k]
  PROVE  \A k \in 0..Len(ss) : Before(ss, k) = SumOfFirst(r)[k]
<1> DEFINE n == Len(ss)
           I == {k \in Nat : k <= n => Before(ss, k) = SumOfFirst(r)[k]}
<1>1. n \in Nat /\ n = Len(r) /\ \A k \in 1..n : Len(ss[k]) = r[k] /\ r[k] \in Nat
  OBVIOUS
<1> HIDE DEF n
<1>2. /\ Before(ss, 0) = 0
      /\ \A k \in 1..n : Before(ss, k) = Before(ss, k - 1) + Len(ss[k])
  BY FlattenPlaces DEF Placed, n
<1>3. /\ SumOfFirst(r)[0] = 0
      /\ \A k \in 1..n : SumOfFirst(r)[k] = SumOfFirst(r)[k - 1] + r[k]
  BY <1>1, SumSteps
<1>4. 0 \in I
  BY <1>2, <1>3
<1>5. ASSUME NEW k \in Nat, k \in I PROVE k + 1 \in I
  <2>1. SUFFICES ASSUME k + 1 <= n PROVE Before(ss, k + 1) = SumOfFirst(r)[k + 1]
    OBVIOUS
  <2>2. k + 1 \in 1..n /\ (k + 1) - 1 = k /\ k <= n
    BY <1>1, <2>1
  <2>3. /\ Before(ss, k + 1) = Before(ss, k) + Len(ss[k + 1]) /\ Len(ss[k + 1]) = r[k + 1]
        /\ SumOfFirst(r)[k + 1] = SumOfFirst(r)[k] + r[k + 1]
    BY <1>1, <1>2, <1>3, <2>2
  <2>4. Before(ss, k) = SumOfFirst(r)[k]
    BY <1>5, <2>2
  <2> QED BY <2>3, <2>4
<1>6. \A k \in Nat : k \in I
  <2> HIDE DEF I
  <2> QED BY <1>4, <1>5, Induction
<1>7. \A k \in 0..n : Before(ss, k) = SumOfFirst(r)[k]
  BY <1>1, <1>6
<1> QED BY <1>7 DEF n

(* The value of a record is of the length it announces. *)
LEMMA ValueFits ==
  ASSUME ExthTypeOK, LengthsTrue, NEW k \in DOMAIN Records
  PROVE  /\ Records[k] \in ExthRecord
         /\ ValueOf(Records[k]) \in Seq(Byte) /\ Records[k].RecordLength = 8 + Len(ValueOf(Records[k]))
<1> DEFINE r == Records[k]
<1>1. r \in ExthRecord
  BY ElementOf DEF ExthTypeOK
<1>2. r.RecordLength = 8 + Len(r.Value) /\ (r.slice # NoSlice => r.Value \in Contents)
  BY DEF LengthsTrue
<1> HIDE DEF r
<1>3. r.Value \in Seq(Byte) /\ r.slice \in Slices \cup {NoSlice}
  BY <1>1 DEF ExthRecord
<1>4. CASE r.slice = NoSlice
  BY <1>1, <1>2, <1>3, <1>4 DEF ValueOf, r
<1>5. CASE r.slice # NoSlice
  <2>1. mem[r.slice] \in Contents
    BY <1>3, <1>5 DEF ExthTypeOK
  <2>2. Len(mem[r.slice]) = Len(r.Value) /\ mem[r.slice] \in Seq(Byte)
    BY <1>2, <1>5, <2>1, ContentsAssumption
  <2> QED BY <1>1, <1>2, <1>5, <2>2 DEF ValueOf, r
<1> QED BY <1>4, <1>5

(* Type, length and value, one after another. *)
LEMMA RecordShape ==
  ASSUME NEW r \in ExthRecord, ValueOf(r) \in Seq(Byte), r.RecordLength = 8 + Len(ValueOf(r))
  PROVE  /\ RecordBytes(r) \in Seq(Byte) /\ Len(RecordBytes(r)) = r.RecordLength
         /\ \A j \in 1..4 : RecordBytes(r)[j] = BE32(r.RecordType)[j]
         /\ \A j \in 1..4 : RecordBytes(r)[4 + j] = BE32(r.RecordLength)[j]
         /\ \A j \in 1..Len(ValueOf(r)) : RecordBytes(r)[8 + j] = ValueOf(r)[j]
<1> DEFINE a == BE32(r.RecordType)
           b == BE32(r.RecordLength)
           v == ValueOf(r)
           ab == a \o b
           abv == ab \o v
<1>1. r.RecordType \in Nat /\ r.RecordLength \in Nat
  BY Uint32Assumption DEF ExthRecord
<1>2. a \in Seq(Byte) /\ Len(a) = 4 /\ b \in Seq(Byte) /\ Len(b) = 4
  BY <1>1, NumberBytes
<1>3. v \in Seq(Byte) /\ r.RecordLength = 8 + Len(v) /\ Len(v) \in Nat
  OBVIOUS
<1>4. RecordBytes(r) = abv
  BY DEF RecordBytes
<1> HIDE DEF a, b, v, ab, abv
<1>5. /\ ab \in Seq(Byte) /\ Len(ab) = Len(a) + Len(b)
      /\ \A i \in 1..Len(a) : ab[i] = a[i]
      /\ \A j \in 1..Len(b) : ab[Len(a) + j] = b[j]
  <2>1. a \in Seq(Byte) /\ b \in Seq(Byte)
    BY <1>2
  <2> QED BY ONLY <2>1, ConcatElements DEF ab
<1>6. /\ abv \in Seq(Byte) /\ Len(abv) = Len(ab) + Len(v)
      /\ \A i \in 1..Len(ab) : abv[i] = ab[i]
      /\ \A j \in 1..Len(v) : abv[Len(ab) + j] = v[j]
  <2>1. ab \in Seq(Byte) /\ v \in Seq(Byte)
    BY <1>3, <1>5
  <2> QED BY ONLY <2>1, ConcatElements DEF abv
<1>7. \A j \in 1..4 : abv[j] = a[j] /\ abv[4 + j] = b[j]
  BY <1>2, <1>5, <1>6, SMTT(30)
<1>8. Len(abv) = r.RecordLength /\ \A j \in 1..Len(v) : abv[8 + j] = v[j]
  BY <1>2, <1>3, <1>5, <1>6
<1> QED BY <1>4, <1>6, <1>7, <1>8 DEF a, b, v

(* Where each record starts in the header. *)
RecordLengths(recs) == [k \in DOMAIN recs |-> recs[k].RecordLength]
StartOf(k) == 12 + SumOfFirst(RecordLengths(Records))[k - 1]

(* The header of the file: magic, length, count, records, padding. *)
Laid(f) ==
  /\ f \in Seq(Byte) /\ Len(f) = HeaderBytes(Records) + Padding(Records)
  /\ HeaderBytes(Records) = 12 + Total(RecordLengths(Records)) /\ Padding(Records) \in 0..3
  /\ Len(f) \in Nat /\ 12 <= Len(f)
  /\ SubSeq(f, 1, 4) = Magic
  /\ \A j \in 1..4 : f[4 + j] = BE32(HeaderBytes(Records) + Padding(Records))[j]
  /\ \A j \in 1..4 : f[8 + j] = BE32(Len(Records))[j]
  /\ \A k \in DOMAIN Records :
       /\ StartOf(k) \in Nat /\ StartOf(k) + Records[k].RecordLength <= Len(f)
       /\ \A j \in 1..Records[k].RecordLength : f[StartOf(k) + j] = RecordBytes(Records[k])[j]
LEMMA LaidOut ==
  ASSUME ExthTypeOK, LengthsTrue
  PROVE  Laid(initExth(Records))
<1> DEFINE n == Len(Records)
           B == [k \in DOMAIN Records |-> RecordBytes(Records[k])]
           L == RecordLengths(Records)
           C == FlattenSeq(B)
           H == HeaderBytes(Records)
           P == Padding(Records)
           Z == Zeros(P)
           h1 == BE32(H + P)
           h2 == BE32(CountRecords(Records))
           f1 == Magic \o h1
           f2 == f1 \o h2
           f3 == f2 \o C
           f == f3 \o Z
<1>1. n \in Nat /\ DOMAIN Records = 1..n
  BY DEF ExthTypeOK
<1>2. ASSUME NEW k \in 1..n
      PROVE  RecordBytes(Records[k]) \in Seq(Byte) /\ Len(RecordBytes(Records[k])) = Records[k].RecordLength
             /\ Records[k].RecordLength \in Nat
  <2>1. /\ Records[k] \in ExthRecord /\ ValueOf(Records[k]) \in Seq(Byte)
        /\ Records[k].RecordLength = 8 + Len(ValueOf(Records[k]))
    BY <1>1, ValueFits
  <2>2. Records[k].RecordLength \in Nat
    BY <2>1 DEF ExthRecord
  <2> QED BY <2>1, <2>2, RecordShape
<1>3. /\ B \in Seq(Seq(Byte)) /\ Len(B) = n /\ L \in Seq(Nat) /\ Len(L) = n
      /\ \A k \in 1..n : B[k] = RecordBytes(Records[k]) /\ Len(B[k]) = L[k]
                          /\ L[k] = Records[k].RecordLength
  <2>1. B = [k \in 1..n |-> RecordBytes(Records[k])] /\ L = [k \in 1..n |-> Records[k].RecordLength]
    BY <1>1 DEF RecordLengths
  <2> HIDE DEF B, L, n
  <2> QED BY <1>1, <1>2, <2>1
<1> HIDE DEF B, L, n
<1>4. Placed(Byte, B, C)
  BY <1>3, FlattenPlaces
<1>5. \A k \in 0..n : Before(B, k) = SumOfFirst(L)[k]
  BY <1>3, BeforeIsSum
<1>6. /\ H = 12 + Total(L) /\ Total(L) \in Nat /\ Total(L) = SumOfFirst(L)[n]
      /\ C \in Seq(Byte) /\ Len(C) = Total(L)
  <2>1. H = 12 + Total(L)
    BY DEF HeaderBytes, L, RecordLengths
  <2>2. Total(L) = SumOfFirst(L)[n] /\ SumOfFirst(L)[n] \in Nat
    BY <1>1, <1>3, SumSteps, SMTT(30) DEF Total
  <2>3. C \in Seq(Byte) /\ Len(C) = Before(B, n)
    BY <1>3, <1>4 DEF Placed
  <2> QED BY <1>1, <1>5, <2>1, <2>2, <2>3
<1> HIDE DEF C
<1>7. P \in 0..3 /\ H + P \in Nat /\ H \in Nat
  <2>1. H \in Nat
    BY <1>6
  <2>2. P = H % 4
    BY DEF Padding
  <2> HIDE DEF H, P
  <2> QED BY <2>1, <2>2
<1>8. Z \in Seq(Byte) /\ Len(Z) = P
  <2>1. ASSUME NEW i \in Nat PROVE Zeros(i) \in Seq(Byte) /\ Len(Zeros(i)) = i
    BY DEF Zeros, Byte
  <2>2. P \in Nat
    BY <1>7
  <2> HIDE DEF P
  <2> QED BY <2>1, <2>2
<1>9. Magic \in Seq(Byte) /\ Len(Magic) = 4
  BY DEF Magic, Byte
<1>10. h1 \in Seq(Byte) /\ Len(h1) = 4 /\ h2 \in Seq(Byte) /\ Len(h2) = 4 /\ h2 = BE32(n)
  <2>1. CountRecords(Records) = n
    BY DEF CountRecords, n
  <2> QED BY <1>1, <1>7, <2>1, NumberBytes
<1>11. initExth(Records) = f
  BY DEF initExth, B, C
<1> HIDE DEF H, P, Z, h1, h2, f1, f2, f3, f
<1>12. /\ f1 \in Seq(Byte) /\ Len(f1) = Len(Magic) + Len(h1)
       /\ \A i \in 1..Len(Magic) : f1[i] = Magic[i]
       /\ \A j \in 1..Len(h1) : f1[Len(Magic) + j] = h1[j]
  <2>1. Magic \in Seq(Byte) /\ h1 \in Seq(Byte)
    BY <1>9, <1>10
  <2> QED BY ONLY <2>1, ConcatElements DEF f1
<1>13. /\ f2 \in Seq(Byte) /\ Len(f2) = Len(f1) + Len(h2)
       /\ \A i \in 1..Len(f1) : f2[i] = f1[i]
       /\ \A j \in 1..Len(h2) : f2[Len(f1) + j] = h2[j]
  <2>1. f1 \in Seq(Byte) /\ h2 \in Seq(Byte)
    BY <1>10, <1>12
  <2> QED BY ONLY <2>1, ConcatElements DEF f2
<1>14. /\ f3 \in Seq(Byte) /\ Len(f3) = Len(f2) + Len(C)
       /\ \A i \in 1..Len(f2) : f3[i] = f2[i]
       /\ \A j \in 1..Len(C) : f3[Len(f2) + j] = C[j]
  <2>1. f2 \in Seq(Byte) /\ C \in Seq(Byte)
    BY <1>6, <1>13
  <2> QED BY ONLY <2>1, ConcatElements DEF f3
<1>15. /\ f \in Seq(Byte) /\ Len(f) = Len(f3) + Len(Z)
       /\ \A i \in 1..Len(f3) : f[i] = f3[i]
  <2>1. f3 \in Seq(Byte) /\ Z \in Seq(Byte)
    BY <1>8, <1>14
  <2> QED BY ONLY <2>1, ConcatElements DEF f
<1>16. Len(f1) = 8 /\ Len(f2) = 12 /\ Len(f3) = H /\ Len(f) = H + P /\ 12 <= H
  <2>1. Len(f1) = 8
    BY <1>9, <1>10, <1>12
  <2>2. Len(f2) = 12
    <3>1. Len(h2) = 4
      BY <1>10
    <3>2. Len(f2) = Len(f1) + Len(h2)
      BY <1>13
    <3> QED BY <2>1, <3>1, <3>2
  <2>3. Len(f3) = 12 + Len(C) /\ H = 12 + Len(C) /\ Len(C) \in Nat
    BY <1>6, <1>14, <2>2
  <2>4. Len(f) = H + P
    BY <1>8, <1>15, <2>3
  <2> QED BY <2>1, <2>2, <2>3, <2>4
<1>17. \A i \in 1..12 : f[i] = f2[i]
  <2>1. \A i \in 1..12 : i \in 1..Len(f2) /\ i \in 1..Len(f3)
    BY <1>7, <1>16
  <2> QED BY <1>14, <1>15, <2>1
<1>18. \A j \in 1..4 : f[j] = Magic[j] /\ f[4 + j] = h1[j] /\ f[8 + j] = h2[j]
  <2> TAKE j \in 1..4
  <2>1. j \in 1..12 /\ 4 + j \in 1..12 /\ 8 + j \in 1..12 /\ j \in 1..Len(f1) /\ 4 + j \in 1..Len(f1)
        /\ j \in 1..Len(Magic) /\ j \in 1..Len(h1) /\ j \in 1..Len(h2)
    BY <1>9, <1>10, <1>16
  <2>2. f2[8 + j] = h2[j]
    BY <1>13, <1>16, <2>1
  <2>3. f2[j] = f1[j] /\ f2[4 + j] = f1[4 + j]
    BY <1>13, <2>1
  <2>4. f1[j] = Magic[j] /\ f1[4 + j] = h1[j]
    BY <1>9, <1>12, <2>1
  <2> QED BY <1>17, <2>1, <2>2, <2>3, <2>4
<1>19. SubSeq(f, 1, 4) = Magic
  <2>1. SubSeq(f, 1, 4) = [i \in 1..4 |-> f[i]]
    BY <1>7, <1>15, <1>16
  <2>2. Magic = [i \in 1..4 |-> Magic[i]]
    BY <1>9
  <2> QED BY <1>18, <2>1, <2>2
<1>20. ASSUME NEW k \in 1..n
       PROVE  /\ StartOf(k) \in Nat /\ StartOf(k) + Records[k].RecordLength <= Len(f)
              /\ \A j \in 1..Records[k].RecordLength : f[StartOf(k) + j] = RecordBytes(Records[k])[j]
  <2> DEFINE b == Before(B, k - 1)
  <2>1. k - 1 \in 0..n /\ n \in 0..n /\ k \in 0..n /\ k <= n
    BY <1>1
  <2>2. b \in Nat /\ b = SumOfFirst(L)[k - 1] /\ Before(B, k) = b + Len(B[k])
        /\ Before(B, k) <= Before(B, n) /\ Len(C) = Before(B, n)
        /\ Before(B, k) \in Nat /\ Before(B, n) \in Nat
    BY <1>3, <1>4, <1>5, <2>1 DEF Placed
  <2>3. StartOf(k) = 12 + b
    BY <2>2 DEF StartOf, L
  <2>4. \A j \in 1..Len(B[k]) : b + j \in 1..Len(C) /\ C[b + j] = B[k][j]
    BY <1>3, <1>4 DEF Placed
  <2>5. B[k] = RecordBytes(Records[k]) /\ Len(B[k]) = Records[k].RecordLength
        /\ Records[k].RecordLength \in Nat
    BY <1>2, <1>3
  <2> HIDE DEF b
  <2>6. StartOf(k) + Records[k].RecordLength <= Len(f)
    <3>1. H = 12 + Before(B, n) /\ Before(B, n) \in Nat
      BY <1>6, <2>2
    <3>2. b + Records[k].RecordLength <= Before(B, n)
      BY <2>2, <2>5
    <3>3. Len(f) = H + P /\ P >= 0 /\ H \in Nat /\ P \in Int
      BY <1>7, <1>16
    <3>4. StartOf(k) + Records[k].RecordLength = 12 + (b + Records[k].RecordLength)
      <4>1. b \in Nat /\ StartOf(k) = 12 + b /\ Records[k].RecordLength \in Nat
        BY <2>2, <2>3, <2>5
      <4> QED BY ONLY <4>1
    <3>5. b + Records[k].RecordLength \in Nat
      BY <2>2, <2>5
    <3> QED BY ONLY <3>1, <3>2, <3>3, <3>4, <3>5
  <2>7. ASSUME NEW j \in 1..Len(B[k]) PROVE f[StartOf(k) + j] = B[k][j]
    <3>1. b + j \in 1..Len(C) /\ C[b + j] = B[k][j] /\ j \in Nat
      BY <2>4, <2>5
    <3>2. f3[12 + (b + j)] = C[b + j]
      BY <1>14, <1>16, <3>1
    <3>3. 12 + (b + j) \in 1..Len(f3) /\ 12 + (b + j) = StartOf(k) + j
      <4>1. Len(f3) = 12 + Len(C) /\ Len(C) \in Nat
        BY <1>6, <1>16
      <4>2. b \in Nat /\ StartOf(k) = 12 + b /\ j \in Nat /\ b + j \in 1..Len(C)
        BY <2>2, <2>3, <3>1
      <4> QED BY ONLY <4>1, <4>2
    <3> QED BY <1>15, <3>1, <3>2, <3>3
  <2> QED BY <2>2, <2>3, <2>5, <2>6, <2>7
<1> QED
  <2>1. /\ f \in Seq(Byte) /\ Len(f) = H + P /\ Len(f) \in Nat /\ 12 <= Len(f)
        /\ H = 12 + Total(L) /\ P \in 0..3
    BY <1>6, <1>7, <1>15, <1>16, SMTT(30)
  <2> QED BY <1>1, <1>10, <1>11, <1>18, <1>19, <1>20, <2>1 DEF Laid, H, P, L, n, h1
-----------------------------------------------------------------------------
(* The reader.                                                             *)

(* Records that are not empty take at least a byte each. *)
LEMMA SumAtLeast ==
  ASSUME NEW s \in Seq(Nat), \A k \in 1..Len(s) : s[k] >= 1
  PROVE  Len(s) <= Total(s)
<1> DEFINE n == Len(s)
           I == {k \in Nat : k <= n => k <= SumOfFirst(s)[k]}
<1>1. n \in Nat
  OBVIOUS
<1>2. /\ SumOfFirst(s)[0] = 0 /\ \A k \in 0..n : SumOfFirst(s)[k] \in Nat
      /\ \A k \in 1..n : SumOfFirst(s)[k] = SumOfFirst(s)[k - 1] + s[k] /\ s[k] \in Nat /\ s[k] >= 1
  BY SumSteps
<1> HIDE DEF n
<1>3. 0 \in I
  BY <1>2
<1>4. ASSUME NEW k \in Nat, k \in I PROVE k + 1 \in I
  <2>1. SUFFICES ASSUME k + 1 <= n PROVE k + 1 <= SumOfFirst(s)[k + 1]
    OBVIOUS
  <2>2. k + 1 \in 1..n /\ (k + 1) - 1 = k /\ k \in 0..n /\ k <= n
    BY <1>1, <2>1
  <2> QED BY <1>2, <1>4, <2>2, SMTT(30)
<1>5. n \in I
  <2> HIDE DEF I
  <2> QED BY <1>1, <1>3, <1>4, Induction
<1> QED BY <1>1, <1>5 DEF Total, n

(* The reader's places are those that every record hands to the next. *)
LEMMA PlacesAre ==
  ASSUME NEW f, NEW n \in Nat, NEW start \in [1..n -> Nat],
         \A k \in 1..n : start[k] = IF k = 1 THEN 12 ELSE start[k - 1] + Field(f, start[k - 1] + 4)
  PROVE  Places(f, n) = start
<1> DEFINE next(p) == [i \in 1..n |-> IF i = 1 THEN 12 ELSE p[i - 1] + Field(f, p[i - 1] + 4)]
           place == CHOOSE p : p = next(p)
           I == {k \in Nat : k \in 1..n => place[k] = start[k]}
<1>1. Places(f, n) = place
  BY DEF Places
<1>2. start = next(start)
  <2> DEFINE t == next(start)
  <2>1. \A k \in 1..n : t[k] = start[k]
    OBVIOUS
  <2>2. t = [k \in 1..n |-> t[k]] /\ start = [k \in 1..n |-> start[k]]
    OBVIOUS
  <2> HIDE DEF t
  <2>3. start = t
    BY <2>1, <2>2
  <2> QED BY <2>3 DEF t
<1>3. place = next(place)
  <2> HIDE DEF next
  <2> QED BY <1>2
<1> HIDE DEF place
<1>4. 0 \in I
  OBVIOUS
<1>5. ASSUME NEW k \in Nat, k \in I PROVE k + 1 \in I
  <2>1. SUFFICES ASSUME k + 1 \in 1..n PROVE place[k + 1] = start[k + 1]
    OBVIOUS
  <2>2. (k + 1) - 1 = k
    OBVIOUS
  <2>3. place[k + 1] = IF k + 1 = 1 THEN 12 ELSE place[k] + Field(f, place[k] + 4)
    <3>1. place[k + 1] = next(place)[k + 1]
      <4> HIDE DEF next
      <4> QED BY <1>3
    <3> QED BY <2>1, <2>2, <3>1
  <2>4. start[k + 1] = IF k + 1 = 1 THEN 12 ELSE start[k] + Field(f, start[k] + 4)
    BY <2>1, <2>2
  <2>5. CASE k = 0
    BY <2>3, <2>4, <2>5
  <2>6. CASE k # 0
    <3>1. k \in 1..n
      BY <2>1, <2>6
    <3>2. place[k] = start[k]
      BY <1>5, <3>1
    <3> QED BY <2>3, <2>4, <2>6, <3>2
  <2> QED BY <2>5, <2>6
<1>6. \A k \in 1..n : place[k] = start[k]
  <2>1. \A k \in Nat : k \in I
    <3> HIDE DEF I
    <3> QED BY <1>4, <1>5, Induction
  <2> QED BY <2>1
<1>7. place = [k \in 1..n |-> place[k]]
  <2>1. place = next(place) /\ next(place) = [k \in 1..n |-> next(place)[k]]
    BY <1>3
  <2> QED BY <2>1
<1> QED BY <1>1, <1>6, <1>7

(* ExthParse finds what Laid says is there. *)
Found(p, f) ==
  /\ p.HeaderLenght = Len(f) /\ p.RecordCount = Len(Records)
  /\ \A k \in DOMAIN Records :
       p.Records[k] = [RecordType |-> Records[k].RecordType,
                       RecordLength |-> 8 + Len(ValueOf(Records[k])),
                       Value |-> ValueOf(Records[k])]

LEMMA RecordFound ==
  ASSUME ExthTypeOK, LengthsTrue, NEW f, Laid(f), Len(f) < Uint32, NEW k \in DOMAIN Records
  PROVE  /\ Field(f, StartOf(k) + 4) = Records[k].RecordLength
         /\ ReadRecord(f, StartOf(k)) = [RecordType |-> Records[k].RecordType,
                                         RecordLength |-> 8 + Len(ValueOf(Records[k])),
                                         Value |-> ValueOf(Records[k])]
<1> DEFINE r == Records[k]
           v == ValueOf(r)
           b == RecordBytes(r)
           at == StartOf(k)
<1>1. /\ f \in Seq(Byte) /\ Len(f) \in Nat /\ at \in Nat /\ at + r.RecordLength <= Len(f)
      /\ \A j \in 1..r.RecordLength : f[at + j] = b[j]
  BY DEF Laid
<1>2. r \in ExthRecord /\ v \in Seq(Byte) /\ r.RecordLength = 8 + Len(v)
  BY ValueFits
<1>3. /\ \A j \in 1..4 : b[j] = BE32(r.RecordType)[j]
      /\ \A j \in 1..4 : b[4 + j] = BE32(r.RecordLength)[j]
      /\ \A j \in 1..Len(v) : b[8 + j] = v[j]
  BY <1>2, RecordShape
<1>4. r.RecordType \in Nat /\ r.RecordType < Uint32 /\ r.RecordLength \in Nat
  BY <1>2, Uint32Assumption DEF ExthRecord
<1> HIDE DEF r, v, b, at
<1>5. Len(v) \in Nat
  BY <1>2
<1>6. r.RecordLength < Uint32 /\ at + 4 <= Len(f) /\ (at + 4) + 4 <= Len(f)
      /\ (at + 8) + Len(v) <= Len(f) /\ at + 4 \in Nat /\ at + 8 \in Nat
  BY <1>1, <1>2, <1>4, <1>5, Uint32Assumption, SMTT(30)
<1>7. \A j \in 1..4 : f[at + j] = BE32(r.RecordType)[j] /\ f[(at + 4) + j] = BE32(r.RecordLength)[j]
  <2> TAKE j \in 1..4
  <2>1. j \in 1..r.RecordLength /\ 4 + j \in 1..r.RecordLength /\ (at + 4) + j = at + (4 + j)
    BY <1>1, <1>2, <1>5
  <2> QED BY <1>1, <1>3, <2>1
<1>8. \A j \in 1..Len(v) : f[(at + 8) + j] = v[j]
  <2> TAKE j \in 1..Len(v)
  <2>1. 8 + j \in 1..r.RecordLength /\ (at + 8) + j = at + (8 + j)
    BY <1>1, <1>2, <1>5
  <2> QED BY <1>1, <1>3, <2>1
<1>9. Field(f, at) = r.RecordType
  BY <1>1, <1>4, <1>6, <1>7, FieldWhere
<1>10. Field(f, at + 4) = r.RecordLength
  BY <1>1, <1>4, <1>6, <1>7, FieldWhere
<1>11. BytesAt(f, at + 8, Len(v)) = v
  BY <1>1, <1>2, <1>6, <1>8, ReadWhere
<1>12. r.RecordLength - 8 = Len(v)
  BY <1>2, <1>5
<1>13. ReadRecord(f, at) = [RecordType |-> r.RecordType, RecordLength |-> 8 + Len(v), Value |-> v]
  BY <1>2, <1>9, <1>10, <1>11, <1>12 DEF ReadRecord
<1> QED BY <1>10, <1>13 DEF r, v, at
LEMMA FileFound ==
  ASSUME ExthTypeOK, LengthsTrue, NEW f, Laid(f), Len(f) < Uint32
  PROVE  Found(Parsed(f), f)
<1> DEFINE n == Len(Records)
           L == RecordLengths(Records)
           start == [k \in 1..n |-> StartOf(k)]
<1>1. n \in Nat /\ DOMAIN Records = 1..n
  BY DEF ExthTypeOK
<1>2. ASSUME NEW k \in 1..n
      PROVE  /\ StartOf(k) \in Nat /\ Records[k].RecordLength \in Nat /\ Records[k].RecordLength >= 1
             /\ Field(f, StartOf(k) + 4) = Records[k].RecordLength
             /\ ReadRecord(f, StartOf(k)) = [RecordType |-> Records[k].RecordType,
                                             RecordLength |-> 8 + Len(ValueOf(Records[k])),
                                             Value |-> ValueOf(Records[k])]
  <2>1. k \in DOMAIN Records
    BY <1>1
  <2>2. StartOf(k) \in Nat
    BY <2>1 DEF Laid
  <2>3. ValueOf(Records[k]) \in Seq(Byte) /\ Records[k].RecordLength = 8 + Len(ValueOf(Records[k]))
    BY <2>1, ValueFits
  <2>4. Len(ValueOf(Records[k])) \in Nat
    BY <2>3
  <2> QED BY <2>1, <2>2, <2>3, <2>4, RecordFound
<1>3. /\ L \in Seq(Nat) /\ Len(L) = n
      /\ \A k \in 1..n : L[k] = Records[k].RecordLength /\ L[k] >= 1
  <2>1. L = [k \in 1..n |-> Records[k].RecordLength]
    BY <1>1 DEF RecordLengths
  <2>2. \A k \in 1..n : Records[k].RecordLength \in Nat /\ Records[k].RecordLength >= 1
    BY <1>2
  <2> HIDE DEF L, n
  <2>3. L \in Seq(Nat) /\ Len(L) = n
    BY <1>1, <2>1, <2>2
  <2>4. \A k \in 1..n : L[k] = Records[k].RecordLength
    BY <2>1
  <2> QED BY <2>2, <2>3, <2>4
<1> HIDE DEF n, L
<1>4. n < Uint32
  <2>1. n <= Total(L) /\ Total(L) \in Nat
    BY <1>1, <1>3, SumAtLeast, SumSteps DEF Total
  <2>2. 12 + Total(L) <= Len(f) /\ Len(f) \in Nat
    <3> DEFINE h == HeaderBytes(Records)
               p == Padding(Records)
               t == Total(L)
    <3>1. Len(f) = h + p /\ h = 12 + t /\ p \in 0..3 /\ Len(f) \in Nat
      BY DEF Laid, L
    <3>2. t \in Nat
      BY <2>1
    <3> HIDE DEF h, p, t
    <3>3. 12 + t <= Len(f)
      BY <3>1, <3>2
    <3> QED BY <3>1, <3>3 DEF t
  <2> QED BY <1>1, <2>1, <2>2, Uint32Assumption
<1>5. f \in Seq(Byte) /\ Len(f) \in Nat /\ 12 <= Len(f)
      /\ \A j \in 1..4 : f[4 + j] = BE32(Len(f))[j] /\ f[8 + j] = BE32(n)[j]
  BY DEF Laid, n
<1>6. Field(f, 4) = Len(f)
  <2>1. 4 + 4 <= Len(f)
    BY <1>5
  <2> QED BY <1>5, <2>1, FieldWhere
<1>7. Field(f, 8) = n
  <2>1. 8 + 4 <= Len(f)
    BY <1>5
  <2> QED BY <1>1, <1>4, <1>5, <2>1, FieldWhere
<1>8. ASSUME NEW k \in 1..n
      PROVE  start[k] = IF k = 1 THEN 12 ELSE start[k - 1] + Field(f, start[k - 1] + 4)
  <2>1. \A i \in 1..n : start[i] = StartOf(i) /\ StartOf(i) = 12 + SumOfFirst(L)[i - 1]
    BY DEF StartOf, L
  <2>2. /\ SumOfFirst(L)[0] = 0
        /\ \A i \in 0..n : SumOfFirst(L)[i] \in Nat
        /\ \A i \in 1..n : SumOfFirst(L)[i] = SumOfFirst(L)[i - 1] + L[i]
    BY <1>3, SumSteps
  <2> HIDE DEF start
  <2>3. CASE k = 1
    BY <2>1, <2>2, <2>3
  <2>4. CASE k # 1
    <3>1. k - 1 \in 1..n /\ k - 1 \in 0..n /\ (k - 1) - 1 \in 0..n
      BY <1>1, <2>4
    <3>2. SumOfFirst(L)[k - 1] = SumOfFirst(L)[(k - 1) - 1] + L[k - 1]
      BY <2>2, <3>1
    <3>3. start[k - 1] = 12 + SumOfFirst(L)[(k - 1) - 1] /\ start[k] = 12 + SumOfFirst(L)[k - 1]
      BY <2>1, <3>1
    <3>4. Field(f, start[k - 1] + 4) = L[k - 1] /\ L[k - 1] \in Nat
      BY <1>2, <1>3, <2>1, <3>1
    <3>5. SumOfFirst(L)[(k - 1) - 1] \in Nat
      BY <2>2, <3>1
    <3>6. start[k] = start[k - 1] + L[k - 1]
      BY <3>2, <3>3, <3>4, <3>5
    <3> QED BY <2>4, <3>4, <3>6
  <2> QED BY <2>3, <2>4
<1>9. start \in [1..n -> Nat]
  BY <1>2
<1>10. Places(f, n) = start
  <2> HIDE DEF start
  <2> QED BY <1>1, <1>8, <1>9, PlacesAre
<1>11. /\ Parsed(f).HeaderLenght = Len(f) /\ Parsed(f).RecordCount = n
       /\ Parsed(f).Records = [i \in 1..n |-> ReadRecord(f, start[i])]
  <2> HIDE DEF start
  <2> QED BY <1>6, <1>7, <1>10 DEF Parsed
<1>12. \A k \in 1..n : Parsed(f).Records[k] = ReadRecord(f, StartOf(k))
  BY <1>11
<1>13. Parsed(f).RecordCount = Len(Records)
  BY <1>11 DEF n
<1> QED BY <1>1, <1>2, <1>11, <1>12, <1>13 DEF Found

-----------------------------------------------------------------------------
(* The invariant.                                                          *)

(* What Add makes of a value that the tag accepts. *)
LEMMA ConvertedType ==
  ASSUME NEW c \in Calls, mem \in [Slices -> Contents]
  PROVE  /\ Converted(c.tag, c.value).Value \in Seq(Byte)
         /\ Converted(c.tag, c.value).slice \in Slices \cup {NoSlice}
         /\ (Converted(c.tag, c.value).slice # NoSlice) => (Converted(c.tag, c.value).Value \in Contents)
<1> DEFINE tag == c.tag
           value == c.value
<1>1. /\ tag \in 0..(Uint32 - 1) /\ value.kind \in {"int", "string", "slice", "other"}
      /\ value.kind = "int" => value.n \in Int
      /\ value.kind = "string" => value.s \in Seq(Byte)
      /\ value.kind = "slice" => value.ref \in Slices
  BY CallsAssumption
<1> HIDE DEF tag, value
<1>2. <<>> \in Seq(Byte)
  OBVIOUS
<1>3. CASE value.kind = "int" /\ MetaType(tag) = "numeric"
  <2>1. value.n % Uint32 \in Nat
    BY <1>1, <1>3, Uint32Assumption
  <2>2. BE32(value.n % Uint32) \in Seq(Byte)
    BY <2>1, NumberBytes
  <2>3. Converted(tag, value) = Kept(BE32(value.n % Uint32))
    BY <1>3 DEF Converted
  <2> QED BY <2>2, <2>3 DEF Kept, tag, value
<1>4. CASE value.kind = "string"
  <2>1. Converted(tag, value) = Kept(value.s)
    BY <1>4 DEF Converted
  <2> QED BY <1>1, <1>4, <2>1 DEF Kept, tag, value
<1>5. CASE value.kind = "slice"
  <2>1. Converted(tag, value) = [Value |-> mem[value.ref], slice |-> value.ref]
    BY <1>5 DEF Converted
  <2>2. mem[value.ref] \in Contents
    BY <1>1, <1>5
  <2> QED BY <1>1, <1>5, <2>1, <2>2, ContentsAssumption DEF tag, value
<1>6. CASE value.kind # "string" /\ value.kind # "slice" /\ ~(value.kind = "int" /\ MetaType(tag) = "numeric")
  <2>1. Converted(tag, value) = Kept(<<>>)
    BY <1>6 DEF Converted
  <2> QED BY <1>2, <2>1 DEF Kept, tag, value
<1> QED BY <1>3, <1>4, <1>5, <1>6

(* Records as Add makes them. *)
SoundRecords ==
  {r \in ExthRecord : /\ r.RecordLength = 8 + Len(r.Value)
                      /\ (r.slice # NoSlice) => (r.Value \in Contents)}

(* The record that Add appends. *)
LEMMA RecordType ==
  ASSUME NEW tag \in 0..(Uint32 - 1), NEW value,
         Converted(tag, value).Value \in Seq(Byte),
         Converted(tag, value).slice \in Slices \cup {NoSlice},
         (Converted(tag, value).slice # NoSlice) => (Converted(tag, value).Value \in Contents)
  PROVE  /\ Record(tag, value) \in SoundRecords
         /\ Record(tag, value).Value = Converted(tag, value).Value
         /\ Record(tag, value).slice = Converted(tag, value).slice
<1> DEFINE v == Converted(tag, value)
<1>1. Len(v.Value) \in Nat
  OBVIOUS
<1>2. Record(tag, value) = [RecordType |-> tag, RecordLength |-> 8 + Len(v.Value),
                            Value |-> v.Value, slice |-> v.slice]
  BY DEF Record, RecordLen
<1> HIDE DEF v
<1> QED BY <1>1, <1>2 DEF ExthRecord, SoundRecords, v

(* A call's value converts to the same record later, unless it is a slice. *)
LEMMA ConvertedLater ==
  ASSUME NEW c \in Calls
  PROVE  /\ Converted(c.tag, c.value)'.slice = Converted(c.tag, c.value).slice
         /\ Converted(c.tag, c.value).slice = NoSlice =>
              Converted(c.tag, c.value)'.Value = Converted(c.tag, c.value).Value
<1>1. c.value.kind = "slice" => c.value.ref \in Slices
  BY CallsAssumption
<1>2. CASE c.value.kind = "slice"
  <2>1. c.value.ref # NoSlice
    BY <1>1, <1>2, CallsAssumption
  <2> QED BY <1>2, <2>1 DEF Converted
<1>3. CASE c.value.kind # "slice"
  BY <1>3 DEF Converted, Kept
<1> QED BY <1>2, <1>3

LEMMA Beginning == Init => ExthIndInv
<1> SUFFICES ASSUME Init PROVE ExthIndInv
  OBVIOUS
<1>1. Records = <<>> /\ given = <<>> /\ DOMAIN Records = {} /\ DOMAIN given = {}
  BY DEF Init
<1>2. ExthTypeOK
  <2>1. <<>> \in Seq(ExthRecord)
    OBVIOUS
  <2> QED BY <1>1, <2>1 DEF Init, ExthTypeOK
<1>3. LengthsTrue
  BY <1>1 DEF LengthsTrue
<1>4. GivenHeld
  BY <1>1 DEF GivenHeld
<1>5. FileHeld
  BY DEF Init, FileHeld
<1> QED BY <1>2, <1>3, <1>4, <1>5 DEF ExthIndInv

(* Records are added behind those that are there; nothing else changes. *)
LEMMA RecordsAdded ==
  ASSUME ExthIndInv, NEW more \in Seq(SoundRecords), Records' = Records \o more, mem' = mem
  PROVE  /\ Records' \in Seq(ExthRecord) /\ LengthsTrue'
         /\ Len(Records') = Len(Records) + Len(more)
         /\ \A k \in DOMAIN Records : k \in DOMAIN Records' /\ Records'[k] = Records[k]
         /\ \A k \in DOMAIN more : Records'[Len(Records) + k] = more[k]
<1> DEFINE new == Records \o more
           m == Len(Records)
           n == Len(more)
<1>1. Records \in Seq(SoundRecords)
  <2>1. Records \in Seq(ExthRecord) /\ DOMAIN Records = 1..m /\ m \in Nat
    BY DEF ExthIndInv, ExthTypeOK
  <2>2. \A k \in 1..m : Records[k] \in ExthRecord
    BY <2>1
  <2>3. \A k \in 1..m : Records[k] \in SoundRecords
    BY <2>1, <2>2 DEF ExthIndInv, LengthsTrue, SoundRecords
  <2>4. Records = [k \in 1..m |-> Records[k]]
    BY <2>1
  <2> HIDE DEF m
  <2>5. [k \in 1..m |-> Records[k]] \in Seq(SoundRecords)
    BY <2>1, <2>3
  <2> QED BY <2>4, <2>5
<1>2. /\ new \in Seq(SoundRecords) /\ Len(new) = m + n
      /\ \A i \in 1..m : new[i] = Records[i]
      /\ \A j \in 1..n : new[m + j] = more[j]
  BY ONLY <1>1, more \in Seq(SoundRecords), ConcatElements
<1>3. m \in Nat /\ n \in Nat /\ DOMAIN Records = 1..m /\ DOMAIN more = 1..n
  BY <1>1
<1>4. DOMAIN new = 1..(m + n)
  <2>1. DOMAIN new = 1..Len(new)
    BY <1>2
  <2> QED BY <1>2, <2>1
<1>5. \A k \in 1..(m + n) : new[k] \in SoundRecords
  <2> HIDE DEF new
  <2> QED BY <1>2, <1>4, ElementOf
<1> HIDE DEF m, n
<1>6. Records' = new
  OBVIOUS
<1> HIDE DEF new
<1>7. LengthsTrue'
  BY <1>4, <1>5, <1>6 DEF LengthsTrue, SoundRecords
<1>8. \A k \in 1..m : k \in 1..(m + n)
  BY <1>3
<1>9. new \in Seq(ExthRecord)
  <2>1. SoundRecords \subseteq ExthRecord
    BY DEF SoundRecords
  <2> QED BY <1>2, <2>1
<1> QED BY <1>2, <1>3, <1>4, <1>6, <1>7, <1>8, <1>9 DEF m, n

(* Calls keep their records while records are only added. *)
LEMMA HeldStays ==
  ASSUME NEW tag, NEW value, NEW at, Held(tag, value, at),
         \A k \in DOMAIN Records : k \in DOMAIN Records' /\ Records'[k] = Records[k]
  PROVE  Held(tag, value, at)'
<1>1. PICK c \in Calls : c.tag = tag /\ c.value = value
  BY DEF Held
<1>2. Records'[at] = Records[at] /\ at \in DOMAIN Records'
  BY DEF Held
<1>3. Converted(tag, value)'.slice = Converted(tag, value).slice
  BY <1>1, ConvertedLater
<1>4. (Converted(tag, value).slice = NoSlice) =>
        (Converted(tag, value)'.Value = Converted(tag, value).Value)
  BY <1>1, ConvertedLater
<1> QED BY <1>2, <1>3, <1>4 DEF Held

LEMMA GivenKept ==
  ASSUME GivenHeld, given' = given,
         \A k \in DOMAIN Records : k \in DOMAIN Records' /\ Records'[k] = Records[k]
  PROVE  GivenHeld'
<1>1. PICK g : g = given /\ g = given'
  OBVIOUS
<1>2. \A k \in DOMAIN g : Held(g[k].tag, g[k].value, g[k].at)
  BY <1>1 DEF GivenHeld
<1>3. \A k \in DOMAIN g : Held(g[k].tag, g[k].value, g[k].at)'
  BY <1>2, HeldStays
<1> QED BY <1>1, <1>3 DEF GivenHeld

(* What the file was made of stays. *)
LEMMA FileKept ==
  ASSUME FileHeld, Records' = Records, mem' = mem, stream' = stream, pc' = pc, parsed' = parsed
  PROVE  FileHeld'
<1>1. initExth(Records)' = initExth(Records)
  BY DEF initExth, HeaderBytes, Padding, CountRecords, RecordBytes, ValueOf
<1> QED BY <1>1 DEF FileHeld

LEMMA AddStep ==
  ASSUME ExthIndInv, NEW c \in Calls, NewExthRecord(c.tag, c.value)
  PROVE  ExthIndInv'
<1> DEFINE x == Record(c.tag, c.value)
           v == Converted(c.tag, c.value)
           more == <<x>>
           n == Len(Records)
           G == [at : Nat, tag : {e.tag : e \in Calls}, value : {e.value : e \in Calls}]
<1>0. PICK m : m = n + 1
  OBVIOUS
<1> DEFINE call == [at |-> m, tag |-> c.tag, value |-> c.value]
<1>1. /\ pc = "calls" /\ pc' = pc /\ mem' = mem /\ covers' = covers /\ Accepts(c.tag, c.value)
      /\ Records' = Append(Records, x) /\ given' = Append(given, call)
  BY <1>0 DEF NewExthRecord
<1>2. /\ mem \in [Slices -> Contents] /\ Records \in Seq(ExthRecord) /\ covers \in Nat /\ n \in Nat
      /\ \A k \in DOMAIN given : Held(given[k].tag, given[k].value, given[k].at)
      /\ given \in Seq(G) /\ m \in Nat
  BY <1>0 DEF ExthIndInv, ExthTypeOK, GivenHeld
<1>3. v.Value \in Seq(Byte) /\ v.slice \in Slices \cup {NoSlice}
  BY <1>2, ConvertedType
<1>4. (v.slice # NoSlice) => (v.Value \in Contents)
  BY <1>2, ConvertedType
<1>5. x \in SoundRecords /\ x.Value = v.Value /\ x.slice = v.slice
  <2>1. c.tag \in 0..(Uint32 - 1)
    BY CallsAssumption
  <2> QED BY <1>3, <1>4, <2>1, RecordType
<1> HIDE DEF x, v
<1>6. /\ more \in Seq(SoundRecords) /\ DOMAIN more = 1..1 /\ Len(more) = 1 /\ more[1] = x
      /\ Append(Records, x) = Records \o more
  BY <1>2, <1>5
<1> HIDE DEF more
<1>7. /\ Records' \in Seq(ExthRecord) /\ LengthsTrue' /\ Len(Records') = m
      /\ Records'[m] = x
      /\ \A k \in DOMAIN Records : k \in DOMAIN Records' /\ Records'[k] = Records[k]
  <2>1. Records' = Records \o more
    BY <1>1, <1>6
  <2>2. /\ Records' \in Seq(ExthRecord) /\ LengthsTrue' /\ Len(Records') = n + Len(more)
        /\ \A k \in DOMAIN Records : k \in DOMAIN Records' /\ Records'[k] = Records[k]
        /\ \A k \in DOMAIN more : Records'[n + k] = more[k]
    BY <1>1, <1>6, <2>1, RecordsAdded
  <2> QED BY <1>0, <1>6, <2>2
<1>8. Held(c.tag, c.value, m)'
  <2>1. Converted(c.tag, c.value)'.slice = v.slice
    BY ConvertedLater DEF v
  <2>2. (v.slice = NoSlice) => (Converted(c.tag, c.value)'.Value = v.Value)
    BY ConvertedLater DEF v
  <2>3. m \in DOMAIN Records'
    BY <1>0, <1>2, <1>7
  <2> QED BY <1>1, <1>5, <1>7, <2>1, <2>2, <2>3 DEF Held
<1>9. GivenHeld'
  <2>1. PICK g : g = given'
    OBVIOUS
  <2>2. ASSUME NEW k \in DOMAIN g PROVE Held(g[k].tag, g[k].value, g[k].at)'
    <3>1. call \in G
      BY <1>2
    <3> HIDE DEF call, G
    <3>2. \/ k \in DOMAIN given /\ g[k] = given[k]
          \/ g[k] = call
      BY <1>1, <1>2, <2>1, <3>1
    <3>3. CASE k \in DOMAIN given /\ g[k] = given[k]
      <4>1. PICK e : e = given[k]
        OBVIOUS
      <4>2. Held(e.tag, e.value, e.at)
        BY <1>2, <3>3, <4>1
      <4>3. Held(e.tag, e.value, e.at)'
        BY <1>7, <4>2, HeldStays
      <4> QED BY <3>3, <4>1, <4>3
    <3>4. CASE g[k] = call
      BY <1>8, <3>4 DEF call
    <3> QED BY <3>2, <3>3, <3>4
  <2> QED BY <2>1, <2>2 DEF GivenHeld
<1>10. ExthTypeOK'
  <2>1. given' \in Seq(G)
    BY <1>1, <1>2
  <2> QED BY <1>1, <1>2, <1>7, <2>1 DEF ExthTypeOK
<1>11. FileHeld'
  BY <1>1 DEF FileHeld
<1> QED BY <1>7, <1>9, <1>10, <1>11 DEF ExthIndInv
LEMMA ChangeStep ==
  ASSUME ExthIndInv, NEW ref \in Slices, NEW content \in Contents, ChangeSlice(ref, content)
  PROVE  ExthIndInv'
<1>1. /\ pc = "calls" /\ pc' = pc /\ mem' = [mem EXCEPT ![ref] = content] /\ covers' = covers
      /\ Records' = Records /\ given' = given
  BY DEF ChangeSlice
<1>2. ExthTypeOK'
  BY <1>1 DEF ExthIndInv, ExthTypeOK
<1>3. LengthsTrue'
  BY <1>1 DEF ExthIndInv, LengthsTrue
<1>4. GivenHeld'
  BY <1>1, GivenKept DEF ExthIndInv
<1>5. FileHeld'
  BY <1>1 DEF FileHeld
<1> QED BY <1>2, <1>3, <1>4, <1>5 DEF ExthIndInv

(* The records of a pair of images are like those that Add makes. *)
LEMMA ImagesType ==
  ASSUME NEW i \in Nat
  PROVE  ImageRecords(i) \in Seq(SoundRecords)
<1> DEFINE uri == [kind |-> "string", s |-> BE32(i + 1)]
           cover == [kind |-> "int", n |-> i]
           thumb == [kind |-> "int", n |-> i + 1]
<1>1. /\ CoverURI \in 0..(Uint32 - 1) /\ CoverOffset \in 0..(Uint32 - 1)
      /\ ThumbOffset \in 0..(Uint32 - 1)
  BY Uint32Assumption DEF CoverURI, CoverOffset, ThumbOffset
<1>2. Record(CoverURI, uri) \in SoundRecords
  <2>1. Converted(CoverURI, uri) = Kept(BE32(i + 1))
    BY DEF Converted
  <2>2. BE32(i + 1) \in Seq(Byte)
    BY NumberBytes
  <2> HIDE DEF uri
  <2> QED BY <1>1, <2>1, <2>2, RecordType DEF Kept
<1>3. ASSUME NEW tag \in 0..(Uint32 - 1), NEW n \in Nat
      PROVE  Record(tag, [kind |-> "int", n |-> n]) \in SoundRecords
  <2> DEFINE value == [kind |-> "int", n |-> n]
  <2>1. n % Uint32 \in Nat
    BY Uint32Assumption
  <2>2. BE32(n % Uint32) \in Seq(Byte) /\ <<>> \in Seq(Byte)
    BY <2>1, NumberBytes
  <2>3. Converted(tag, value) = Kept(BE32(n % Uint32)) \/ Converted(tag, value) = Kept(<<>>)
    BY DEF Converted
  <2> HIDE DEF value
  <2>4. Converted(tag, value).Value \in Seq(Byte) /\ Converted(tag, value).slice = NoSlice
    <3> DEFINE y == BE32(n % Uint32)
               c == Converted(tag, value)
    <3>1. /\ y \in Seq(Byte) /\ <<>> \in Seq(Byte)
          /\ c = [Value |-> y, slice |-> NoSlice] \/ c = [Value |-> <<>>, slice |-> NoSlice]
      BY <2>2, <2>3 DEF Kept
    <3> HIDE DEF y, c
    <3>2. ASSUME NEW b \in Seq(Byte), NEW d, d = [Value |-> b, slice |-> NoSlice]
          PROVE  d.Value \in Seq(Byte) /\ d.slice = NoSlice
      <4>1. d.Value = b /\ d.slice = NoSlice
        BY ONLY <3>2
      <4> QED BY <4>1
    <3>3. CASE c = [Value |-> y, slice |-> NoSlice]
      BY <3>1, <3>2, <3>3 DEF c
    <3>4. CASE c = [Value |-> <<>>, slice |-> NoSlice]
      BY <3>1, <3>2, <3>4 DEF c
    <3> QED BY <3>1, <3>3, <3>4
  <2>5. Record(tag, value) \in SoundRecords
    BY <2>4, RecordType
  <2> QED BY <2>5 DEF value
<1>4. Record(CoverOffset, cover) \in SoundRecords
  BY <1>1, <1>3
<1>5. Record(ThumbOffset, thumb) \in SoundRecords
  <2>1. i + 1 \in Nat
    OBVIOUS
  <2> QED BY <1>1, <1>3, <2>1
<1>6. ImageRecords(i) = <<Record(CoverURI, uri), Record(CoverOffset, cover), Record(ThumbOffset, thumb)>>
  BY DEF ImageRecords
<1> HIDE DEF uri, cover, thumb
<1> QED BY <1>2, <1>4, <1>5, <1>6

LEMMA WriteStep ==
  ASSUME ExthIndInv, WriteTo
  PROVE  ExthIndInv'
<1> DEFINE ss == [c \in 1..covers |-> ImageRecords(2 * (c - 1))]
           more == FlattenSeq(ss)
<1>1. /\ pc' = "written" /\ mem' = mem /\ covers' = covers /\ given' = given
      /\ Records' = Records \o more
  BY DEF WriteTo
<1>2. mem \in [Slices -> Contents] /\ covers \in Nat
      /\ given \in Seq([at : Nat, tag : {c.tag : c \in Calls}, value : {c.value : c \in Calls}])
  BY DEF ExthIndInv, ExthTypeOK
<1>3. more \in Seq(SoundRecords)
  <2>1. ASSUME NEW c \in 1..covers PROVE ImageRecords(2 * (c - 1)) \in Seq(SoundRecords)
    <3>1. 2 * (c - 1) \in Nat
      BY <1>2
    <3> QED BY <3>1, ImagesType
  <2>2. ss \in Seq(Seq(SoundRecords))
    BY <1>2, <2>1
  <2> HIDE DEF ss
  <2>3. <<>> \in Seq(SoundRecords)
    OBVIOUS
  <2> QED BY <2>2, <2>3, FlattenAppend
<1> HIDE DEF more
<1>4. /\ Records' \in Seq(ExthRecord) /\ LengthsTrue'
      /\ \A k \in DOMAIN Records : k \in DOMAIN Records' /\ Records'[k] = Records[k]
  BY <1>1, <1>3, RecordsAdded
<1>5. ExthTypeOK'
  BY <1>1, <1>2, <1>4 DEF ExthTypeOK
<1>6. GivenHeld'
  BY <1>1, <1>4, GivenKept DEF ExthIndInv
<1>7. FileHeld'
  <2>1. stream' = initExth(Records)'
    BY DEF WriteTo, initExth, HeaderBytes, Padding, CountRecords, RecordBytes, ValueOf
  <2> QED BY <1>1, <2>1 DEF FileHeld
<1> QED BY <1>4, <1>5, <1>6, <1>7 DEF ExthIndInv

(* Steps that leave the records, the slices and the calls alone. *)
LEMMA KeptStep ==
  ASSUME ExthIndInv, Records' = Records, mem' = mem, given' = given, covers' \in Nat,
         pc' \in {"calls", "written", "read"}
  PROVE  ExthTypeOK' /\ LengthsTrue' /\ GivenHeld'
<1>1. ExthTypeOK'
  BY DEF ExthIndInv, ExthTypeOK
<1>2. LengthsTrue'
  BY DEF ExthIndInv, LengthsTrue
<1>3. GivenHeld'
  BY GivenKept DEF ExthIndInv
<1> QED BY <1>1, <1>2, <1>3

LEMMA Inductive == ExthIndInv /\ [Next]_vars => ExthIndInv'
<1> SUFFICES ASSUME ExthIndInv, [Next]_vars PROVE ExthIndInv'
  OBVIOUS
<1>0. covers \in Nat /\ pc \in {"calls", "written", "read"}
  BY DEF ExthIndInv, ExthTypeOK
<1>1. ASSUME NEW c \in Calls, NewExthRecord(c.tag, c.value) PROVE ExthIndInv'
  BY <1>1, AddStep
<1>2. ASSUME NEW c \in Calls, AddPanics(c.tag, c.value) PROVE ExthIndInv'
  <2>1. /\ Records' = Records /\ mem' = mem /\ given' = given /\ covers' = covers
        /\ pc' = pc /\ stream' = stream /\ parsed' = parsed
    BY <1>2 DEF AddPanics
  <2> QED BY <1>0, <2>1, KeptStep, FileKept DEF ExthIndInv
<1>3. ASSUME NEW ref \in Slices, NEW content \in Contents, ChangeSlice(ref, content) PROVE ExthIndInv'
  BY <1>3, ChangeStep
<1>4. CASE AddCover
  <2>1. /\ Records' = Records /\ mem' = mem /\ given' = given /\ covers' \in Nat
        /\ pc' = pc /\ stream' = stream /\ parsed' = parsed
    BY <1>0, <1>4 DEF AddCover
  <2> QED BY <1>0, <2>1, KeptStep, FileKept DEF ExthIndInv
<1>5. CASE WriteTo
  BY <1>5, WriteStep
<1>6. CASE ExthParse
  <2>1. /\ Records' = Records /\ mem' = mem /\ given' = given /\ covers' = covers
        /\ pc = "written" /\ pc' = "read" /\ stream' = stream /\ parsed' = Parsed(stream)
    BY <1>6 DEF ExthParse
  <2>2. initExth(Records)' = initExth(Records)
    BY <2>1 DEF initExth, HeaderBytes, Padding, CountRecords, RecordBytes, ValueOf
  <2>3. FileHeld'
    BY <2>1, <2>2 DEF ExthIndInv, FileHeld
  <2> QED BY <1>0, <2>1, <2>3, KeptStep DEF ExthIndInv
<1>7. CASE CallerGoesOn
  <2>1. /\ Records' = Records /\ mem' = mem /\ given' = given /\ covers' = covers /\ pc' = "calls"
    BY <1>7 DEF CallerGoesOn
  <2>2. FileHeld'
    BY <2>1 DEF FileHeld
  <2> QED BY <1>0, <2>1, <2>2, KeptStep DEF ExthIndInv
<1>8. CASE UNCHANGED vars
  <2>1. /\ Records' = Records /\ mem' = mem /\ given' = given /\ covers' = covers
        /\ pc' = pc /\ stream' = stream /\ parsed' = parsed
    BY <1>8 DEF vars
  <2> QED BY <1>0, <2>1, KeptStep, FileKept DEF ExthIndInv
<1> QED BY <1>1, <1>2, <1>3, <1>4, <1>5, <1>6, <1>7, <1>8 DEF Next

(* Every record has the length it announces, whatever the caller does with *)
(* its slices; every call that returned finds its record; the file that is *)
(* read is the last one written.                                           *)
THEOREM Invariance == Spec => []ExthIndInv
<1>1. Init => ExthIndInv
  BY Beginning
<1>2. ExthIndInv /\ [Next]_vars => ExthIndInv'
  BY Inductive
<1> QED BY <1>1, <1>2, PTL DEF Spec

(* ExthParse finds every record of an EXTH header that is shorter than     *)
(* 2^32 bytes, and no other.                                               *)
THEOREM RecordsAreRead == Spec => [](Len(stream) < Uint32 => ReadBack)
<1>1. ExthIndInv => (Len(stream) < Uint32 => ReadBack)
  <2> SUFFICES ASSUME ExthIndInv, Len(stream) < Uint32, pc = "read" PROVE ReadBack
    BY DEF ReadBack
  <2>1. stream = initExth(Records) /\ parsed = Parsed(stream)
    BY DEF ExthIndInv, FileHeld
  <2>2. Laid(stream)
    BY <2>1, LaidOut DEF ExthIndInv
  <2>3. Found(parsed, stream)
    BY <2>1, <2>2, FileFound DEF ExthIndInv
  <2> QED BY <2>3 DEF ReadBack, Found
<1> QED BY <1>1, Invariance, PTL

(* What becomes of the values that a caller gave, for every tag.           *)
THEOREM ValuesAreKept == Spec => [](Len(stream) < Uint32 => ValuesKept)
<1>1. ExthIndInv /\ (Len(stream) < Uint32 => ReadBack) => (Len(stream) < Uint32 => ValuesKept)
  <2> SUFFICES ASSUME ExthIndInv, ReadBack, pc = "read", NEW k \in DOMAIN given
               PROVE  LET g == given[k]
                          read == parsed.Records[g.at].Value
                      IN  CASE g.value.kind = "slice" -> read = mem[g.value.ref]
                            [] g.value.kind = "string" -> read = g.value.s
                            [] g.value.kind = "int" /\ g.tag \notin StringTags ->
                                 (U32(read) = g.value.n) <=> (g.value.n \in 0..(Uint32 - 1))
                            [] OTHER -> read = <<>>
    BY DEF ValuesKept
  <2> DEFINE g == given[k]
             r == Records[g.at]
             v == g.value
             c == Converted(g.tag, v)
             read == parsed.Records[g.at].Value
  <2>1. Held(g.tag, g.value, g.at)
    BY DEF ExthIndInv, GivenHeld
  <2>2. g.at \in DOMAIN Records /\ r.slice = c.slice /\ Accepts(g.tag, v)
    BY <2>1 DEF Held
  <2>3. (r.slice = NoSlice) => (r.Value = c.Value)
    BY <2>1 DEF Held
  <2>4. read = ValueOf(r)
    <3>1. ASSUME NEW j \in DOMAIN Records
          PROVE  parsed.Records[j].Value = ValueOf(Records[j])
      <4> DEFINE bytes == ValueOf(Records[j])
                 record == parsed.Records[j]
                 type == Records[j].RecordType
                 length == 8 + Len(bytes)
      <4>1. record = [RecordType |-> type, RecordLength |-> length, Value |-> bytes]
        BY DEF ReadBack
      <4> HIDE DEF bytes, record, type, length
      <4>2. record.Value = bytes
        BY ONLY <4>1
      <4> QED BY <4>2 DEF bytes, record
    <3> DEFINE at == g.at
    <3> HIDE DEF at
    <3>2. at \in DOMAIN Records
      BY <2>2 DEF at
    <3>3. parsed.Records[at].Value = ValueOf(Records[at])
      BY <3>1, <3>2
    <3> QED BY <3>3 DEF at
  <2>5. PICK call \in Calls : call.tag = g.tag /\ call.value = v
    BY <2>1 DEF Held
  <2>6. /\ v.kind \in {"int", "string", "slice", "other"}
        /\ v.kind = "int" => v.n \in Int
        /\ v.kind = "slice" => v.ref \in Slices
    BY <2>5, CallsAssumption
  <2>7. NoSlice \notin Slices
    BY CallsAssumption
  <2> DEFINE tag == g.tag
  <2>8. c = Converted(tag, v) /\ Accepts(tag, v)
    BY <2>2
  <2> HIDE DEF g, r, v, c, read, tag
  <2>9. CASE v.kind = "slice"
    <3>1. c.slice = v.ref
      BY <2>8, <2>9 DEF Converted
    <3>2. read = mem[v.ref]
      BY <2>2, <2>4, <2>6, <2>7, <2>9, <3>1 DEF ValueOf
    <3> QED BY <2>9, <3>2 DEF g, v, read
  <2>10. CASE v.kind # "slice"
    <3>1. c.slice = NoSlice
      BY <2>8, <2>10 DEF Converted, Kept
    <3>2. read = c.Value
      BY <2>2, <2>3, <2>4, <3>1 DEF ValueOf
    <3>3. CASE v.kind = "string"
      <4>1. c.Value = v.s
        BY <2>8, <3>3 DEF Converted, Kept
      <4> QED BY <3>2, <3>3, <4>1 DEF g, v, read
    <3>4. CASE v.kind = "int" /\ tag \notin StringTags
      <4>1. MetaType(tag) = "numeric"
        BY <2>8, <3>4 DEF Accepts, MetaType
      <4>2. c.Value = BE32(v.n % Uint32)
        BY <2>8, <3>4, <4>1 DEF Converted, Kept
      <4>3. v.n \in Int /\ v.n % Uint32 \in 0..(Uint32 - 1)
        BY <2>6, <3>4, Uint32Assumption
      <4>4. U32(read) = v.n % Uint32
        <5> DEFINE x == v.n % Uint32
        <5>1. x \in Nat /\ x < Uint32
          BY <4>3, Uint32Assumption
        <5> HIDE DEF x
        <5>2. U32(BE32(x)) = x
          BY <5>1, NumberBytes
        <5> QED BY <3>2, <4>2, <5>2 DEF x
      <4>5. (v.n % Uint32 = v.n) <=> (v.n \in 0..(Uint32 - 1))
        BY <4>3, Uint32Assumption
      <4>6. (U32(read) = v.n) <=> (v.n \in 0..(Uint32 - 1))
        BY <4>4, <4>5
      <4> QED BY <3>4, <4>6 DEF g, v, read, tag
    <3>5. CASE v.kind # "string" /\ ~(v.kind = "int" /\ tag \notin StringTags)
      <4>1. ~(v.kind = "int" /\ MetaType(tag) = "numeric")
        BY <3>5 DEF MetaType
      <4>2. c.Value = <<>>
        BY <2>8, <2>10, <3>5, <4>1 DEF Converted, Kept
      <4> QED BY <2>10, <3>2, <3>5, <4>2 DEF g, v, read, tag
    <3> QED BY <3>3, <3>4, <3>5
  <2> QED BY <2>9, <2>10
<1> QED BY <1>1, Invariance, RecordsAreRead, PTL
=============================================================================
