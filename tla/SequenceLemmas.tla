--------------------------- MODULE SequenceLemmas ---------------------------
(***************************************************************************)
(* Induction over the naturals, what FlattenSeq of the community modules   *)
(* computes, and running sums, for the proofs about the book.              *)
(***************************************************************************)
EXTENDS Sums, SequencesExt, WellFoundedInduction, TLAPS

(* Every non-empty set of naturals has a least element. *)
LEMMA LeastNatural ==
  ASSUME NEW T, T \subseteq Nat, T # {}
  PROVE \E n \in T : \A m \in T : n <= m
<1> DEFINE R == OpToRel(<, Nat)
<1>1. IsWellFoundedOn(R, Nat)
  BY NatLessThanWellFounded
<1>2. \A m, n \in Nat : m < n => <<m, n>> \in R
  BY DEF OpToRel
<1> HIDE DEF R
<1>3. PICK n \in T : \A m \in T : ~(<<m, n>> \in R)
  BY <1>1, WFMin
<1>4. ASSUME NEW m \in T PROVE n <= m
  <2>1. m \in Nat /\ n \in Nat
    OBVIOUS
  <2>2. ~(m < n)
    BY <1>2, <1>3, <2>1
  <2> QED BY <2>1, <2>2
<1> QED BY <1>4

(* The elements of a sequence. *)
LEMMA ElementOf ==
  ASSUME NEW S, NEW s \in Seq(S), NEW i \in DOMAIN s
  PROVE  s[i] \in S
OBVIOUS

(* One element replaced. *)
LEMMA ReplaceElement ==
  ASSUME NEW S, NEW s \in Seq(S), NEW i \in DOMAIN s, NEW e \in S
  PROVE  /\ [s EXCEPT ![i] = e] \in Seq(S) /\ Len([s EXCEPT ![i] = e]) = Len(s)
         /\ DOMAIN [s EXCEPT ![i] = e] = DOMAIN s /\ [s EXCEPT ![i] = e][i] = e
         /\ \A k \in DOMAIN s : k # i => [s EXCEPT ![i] = e][k] = s[k]
OBVIOUS

(* Induction, for a set of naturals. *)
LEMMA Induction ==
  ASSUME NEW I, 0 \in I, \A n \in Nat : n \in I => n + 1 \in I
  PROVE  \A n \in Nat : n \in I
<1> DEFINE Missing == Nat \ I
<1>1. SUFFICES ASSUME Missing # {} PROVE FALSE
  OBVIOUS
<1>2. PICK n \in Missing : \A m \in Missing : n <= m
  BY <1>1, LeastNatural
<1>3. n \in Nat /\ n # 0 /\ n - 1 \in Nat /\ n - 1 \notin Missing
  BY <1>2
<1>4. (n - 1) + 1 \in I
  BY <1>3
<1> QED BY <1>3, <1>4

(* Induction from all smaller numbers. *)
LEMMA StrongInduction ==
  ASSUME NEW I, \A n \in Nat : (\A m \in 0..(n - 1) : m \in I) => n \in I
  PROVE  \A n \in Nat : n \in I
<1> DEFINE Missing == Nat \ I
<1>1. SUFFICES ASSUME Missing # {} PROVE FALSE
  OBVIOUS
<1>2. PICK n \in Missing : \A m \in Missing : n <= m
  BY <1>1, LeastNatural
<1>3. n \in Nat /\ n \notin I
  BY <1>2
<1>4. \A m \in 0..(n - 1) : m \in I
  <2> TAKE m \in 0..(n - 1)
  <2>1. m \in Nat /\ ~(n <= m)
    BY <1>3
  <2> QED BY <1>2, <2>1
<1> QED BY <1>3, <1>4

(* A recursive definition that goes through the steps 1 to n has a value.  *)
Follows(f, n, base, step) == f[0] = base /\ \A k \in 1..n : f[k] = step[k][f[k - 1]]

LEMMA Recursion ==
  ASSUME NEW S, NEW n \in Nat, NEW base \in S, NEW step \in [1..n -> [S -> S]]
  PROVE  \E f \in [0..n -> S] : Follows(f, n, base, step)
<1> DEFINE next(f, m) == [k \in 0..m |-> IF k = 0 THEN base ELSE step[k][f[k - 1]]]
           I == {m \in Nat : m <= n => \E f \in [0..m -> S] : f = next(f, m)}
<1>1. 0 \in I
  <2>1. [k \in 0..0 |-> base] = next([k \in 0..0 |-> base], 0)
    OBVIOUS
  <2>2. [k \in 0..0 |-> base] \in [0..0 -> S]
    OBVIOUS
  <2> QED BY <2>1, <2>2
<1>2. ASSUME NEW m \in Nat, m \in I PROVE m + 1 \in I
  <2>1. SUFFICES ASSUME m + 1 <= n PROVE \E f \in [0..(m + 1) -> S] : f = next(f, m + 1)
    <3> HIDE DEF next
    <3> QED OBVIOUS
  <2>2. PICK f \in [0..m -> S] : f = next(f, m)
    <3>1. m <= n
      BY <2>1
    <3> HIDE DEF next
    <3> QED BY <1>2, <3>1
  <2> DEFINE last == step[m + 1][f[m]]
             g == [k \in 0..(m + 1) |-> IF k <= m THEN f[k] ELSE last]
  <2>3. last \in S
    <3>1. m + 1 \in 1..n /\ m \in 0..m
      BY <2>1
    <3>2. step[m + 1] \in [S -> S] /\ f[m] \in S
      BY <3>1
    <3> QED BY <3>2
  <2>4. ASSUME NEW k \in 0..(m + 1) PROVE g[k] \in S /\ g[k] = next(g, m + 1)[k]
    <3>1. CASE k <= m
      <4>1. k \in 0..m /\ g[k] = f[k] /\ f[k] \in S
        BY <3>1
      <4>2. f[k] = IF k = 0 THEN base ELSE step[k][f[k - 1]]
        BY <2>2, <4>1
      <4>3. k # 0 => g[k - 1] = f[k - 1]
        BY <4>1
      <4> QED BY <4>1, <4>2, <4>3
    <3>2. CASE k = m + 1
      <4>1. g[k] = last /\ g[k - 1] = f[m] /\ k # 0
        BY <3>2
      <4> QED BY <2>3, <3>2, <4>1
    <3> QED BY <3>1, <3>2
  <2>5. g \in [0..(m + 1) -> S] /\ g = next(g, m + 1)
    BY <2>4
  <2> QED BY <2>5
<1>3. n \in I
  <2> HIDE DEF I
  <2> QED BY <1>1, <1>2, Induction
<1>4. PICK f \in [0..n -> S] : f = next(f, n)
  BY <1>3
<1>5. f[0] = base /\ \A k \in 1..n : f[k] = step[k][f[k - 1]]
  BY <1>4
<1> QED BY <1>5 DEF Follows

(* The sequences that FlattenSeq puts together, one after another. *)
LEMMA FlattenSteps ==
  ASSUME NEW X, NEW ss \in Seq(Seq(X))
  PROVE \E f : /\ f \in [0..Len(ss) -> Seq(X)]
               /\ f[0] = <<>>
               /\ \A k \in 1..Len(ss) : f[k] = f[k-1] \o ss[k]
               /\ FlattenSeq(ss) = f[Len(ss)]
<1> DEFINE n == Len(ss)
           next(f, i) == [k \in 1..i |-> IF k = 1 THEN ss[k] ELSE f[k - 1] \o ss[k]]
           G(i) == {f \in [1..i -> Seq(X)] : f = next(f, i)}
           I == {i \in Nat : i <= n => G(i) # {}}
<1>0. n \in Nat /\ \A k \in 1..n : ss[k] \in Seq(X)
  OBVIOUS
<1>1. 0 \in I
  <2>1. [k \in 1..0 |-> <<>>] \in G(0)
    OBVIOUS
  <2> QED BY <2>1
<1>2. ASSUME NEW i \in Nat, i \in I PROVE i + 1 \in I
  <2>1. SUFFICES ASSUME i + 1 <= n PROVE G(i + 1) # {}
    <3> HIDE DEF G, n
    <3> QED OBVIOUS
  <2>2. PICK f \in [1..i -> Seq(X)] : f = next(f, i)
    <3>1. G(i) # {}
      <4> HIDE DEF G, n
      <4> QED BY <1>0, <1>2, <2>1
    <3> QED BY <3>1
  <2> DEFINE g == [k \in 1..(i + 1) |-> IF k <= i THEN f[k] ELSE IF k = 1 THEN ss[1] ELSE f[i] \o ss[k]]
  <2>3. ASSUME NEW k \in 1..(i + 1) PROVE g[k] \in Seq(X) /\ g[k] = next(g, i + 1)[k]
    <3>0. ss[k] \in Seq(X) /\ k \in Nat /\ k >= 1
      BY <1>0, <2>1
    <3>1. CASE k <= i
      <4>0. k \in 1..i /\ g[k] = f[k]
        BY <3>0, <3>1
      <4>1. k \in 1..i /\ f[k] = next(f, i)[k] /\ g[k] = f[k]
        <5> HIDE DEF next, g
        <5> QED BY <2>2, <4>0
      <4>2. k # 1 => k - 1 \in 1..i /\ g[k - 1] = f[k - 1]
        BY <3>0, <3>1
      <4> QED BY <2>2, <4>1, <4>2
    <3>2. CASE k = i + 1
      <4>1. CASE k = 1
        BY <3>0, <3>2, <4>1
      <4>2. CASE k # 1
        <5>1. i \in 1..i /\ i \in 1..(i+1) /\ f[i] \in Seq(X) /\ g[i] = f[i] /\ k - 1 = i /\ ~(k <= i)
          BY <2>2, <3>0, <3>2, <4>2
        <5>2. g[k] = f[i] \o ss[k]
          BY <4>2, <5>1
        <5>3. next(g, i + 1)[k] = g[i] \o ss[k]
          BY <4>2, <5>1
        <5>4. f[i] \o ss[k] \in Seq(X)
          BY <3>0, <5>1
        <5> QED BY <5>1, <5>2, <5>3, <5>4
      <4> QED BY <4>1, <4>2
    <3> QED BY <3>0, <3>1, <3>2
  <2>4. g \in [1..(i + 1) -> Seq(X)]
    BY <2>3
  <2>5. g = next(g, i + 1)
    BY <2>3
  <2> QED BY <2>4, <2>5
<1>3. G(n) # {}
  <2>1. \A i \in Nat : i \in I
    <3> HIDE DEF I
    <3> QED BY <1>1, <1>2, Induction
  <2> HIDE DEF G
  <2> QED BY <1>0, <2>1
<1>4. CASE n = 0
  <2>1. ss = <<>> /\ FlattenSeq(ss) = ss
    BY <1>4 DEF FlattenSeq
  <2> DEFINE f == [k \in 0..0 |-> ss]
  <2>2. f \in [0..n -> Seq(X)] /\ f[0] = <<>> /\ FlattenSeq(ss) = f[n]
    BY <1>4, <2>1
  <2>3. \A k \in 1..n : f[k] = f[k - 1] \o ss[k]
    BY <1>4
  <2> HIDE DEF f
  <2> QED BY <2>2, <2>3
<1>5. CASE n # 0
  <2> DEFINE flat == CHOOSE f : f = next(f, n)
  <2>1. FlattenSeq(ss) = flat[n]
    BY <1>5 DEF FlattenSeq
  <2>2. PICK h \in [1..n -> Seq(X)] : h = next(h, n)
    BY <1>3
  <2>3. flat = next(flat, n)
    <3> HIDE DEF next, n
    <3> QED BY <2>2
  <2> HIDE DEF flat
  <2> DEFINE J == {k \in Nat : k \in 1..n => flat[k] \in Seq(X)}
  <2>4. 0 \in J
    OBVIOUS
  <2>5. ASSUME NEW k \in Nat, k \in J PROVE k + 1 \in J
    <3>1. SUFFICES ASSUME k + 1 \in 1..n PROVE flat[k + 1] \in Seq(X)
      OBVIOUS
    <3>2. ss[k + 1] \in Seq(X)
      BY <1>0, <3>1
    <3>3. flat[k + 1] = IF k + 1 = 1 THEN ss[k + 1] ELSE flat[(k + 1) - 1] \o ss[k + 1]
      BY <2>3, <3>1
    <3>4. CASE k = 0
      BY <3>2, <3>3, <3>4
    <3>5. CASE k # 0
      <4>1. k \in 1..n /\ (k + 1) - 1 = k /\ k + 1 # 1
        BY <1>0, <3>1, <3>5
      <4>2. flat[k] \in Seq(X)
        BY <2>5, <4>1
      <4> QED BY <3>2, <3>3, <4>1, <4>2
    <3> QED BY <3>4, <3>5
  <2>6. \A k \in 1..n : flat[k] \in Seq(X)
    <3>1. \A k \in Nat : k \in J
      <4> HIDE DEF J
      <4> QED BY <2>4, <2>5, Induction
    <3> QED BY <1>0, <3>1
  <2> DEFINE f == [k \in 0..n |-> IF k = 0 THEN <<>> ELSE flat[k]]
  <2>7. f \in [0..n -> Seq(X)] /\ f[0] = <<>>
    BY <1>0, <2>6
  <2>8. ASSUME NEW k \in 1..n PROVE f[k] = f[k - 1] \o ss[k]
    <3>1. f[k] = flat[k] /\ k \in Nat /\ k - 1 \in 0..n /\ ss[k] \in Seq(X)
      BY <1>0
    <3>2. flat[k] = IF k = 1 THEN ss[k] ELSE flat[k - 1] \o ss[k]
      BY <2>3
    <3>3. CASE k = 1
      <4>1. f[k - 1] = <<>>
        BY <2>7, <3>3
      <4> QED BY <3>1, <3>2, <3>3, <4>1
    <3>4. CASE k # 1
      <4>1. f[k - 1] = flat[k - 1]
        BY <3>1, <3>4
      <4> QED BY <3>1, <3>2, <3>4, <4>1
    <3> QED BY <3>3, <3>4
  <2>9. FlattenSeq(ss) = f[n]
    BY <1>0, <1>5, <2>1
  <2> HIDE DEF f
  <2> QED BY <2>7, <2>8, <2>9
<1> QED BY <1>4, <1>5

LEMMA FlattenEmpty == FlattenSeq(<<>>) = <<>>
BY DEF FlattenSeq

(* One sequence more. *)
LEMMA FlattenAppend ==
  ASSUME NEW X, NEW ss \in Seq(Seq(X)), NEW s \in Seq(X)
  PROVE  /\ FlattenSeq(ss) \in Seq(X)
         /\ FlattenSeq(Append(ss, s)) = FlattenSeq(ss) \o s
<1> DEFINE n == Len(ss)
           tt == Append(ss, s)
<1>0. n \in Nat /\ tt \in Seq(Seq(X)) /\ Len(tt) = n + 1 /\ tt[n + 1] = s
      /\ \A k \in 1..n : tt[k] = ss[k]
  OBVIOUS
<1> HIDE DEF tt
<1>1. PICK f : /\ f \in [0..n -> Seq(X)] /\ f[0] = <<>>
               /\ \A k \in 1..n : f[k] = f[k - 1] \o ss[k]
               /\ FlattenSeq(ss) = f[n]
  BY FlattenSteps
<1>2. PICK g : /\ g \in [0..Len(tt) -> Seq(X)] /\ g[0] = <<>>
               /\ \A k \in 1..Len(tt) : g[k] = g[k - 1] \o tt[k]
               /\ FlattenSeq(tt) = g[Len(tt)]
  BY <1>0, FlattenSteps
<1> DEFINE I == {k \in Nat : k <= n => g[k] = f[k]}
<1>3. 0 \in I
  BY <1>1, <1>2
<1>4. ASSUME NEW k \in Nat, k \in I PROVE k + 1 \in I
  <2>1. SUFFICES ASSUME k + 1 <= n PROVE g[k + 1] = f[k + 1]
    OBVIOUS
  <2>2. k + 1 \in 1..n /\ k + 1 \in 1..Len(tt) /\ (k + 1) - 1 = k /\ k <= n
    <3>1. n \in Nat /\ Len(tt) = n + 1
      BY <1>0
    <3> HIDE DEF n
    <3> QED BY <2>1, <3>1
  <2>3. g[k] = f[k]
    BY <1>4, <2>2
  <2>4. f[k + 1] = f[k] \o ss[k + 1]
    BY <1>1, <2>2
  <2>5. g[k + 1] = g[k] \o tt[k + 1]
    BY <1>2, <2>2
  <2> QED BY <1>0, <2>2, <2>3, <2>4, <2>5
<1>5. g[n] = f[n]
  <2>1. n \in I
    <3> HIDE DEF I
    <3> QED BY <1>0, <1>3, <1>4, Induction
  <2> QED BY <1>0, <2>1
<1>6. g[n + 1] = g[n] \o s
  <2>1. n + 1 \in 1..Len(tt) /\ (n + 1) - 1 = n
    BY <1>0
  <2> QED BY <1>0, <1>2, <2>1
<1>7. f[n] \in Seq(X)
  BY SMTT(30), <1>0, <1>1
<1> QED BY <1>0, <1>1, <1>2, <1>5, <1>6, <1>7 DEF tt

(* The elements of two sequences together. *)
LEMMA ConcatElements ==
  ASSUME NEW X, NEW s \in Seq(X), NEW t \in Seq(X)
  PROVE  /\ s \o t \in Seq(X) /\ Len(s \o t) = Len(s) + Len(t)
         /\ \A i \in 1..Len(s) : (s \o t)[i] = s[i]
         /\ \A j \in 1..Len(t) : (s \o t)[Len(s) + j] = t[j]
OBVIOUS

(* The first k sequences put together, and how many elements they have. *)
FlatPrefix(ss, k) == FlattenSeq(SubSeq(ss, 1, k))
Before(ss, k) == Len(FlatPrefix(ss, k))

(* FlattenSeq, step by step. *)
LEMMA FlattenPrefixes ==
  ASSUME NEW X, NEW ss \in Seq(Seq(X))
  PROVE  /\ \A k \in 0..Len(ss) : FlatPrefix(ss, k) \in Seq(X)
         /\ FlatPrefix(ss, 0) = <<>> /\ FlatPrefix(ss, Len(ss)) = FlattenSeq(ss)
         /\ \A k \in 1..Len(ss) : FlatPrefix(ss, k) = FlatPrefix(ss, k - 1) \o ss[k]
<1> DEFINE n == Len(ss)
           F(k) == FlattenSeq(SubSeq(ss, 1, k))
<1>1. n \in Nat /\ \A k \in 1..n : ss[k] \in Seq(X)
  OBVIOUS
<1>2. ASSUME NEW k \in 0..n PROVE SubSeq(ss, 1, k) \in Seq(Seq(X))
  OBVIOUS
<1>3. ASSUME NEW k \in 0..n PROVE F(k) \in Seq(X)
  BY <1>2, FlattenAppend, <<>> \in Seq(X)
<1>4. F(0) = <<>>
  <2>1. SubSeq(ss, 1, 0) = <<>>
    OBVIOUS
  <2> QED BY <2>1, FlattenEmpty
<1>5. F(n) = FlattenSeq(ss)
  <2>1. SubSeq(ss, 1, n) = ss
    OBVIOUS
  <2> QED BY <2>1
<1>6. ASSUME NEW k \in 1..n PROVE F(k) = F(k - 1) \o ss[k]
  <2>1. SubSeq(ss, 1, k) = Append(SubSeq(ss, 1, k - 1), ss[k])
    BY <1>1
  <2>2. SubSeq(ss, 1, k - 1) \in Seq(Seq(X)) /\ ss[k] \in Seq(X)
    BY <1>1, <1>2
  <2> QED BY <2>1, <2>2, FlattenAppend
<1> QED BY <1>3, <1>4, <1>5, <1>6 DEF FlatPrefix

(* In s, the sequences of ss follow each other: where each element goes. *)
Placed(X, ss, s) ==
  /\ s \in Seq(X) /\ Len(s) = Before(ss, Len(ss))
  /\ Before(ss, 0) = 0 /\ \A k \in 0..Len(ss) : Before(ss, k) \in Nat
  /\ \A k \in 1..Len(ss) : Before(ss, k) = Before(ss, k - 1) + Len(ss[k])
  /\ \A j, k \in 0..Len(ss) : j <= k => Before(ss, j) <= Before(ss, k)
  /\ \A k \in 1..Len(ss) : \A j \in 1..Len(ss[k]) :
       Before(ss, k - 1) + j \in 1..Len(s) /\ s[Before(ss, k - 1) + j] = ss[k][j]
  /\ \A i \in 1..Len(s) : \E k \in 1..Len(ss) : \E j \in 1..Len(ss[k]) : i = Before(ss, k - 1) + j

LEMMA FlattenPlaces ==
  ASSUME NEW X, NEW ss \in Seq(Seq(X))
  PROVE  Placed(X, ss, FlattenSeq(ss))
<1> DEFINE n == Len(ss)
           f == [k \in 0..n |-> FlatPrefix(ss, k)]
           B(k) == Before(ss, k)
<1>1. n \in Nat /\ \A k \in 1..n : ss[k] \in Seq(X) /\ Len(ss[k]) \in Nat
  OBVIOUS
<1>2. /\ f \in [0..n -> Seq(X)] /\ f[0] = <<>> /\ FlattenSeq(ss) = f[n]
      /\ \A k \in 1..n : f[k] = f[k - 1] \o ss[k]
      /\ \A k \in 0..n : B(k) = Len(f[k])
  <2>1. f \in [0..n -> Seq(X)]
    BY FlattenPrefixes
  <2>2. f[0] = <<>> /\ FlattenSeq(ss) = f[n]
    <3>1. f[0] = FlatPrefix(ss, 0) /\ f[n] = FlatPrefix(ss, n)
      BY <1>1
    <3> QED BY <3>1, FlattenPrefixes
  <2>3. ASSUME NEW k \in 1..n PROVE f[k] = f[k - 1] \o ss[k]
    <3>1. k \in 0..n /\ k - 1 \in 0..n
      BY <1>1
    <3>2. f[k] = FlatPrefix(ss, k) /\ f[k - 1] = FlatPrefix(ss, k - 1)
      BY <3>1
    <3> QED BY <3>2, FlattenPrefixes
  <2>4. \A k \in 0..n : B(k) = Len(f[k])
    BY DEF Before
  <2> QED BY <2>1, <2>2, <2>3, <2>4
<1> HIDE DEF f
<1>3. \A k \in 0..n : f[k] \in Seq(X) /\ B(k) = Len(f[k]) /\ B(k) \in Nat
  <2> TAKE k \in 0..n
  <2>1. f[k] \in Seq(X) /\ B(k) = Len(f[k])
    BY <1>2
  <2>2. Len(f[k]) \in Nat
    BY <2>1
  <2> QED BY <2>1, <2>2
<1> HIDE DEF B
<1>4. B(0) = 0
  <2>1. 0 \in 0..n
    BY <1>1
  <2> QED BY <1>2, <1>3, <2>1
<1>5. ASSUME NEW k \in 1..n
      PROVE  /\ k \in 0..n /\ k - 1 \in 0..n /\ B(k) = B(k - 1) + Len(ss[k])
             /\ f[k] = f[k - 1] \o ss[k] /\ f[k - 1] \in Seq(X) /\ ss[k] \in Seq(X)
  <2>1. k \in 0..n /\ k - 1 \in 0..n
    BY <1>1
  <2>2. f[k] = f[k - 1] \o ss[k] /\ f[k - 1] \in Seq(X) /\ ss[k] \in Seq(X)
    BY <1>1, <1>2, <1>3, <2>1
  <2>3. Len(f[k]) = Len(f[k - 1]) + Len(ss[k])
    BY <2>2
  <2> QED BY <1>3, <2>1, <2>2, <2>3
<1>6. ASSUME NEW j \in 0..n
      PROVE  \A k \in j..n : B(j) <= B(k) /\ \A i \in 1..B(j) : f[k][i] = f[j][i]
  <2> DEFINE Same(k) == B(j) <= B(k) /\ \A i \in 1..B(j) : f[k][i] = f[j][i]
             I == {d \in Nat : j + d <= n => Same(j + d)}
  <2>1. 0 \in I
    BY <1>3
  <2>2. ASSUME NEW d \in Nat, d \in I PROVE d + 1 \in I
    <3>1. SUFFICES ASSUME j + (d + 1) <= n PROVE Same(j + (d + 1))
      OBVIOUS
    <3> DEFINE k == j + d + 1
    <3>2. k \in 1..n /\ k - 1 = j + d /\ k = j + (d + 1) /\ j + d <= n
      BY <1>1, <3>1
    <3>3. Same(j + d)
      BY <2>2, <3>2
    <3> HIDE DEF k
    <3>4. /\ B(k) = B(k - 1) + Len(ss[k]) /\ f[k] = f[k - 1] \o ss[k]
          /\ f[k - 1] \in Seq(X) /\ ss[k] \in Seq(X) /\ k - 1 \in 0..n
      BY <1>5, <3>2
    <3>5. B(k - 1) = Len(f[k - 1]) /\ B(k - 1) \in Nat /\ B(j) \in Nat /\ Len(ss[k]) \in Nat
      BY <1>3, <3>4
    <3>6. B(j) <= B(k - 1) /\ \A i \in 1..B(j) : f[k - 1][i] = f[j][i]
      BY <3>2, <3>3
    <3>7. B(j) <= B(k)
      BY <3>4, <3>5, <3>6
    <3>8. ASSUME NEW i \in 1..B(j) PROVE f[k][i] = f[k - 1][i]
      <4>1. i \in 1..Len(f[k - 1])
        BY <3>5, <3>6
      <4>2. (f[k - 1] \o ss[k])[i] = f[k - 1][i]
        BY ZenonT(40), <3>4, <4>1, ConcatElements
      <4> QED BY <3>4, <4>2
    <3>9. Same(k)
      BY <3>6, <3>7, <3>8
    <3> QED BY <3>2, <3>9
  <2>3. \A d \in Nat : d \in I
    <3> HIDE DEF I
    <3> QED BY <2>1, <2>2, Induction
  <2> TAKE k \in j..n
  <2>4. k - j \in Nat /\ j + (k - j) = k /\ k <= n
    BY <1>1
  <2>5. k - j \in I
    BY <2>3, <2>4
  <2> QED BY <2>4, <2>5
<1>7. ASSUME NEW k \in 1..n, NEW j \in 1..Len(ss[k])
      PROVE  B(k - 1) + j \in 1..B(n) /\ f[n][B(k - 1) + j] = ss[k][j]
  <2>1. k \in 0..n /\ n \in k..n /\ B(k) <= B(n) /\ B(k) \in Nat /\ B(n) \in Nat /\ B(k - 1) \in Nat
    <3>1. k \in 0..n /\ n \in k..n /\ k - 1 \in 0..n /\ n \in 0..n
      BY <1>1
    <3> QED BY <1>3, <1>6, <3>1
  <2>2. B(k - 1) + j \in 1..B(k) /\ Len(ss[k]) \in Nat
    <3>1. B(k) = B(k - 1) + Len(ss[k]) /\ Len(ss[k]) \in Nat /\ B(k - 1) \in Nat
      BY <1>1, <1>5, <2>1
    <3> QED BY <3>1
  <2>3. f[n][B(k - 1) + j] = f[k][B(k - 1) + j]
    BY <1>6, <2>1, <2>2
  <2>4. f[k][B(k - 1) + j] = ss[k][j]
    <3>1. f[k] = f[k - 1] \o ss[k] /\ f[k - 1] \in Seq(X) /\ ss[k] \in Seq(X) /\ Len(f[k - 1]) = B(k - 1)
      BY <1>3, <1>5
    <3> DEFINE a == f[k - 1]
               b == ss[k]
    <3>2. a \in Seq(X) /\ b \in Seq(X) /\ j \in 1..Len(b)
      BY <3>1
    <3> HIDE DEF a, b
    <3>4. (a \o b)[Len(a) + j] = b[j]
      BY <3>2, ConcatElements
    <3>3. (f[k - 1] \o ss[k])[Len(f[k - 1]) + j] = ss[k][j]
      BY <3>4 DEF a, b
    <3> QED BY <3>1, <3>3
  <2> QED BY <2>1, <2>2, <2>3, <2>4
<1>8. \A i \in 1..B(n) : \E k \in 1..n : \E j \in 1..Len(ss[k]) : i = B(k - 1) + j
  <2> DEFINE I == {m \in Nat : m <= n => \A i \in 1..B(m) : \E k \in 1..n : \E j \in 1..Len(ss[k]) : i = B(k - 1) + j}
  <2>1. 0 \in I
    BY <1>4
  <2>2. ASSUME NEW m \in Nat, m \in I PROVE m + 1 \in I
    <3>1. SUFFICES ASSUME m + 1 <= n, NEW i \in 1..B(m + 1)
                   PROVE  \E k \in 1..n : \E j \in 1..Len(ss[k]) : i = B(k - 1) + j
      OBVIOUS
    <3>2. m + 1 \in 1..n /\ (m + 1) - 1 = m /\ m \in 0..n /\ m <= n
      BY <1>1, <3>1
    <3>3. B(m + 1) = B(m) + Len(ss[m + 1]) /\ B(m) \in Nat /\ Len(ss[m + 1]) \in Nat
      BY <1>1, <1>3, <1>5, <3>2
    <3>4. CASE i <= B(m)
      <4>1. i \in 1..B(m)
        BY <3>3, <3>4
      <4> QED BY <2>2, <3>2, <4>1
    <3>5. CASE i > B(m)
      <4>1. i - B(m) \in 1..Len(ss[m + 1]) /\ i = B((m + 1) - 1) + (i - B(m))
        BY <3>2, <3>3, <3>5
      <4> QED BY <3>2, <4>1
    <3> QED BY <3>3, <3>4, <3>5
  <2>3. n \in I
    <3> HIDE DEF I
    <3> QED BY <1>1, <2>1, <2>2, Induction
  <2> QED BY <1>1, <2>3
<1>9. FlattenSeq(ss) \in Seq(X) /\ Len(FlattenSeq(ss)) = B(n)
  BY <1>1, <1>2, <1>3
<1>10. \A j, k \in 0..n : j <= k => B(j) <= B(k)
  <2> TAKE j, k \in 0..n
  <2>1. j <= k => k \in j..n
    BY <1>1
  <2> QED BY <1>6, <2>1
<1> QED BY ZenonT(40), <1>2, <1>3, <1>4, <1>5, <1>7, <1>8, <1>9, <1>10 DEF B, Placed

(* The next sequence begins at place at, and is b. *)
PartAt(ss, k, at, b) ==
  /\ at \in Nat /\ Len(b) \in Nat /\ Before(ss, k) = at + Len(b)
  /\ \A j \in 1..Len(b) : FlattenSeq(ss)[at + j] = b[j]

LEMMA NextPart ==
  ASSUME NEW X, NEW ss \in Seq(Seq(X)), NEW k \in 1..Len(ss), NEW m, m = k - 1, NEW at, Before(ss, m) = at,
         NEW b, ss[k] = b
  PROVE  PartAt(ss, k, at, b)
<1>1. Placed(X, ss, FlattenSeq(ss))
  BY FlattenPlaces
<1>2. b \in Seq(X) /\ Len(b) \in Nat
  OBVIOUS
<1>3. at \in Nat
  <2>1. m \in 0..Len(ss)
    OBVIOUS
  <2> QED BY <1>1, <2>1 DEF Placed
<1>4. Before(ss, k) = at + Len(b)
  BY <1>1 DEF Placed
<1>5. \A j \in 1..Len(b) : FlattenSeq(ss)[at + j] = b[j]
  BY <1>1 DEF Placed
<1> QED BY <1>2, <1>3, <1>4, <1>5 DEF PartAt

LEMMA AllParts ==
  ASSUME NEW X, NEW ss \in Seq(Seq(X))
  PROVE  Before(ss, 0) = 0 /\ FlattenSeq(ss) \in Seq(X) /\ Len(FlattenSeq(ss)) = Before(ss, Len(ss))
BY FlattenPlaces DEF Placed

(* Sequences of one length. *)
LEMMA FlattenEqual ==
  ASSUME NEW X, NEW ss \in Seq(Seq(X)), NEW c \in Nat, \A k \in 1..Len(ss) : Len(ss[k]) = c
  PROVE  \A k \in 0..Len(ss) : Before(ss, k) = c * k
<1> DEFINE n == Len(ss)
           I == {k \in Nat : k <= n => Before(ss, k) = c * k}
<1>1. n \in Nat
  OBVIOUS
<1> HIDE DEF n
<1>2. Before(ss, 0) = 0 /\ \A k \in 1..n : Before(ss, k) = Before(ss, k - 1) + c
  BY FlattenPlaces DEF n, Placed
<1>3. 0 \in I
  BY <1>2
<1>4. ASSUME NEW k \in Nat, k \in I PROVE k + 1 \in I
  <2>1. SUFFICES ASSUME k + 1 <= n PROVE Before(ss, k + 1) = c * (k + 1)
    OBVIOUS
  <2>2. k + 1 \in 1..n /\ (k + 1) - 1 = k /\ k <= n
    BY <1>1, <2>1
  <2>3. Before(ss, k + 1) = Before(ss, k) + c /\ Before(ss, k) = c * k
    BY <1>2, <1>4, <2>2
  <2>4. c * (k + 1) = c * k + c
    OBVIOUS
  <2> QED BY <2>3, <2>4
<1> HIDE DEF I
<1>5. \A k \in Nat : k \in I
  BY <1>3, <1>4, Induction
<1> QED BY <1>1, <1>5 DEF I, n

(* Sequences that are nowhere shorter are not shorter together. *)
LEMMA FlattenLonger ==
  ASSUME NEW X, NEW ss \in Seq(Seq(X)), NEW tt \in Seq(Seq(X)), Len(ss) = Len(tt),
         \A k \in 1..Len(ss) : Len(ss[k]) <= Len(tt[k])
  PROVE  Len(FlattenSeq(ss)) <= Len(FlattenSeq(tt))
<1> DEFINE n == Len(ss)
           I == {k \in Nat : k <= n => Before(ss, k) <= Before(tt, k)}
<1>1. n \in Nat /\ n = Len(tt) /\ \A k \in 1..n : Len(ss[k]) \in Nat /\ Len(tt[k]) \in Nat
  OBVIOUS
<1> HIDE DEF n
<1>2. /\ Before(ss, 0) = 0 /\ Before(tt, 0) = 0
      /\ \A k \in 0..n : Before(ss, k) \in Nat /\ Before(tt, k) \in Nat
      /\ \A k \in 1..n : /\ Before(ss, k) = Before(ss, k - 1) + Len(ss[k])
                        /\ Before(tt, k) = Before(tt, k - 1) + Len(tt[k])
      /\ Len(FlattenSeq(ss)) = Before(ss, n) /\ Len(FlattenSeq(tt)) = Before(tt, n)
  BY <1>1, FlattenPlaces DEF n, Placed
<1>3. 0 \in I
  BY <1>2
<1>4. ASSUME NEW k \in Nat, k \in I PROVE k + 1 \in I
  <2>1. SUFFICES ASSUME k + 1 <= n PROVE Before(ss, k + 1) <= Before(tt, k + 1)
    OBVIOUS
  <2>2. k + 1 \in 1..n /\ (k + 1) - 1 = k /\ k \in 0..n /\ k <= n
    BY <1>1, <2>1
  <2>3. /\ Before(ss, k + 1) = Before(ss, k) + Len(ss[k + 1])
        /\ Before(tt, k + 1) = Before(tt, k) + Len(tt[k + 1])
        /\ Before(ss, k) \in Nat /\ Before(tt, k) \in Nat
        /\ Len(ss[k + 1]) \in Nat /\ Len(tt[k + 1]) \in Nat
    BY <1>1, <1>2, <2>2
  <2>4. Len(ss[k + 1]) <= Len(tt[k + 1])
    BY <2>2 DEF n
  <2>5. Before(ss, k) <= Before(tt, k)
    BY <1>4, <2>2
  <2> QED BY <2>3, <2>4, <2>5
<1>5. n \in I
  <2> HIDE DEF I
  <2> QED BY <1>1, <1>3, <1>4, Induction
<1> QED BY <1>1, <1>2, <1>5

(* One element more in each of them. *)
LEMMA FlattenOneMore ==
  ASSUME NEW X, NEW ss \in Seq(Seq(X)), NEW tt \in Seq(Seq(X)), Len(ss) = Len(tt),
         \A k \in 1..Len(ss) : Len(ss[k]) = 1 + Len(tt[k])
  PROVE  Len(FlattenSeq(ss)) = Len(ss) + Len(FlattenSeq(tt))
<1> DEFINE n == Len(ss)
           I == {k \in Nat : k <= n => Before(ss, k) = k + Before(tt, k)}
<1>1. n \in Nat /\ n = Len(tt) /\ \A k \in 1..n : Len(ss[k]) \in Nat /\ Len(tt[k]) \in Nat
  OBVIOUS
<1> HIDE DEF n
<1>2. /\ Before(ss, 0) = 0 /\ Before(tt, 0) = 0
      /\ \A k \in 0..n : Before(ss, k) \in Nat /\ Before(tt, k) \in Nat
      /\ \A k \in 1..n : /\ Before(ss, k) = Before(ss, k - 1) + Len(ss[k])
                        /\ Before(tt, k) = Before(tt, k - 1) + Len(tt[k])
      /\ Len(FlattenSeq(ss)) = Before(ss, n) /\ Len(FlattenSeq(tt)) = Before(tt, n)
  BY <1>1, FlattenPlaces DEF n, Placed
<1>3. 0 \in I
  BY <1>2
<1>4. ASSUME NEW k \in Nat, k \in I PROVE k + 1 \in I
  <2>1. SUFFICES ASSUME k + 1 <= n PROVE Before(ss, k + 1) = (k + 1) + Before(tt, k + 1)
    OBVIOUS
  <2>2. k + 1 \in 1..n /\ (k + 1) - 1 = k /\ k \in 0..n /\ k <= n
    BY <1>1, <2>1
  <2>3. /\ Before(ss, k + 1) = Before(ss, k) + Len(ss[k + 1])
        /\ Before(tt, k + 1) = Before(tt, k) + Len(tt[k + 1])
        /\ Before(ss, k) \in Nat /\ Before(tt, k) \in Nat
        /\ Len(ss[k + 1]) \in Nat /\ Len(tt[k + 1]) \in Nat
    BY <1>1, <1>2, <2>2
  <2>4. Len(ss[k + 1]) = 1 + Len(tt[k + 1])
    BY <2>2 DEF n
  <2>5. Before(ss, k) = k + Before(tt, k)
    BY <1>4, <2>2
  <2> DEFINE a == Before(ss, k)
             b == Before(tt, k)
             la == Len(ss[k + 1])
             lb == Len(tt[k + 1])
  <2>6. a \in Nat /\ b \in Nat /\ la \in Nat /\ lb \in Nat /\ a = k + b /\ la = 1 + lb
    BY <2>3, <2>4, <2>5
  <2> HIDE DEF a, b, la, lb
  <2>7. a + la = (k + 1) + (b + lb)
    BY <2>6
  <2> QED BY <2>3, <2>7 DEF a, b, la, lb
<1>5. n \in I
  <2> HIDE DEF I
  <2> QED BY <1>1, <1>3, <1>4, Induction
<1> QED BY <1>1, <1>2, <1>5 DEF n

-----------------------------------------------------------------------------
(* Running sums.                                                           *)

(* The running sum, step by step. *)
LEMMA SumSteps ==
  ASSUME NEW s \in Seq(Nat)
  PROVE  /\ SumOfFirst(s) \in [0..Len(s) -> Nat] /\ SumOfFirst(s)[0] = 0
         /\ \A k \in 1..Len(s) : SumOfFirst(s)[k] = SumOfFirst(s)[k - 1] + s[k]
<1> DEFINE n == Len(s)
           next(f, m) == [k \in 0..m |-> IF k = 0 THEN 0 ELSE f[k - 1] + s[k]]
           I == {m \in Nat : m <= n => \E f \in [0..m -> Nat] : f = next(f, m)}
<1>1. n \in Nat /\ \A k \in 1..n : s[k] \in Nat
  OBVIOUS
<1>2. 0 \in I
  <2>1. [k \in 0..0 |-> 0] = next([k \in 0..0 |-> 0], 0)
    OBVIOUS
  <2> QED BY <2>1
<1>3. ASSUME NEW m \in Nat, m \in I PROVE m + 1 \in I
  <2>1. SUFFICES ASSUME m + 1 <= n PROVE \E f \in [0..(m + 1) -> Nat] : f = next(f, m + 1)
    <3> HIDE DEF n, next
    <3> QED OBVIOUS
  <2>2. PICK f \in [0..m -> Nat] : f = next(f, m)
    <3>1. m <= n
      BY <1>1, <2>1
    <3> QED BY <1>3, <3>1
  <2> DEFINE g == [k \in 0..(m + 1) |-> IF k <= m THEN f[k] ELSE f[m] + s[k]]
  <2>3. ASSUME NEW k \in 0..(m + 1) PROVE g[k] \in Nat /\ g[k] = next(g, m + 1)[k]
    <3>1. CASE k <= m
      <4>1. k \in 0..m /\ g[k] = f[k] /\ f[k] \in Nat
        BY <3>1
      <4>2. f[k] = IF k = 0 THEN 0 ELSE f[k - 1] + s[k]
        BY <2>2, <4>1
      <4>3. k # 0 => g[k - 1] = f[k - 1]
        BY <4>1
      <4> QED BY <4>1, <4>2, <4>3
    <3>2. CASE k = m + 1
      <4>1. g[k] = f[m] + s[k] /\ g[k - 1] = f[m] /\ k # 0
        BY <3>2
      <4>2. f[m] \in Nat /\ s[k] \in Nat
        BY <1>1, <2>1, <3>2
      <4> QED BY <4>1, <4>2
    <3> QED BY <3>1, <3>2
  <2>4. g \in [0..(m + 1) -> Nat] /\ g = next(g, m + 1)
    BY <2>3
  <2> QED BY <2>4
<1>4. PICK h \in [0..n -> Nat] : h = next(h, n)
  <2>1. n \in I
    <3> HIDE DEF I
    <3> QED BY <1>1, <1>2, <1>3, Induction
  <2> QED BY <1>1, <2>1
<1> DEFINE sum == SumOfFirst(s)
<1>5. sum = next(sum, n)
  <2>1. sum = CHOOSE f : f = next(f, n)
    BY DEF SumOfFirst
  <2> HIDE DEF next, n, sum
  <2> QED BY <1>4, <2>1
<1> HIDE DEF sum
<1>6. sum[0] = 0 /\ \A k \in 1..n : sum[k] = sum[k - 1] + s[k]
  <2>1. \A k \in 0..n : sum[k] = IF k = 0 THEN 0 ELSE sum[k - 1] + s[k]
    BY <1>5
  <2> QED BY <1>1, <2>1
<1>7. \A k \in 0..n : sum[k] \in Nat
  <2> DEFINE J == {k \in Nat : k <= n => sum[k] \in Nat}
  <2>1. 0 \in J
    BY <1>6
  <2>2. ASSUME NEW k \in Nat, k \in J PROVE k + 1 \in J
    <3>1. SUFFICES ASSUME k + 1 <= n PROVE sum[k + 1] \in Nat
      OBVIOUS
    <3>2. k + 1 \in 1..n /\ (k + 1) - 1 = k /\ k <= n
      BY <1>1, <3>1
    <3>3. sum[k] \in Nat /\ s[k + 1] \in Nat /\ sum[k + 1] = sum[k] + s[k + 1]
      BY <1>1, <1>6, <2>2, <3>2
    <3> QED BY <3>3
  <2>3. \A k \in Nat : k \in J
    <3> HIDE DEF J
    <3> QED BY <2>1, <2>2, Induction
  <2> QED BY <2>3
<1>8. sum \in [0..n -> Nat]
  <2>1. sum = [k \in 0..n |-> sum[k]]
    BY <1>5
  <2> QED BY <1>7, <2>1
<1> QED BY <1>6, <1>8 DEF sum

(* Running sums never fall, and rise over an element that is not 0. *)
LEMMA SumRises ==
  ASSUME NEW s \in Seq(Nat), NEW j \in 0..Len(s), NEW k \in 0..Len(s), j <= k
  PROVE  /\ SumOfFirst(s)[j] \in Nat /\ SumOfFirst(s)[k] \in Nat
         /\ SumOfFirst(s)[j] <= SumOfFirst(s)[k]
         /\ j < k => SumOfFirst(s)[j] + s[j + 1] <= SumOfFirst(s)[k]
<1> DEFINE sum == SumOfFirst(s)
           n == Len(s)
<1>1. /\ n \in Nat /\ \A i \in 1..n : s[i] \in Nat
      /\ \A i \in 0..n : sum[i] \in Nat
      /\ \A i \in 1..n : sum[i] = sum[i - 1] + s[i]
  <2>1. n \in Nat /\ \A i \in 1..n : s[i] \in Nat
    OBVIOUS
  <2>2. sum \in [0..n -> Nat] /\ \A i \in 1..n : sum[i] = sum[i - 1] + s[i]
    BY SumSteps
  <2> HIDE DEF sum, n
  <2> QED BY <2>1, <2>2
<1> HIDE DEF sum, n
<1>2. ASSUME NEW i \in 0..n PROVE \A d \in Nat : i + d <= n => sum[i] <= sum[i + d]
  <2> DEFINE J == {d \in Nat : i + d <= n => sum[i] <= sum[i + d]}
  <2>1. 0 \in J
    BY <1>1
  <2>2. ASSUME NEW d \in Nat, d \in J PROVE d + 1 \in J
    <3>1. SUFFICES ASSUME i + (d + 1) <= n PROVE sum[i] <= sum[i + (d + 1)]
      OBVIOUS
    <3> DEFINE e == i + (d + 1)
    <3>2. e \in 1..n /\ e - 1 = i + d /\ i + d <= n /\ e - 1 \in 0..n
      BY <1>1, <3>1
    <3>3. sum[i] <= sum[e - 1]
      BY <2>2, <3>2
    <3> HIDE DEF e
    <3>4. sum[e] = sum[e - 1] + s[e] /\ s[e] \in Nat /\ sum[e - 1] \in Nat /\ sum[i] \in Nat
      BY <1>1, <3>2
    <3>5. sum[i] <= sum[e]
      BY <3>3, <3>4
    <3> QED BY <3>5 DEF e
  <2> HIDE DEF J
  <2>3. \A d \in Nat : d \in J
    BY <2>1, <2>2, Induction
  <2> QED BY <2>3 DEF J
<1>3. j \in 0..n /\ k \in 0..n /\ k - j \in Nat /\ j + (k - j) = k /\ k <= n
  BY <1>1 DEF n
<1>4. sum[j] <= sum[k] /\ sum[j] \in Nat /\ sum[k] \in Nat
  BY <1>1, <1>2, <1>3
<1>5. ASSUME j < k PROVE sum[j] + s[j + 1] <= sum[k]
  <2>1. j + 1 \in 0..n /\ j + 1 \in 1..n /\ k - (j + 1) \in Nat /\ (j + 1) + (k - (j + 1)) = k /\ (j + 1) - 1 = j
    BY <1>1, <1>3, <1>5
  <2>2. sum[j + 1] <= sum[k]
    BY <1>2, <1>3, <2>1
  <2>3. sum[j + 1] = sum[j] + s[j + 1]
    BY <1>1, <2>1
  <2> QED BY <2>2, <2>3
<1> QED BY <1>4, <1>5 DEF sum

(* The running sum of two sequences together. *)
LEMMA SumConcat ==
  ASSUME NEW s \in Seq(Nat), NEW t \in Seq(Nat)
  PROVE  /\ \A k \in 0..Len(s) : SumOfFirst(s \o t)[k] = SumOfFirst(s)[k]
         /\ \A k \in 0..Len(t) : SumOfFirst(s \o t)[Len(s) + k] = Total(s) + SumOfFirst(t)[k]
         /\ Total(s \o t) = Total(s) + Total(t) /\ Total(s) \in Nat /\ Total(t) \in Nat
<1> DEFINE u == s \o t
           m == Len(s)
           n == Len(t)
           S == SumOfFirst(s)
           T == SumOfFirst(t)
           U == SumOfFirst(u)
<1>1. /\ m \in Nat /\ n \in Nat /\ u \in Seq(Nat) /\ Len(u) = m + n
      /\ \A i \in 1..m : u[i] = s[i] /\ s[i] \in Nat
      /\ \A i \in 1..n : u[m + i] = t[i] /\ t[i] \in Nat
  OBVIOUS
<1>2. /\ S[0] = 0 /\ T[0] = 0 /\ U[0] = 0
      /\ \A i \in 0..m : S[i] \in Nat
      /\ \A i \in 0..n : T[i] \in Nat
      /\ \A i \in 1..m : S[i] = S[i - 1] + s[i]
      /\ \A i \in 1..n : T[i] = T[i - 1] + t[i]
      /\ \A i \in 1..(m + n) : U[i] = U[i - 1] + u[i]
  <2>1. /\ S[0] = 0 /\ \A i \in 0..m : S[i] \in Nat
        /\ \A i \in 1..m : S[i] = S[i - 1] + s[i]
    BY SumSteps
  <2>2. /\ T[0] = 0 /\ \A i \in 0..n : T[i] \in Nat
        /\ \A i \in 1..n : T[i] = T[i - 1] + t[i]
    BY SumSteps
  <2> HIDE DEF u
  <2>3. U[0] = 0 /\ \A i \in 1..(m + n) : U[i] = U[i - 1] + u[i]
    BY <1>1, SumSteps
  <2> QED BY <2>1, <2>2, <2>3
<1> HIDE DEF u, m, n, S, T, U
<1> DEFINE I == {k \in Nat : k <= m => U[k] = S[k]}
           J == {k \in Nat : k <= n => U[m + k] = S[m] + T[k]}
<1>3. 0 \in I
  BY <1>2
<1>4. ASSUME NEW k \in Nat, k \in I PROVE k + 1 \in I
  <2>1. SUFFICES ASSUME k + 1 <= m PROVE U[k + 1] = S[k + 1]
    OBVIOUS
  <2>2. k + 1 \in 1..m /\ k + 1 \in 1..(m + n) /\ (k + 1) - 1 = k /\ k <= m
    BY <1>1, <2>1
  <2> QED BY <1>1, <1>2, <1>4, <2>2
<1>5. \A k \in 0..m : U[k] = S[k]
  <2>1. \A k \in Nat : k \in I
    <3> HIDE DEF I
    <3> QED BY <1>3, <1>4, Induction
  <2> QED BY <1>1, <2>1
<1>6. 0 \in J
  <2>1. m \in 0..m /\ m + 0 = m /\ S[m] \in Nat
    BY <1>1, <1>2
  <2>2. U[m + 0] = S[m] + 0
    BY <1>5, <2>1
  <2> QED BY <1>2, <2>2
<1>7. ASSUME NEW k \in Nat, k \in J PROVE k + 1 \in J
  <2>1. SUFFICES ASSUME k + 1 <= n PROVE U[m + (k + 1)] = S[m] + T[k + 1]
    OBVIOUS
  <2>2. /\ k + 1 \in 1..n /\ m + (k + 1) \in 1..(m + n) /\ (k + 1) - 1 = k
        /\ (m + (k + 1)) - 1 = m + k /\ k <= n /\ m \in 0..m /\ k \in 0..n
    BY <1>1, <2>1
  <2>3. U[m + k] = S[m] + T[k]
    BY <1>7, <2>2
  <2>4. U[m + (k + 1)] = U[m + k] + t[k + 1] /\ T[k + 1] = T[k] + t[k + 1]
    BY <1>1, <1>2, <2>2
  <2>5. S[m] \in Nat /\ T[k] \in Nat /\ t[k + 1] \in Nat
    BY <1>1, <1>2, <2>2
  <2>6. U[m + (k + 1)] = (S[m] + T[k]) + t[k + 1]
    BY <2>3, <2>4
  <2> QED BY <2>4, <2>5, <2>6
<1>8. \A k \in 0..n : U[m + k] = S[m] + T[k]
  <2>1. \A k \in Nat : k \in J
    <3> HIDE DEF I, J
    <3> QED BY <1>6, <1>7, Induction
  <2> QED BY <1>1, <2>1
<1>9. Total(s) = S[m] /\ Total(t) = T[n] /\ Total(u) = U[m + n] /\ S[m] \in Nat /\ T[n] \in Nat
  BY <1>1, <1>2 DEF Total, S, T, U, m, n
<1>10. U[m + n] = S[m] + T[n]
  BY <1>1, <1>8
<1> QED BY <1>5, <1>8, <1>9, <1>10 DEF u, m, n, S, T, U
=============================================================================
