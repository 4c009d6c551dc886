----------------------------- MODULE BytesProofs ----------------------------
(***************************************************************************)
(* Numbers in bytes: that U32 undoes BE32, and that vwiDec undoes          *)
(* vwiEncInt, whatever bytes follow.                                       *)
(***************************************************************************)
EXTENDS Vwi, SequenceLemmas

-----------------------------------------------------------------------------
(* Numbers of four bytes.                                                  *)

LEMMA Base256 ==
  ASSUME NEW n \in Nat
  PROVE  /\ n \div 256 \in Nat /\ n % 256 \in Byte /\ (n \div 256) % 256 \in Byte
         /\ n < Short => ((n \div 256) % 256) * 256 + (n % 256) = n
<1>1. n \div 256 \in Nat /\ n % 256 \in Byte /\ n = 256 * (n \div 256) + (n % 256)
  BY DEF Byte
<1>2. (n \div 256) % 256 \in Byte
  BY <1>1 DEF Byte
<1>3. n < Short => n \div 256 < 256
  BY <1>1 DEF Byte, Short
<1>4. n < Short => (n \div 256) % 256 = n \div 256
  BY <1>1, <1>3
<1> QED BY <1>1, <1>2, <1>4

LEMMA Division ==
  ASSUME NEW n \in Nat, NEW d \in Nat, d > 0
  PROVE  n \div d \in Nat /\ n % d \in 0..(d - 1) /\ n = d * (n \div d) + (n % d)
OBVIOUS

(* Of two numbers the greater has the greater quotient. *)
LEMMA Quotients ==
  ASSUME NEW h \in Nat, NEW m \in Nat, NEW r \in Nat, NEW s \in Nat, NEW d \in Nat,
         d * h + r <= d * m + s, s < d
  PROVE  h <= m
<1>1. SUFFICES ASSUME h >= m + 1 PROVE FALSE
  OBVIOUS
<1>2. d * h >= d * (m + 1)
  BY <1>1
<1>3. d * (m + 1) = d * m + d
  OBVIOUS
<1>4. d * h \in Nat /\ d * m \in Nat
  OBVIOUS
<1> QED BY <1>2, <1>3, <1>4

LEMMA ShortIs == Short \in Nat /\ Short > 0 /\ Short = 256 * 256
BY DEF Short

LEMMA BaseShort ==
  ASSUME NEW n \in Nat
  PROVE  /\ n \div Short \in Nat /\ n % Short \in 0..(Short - 1) /\ n = Short * (n \div Short) + (n % Short)
         /\ (n \div 256) % 256 = ((n % Short) \div 256) % 256 /\ n % 256 = (n % Short) % 256
<1> DEFINE q == n \div Short
           r == n % Short
<1>1. q \in Nat /\ r \in 0..(Short - 1) /\ n = Short * q + r
  <2>1. Short \in Nat /\ Short > 0
    BY ShortIs
  <2> QED BY <2>1, Division
<1> HIDE DEF q, r
<1>2. n % 256 = r % 256 /\ n \div 256 = 256 * q + (r \div 256)
  BY <1>1, SMTT(60) DEF Short
<1>3. r \div 256 \in Nat
  BY <1>1, SMTT(60) DEF Short
<1>4. (256 * q + (r \div 256)) % 256 = (r \div 256) % 256
  <2> DEFINE t == r \div 256
  <2>1. t \in Nat
    BY <1>3
  <2> HIDE DEF t
  <2>2. (256 * q + t) % 256 = t % 256
    BY <1>1, <2>1
  <2> QED BY <2>2 DEF t
<1>5. (n \div 256) % 256 = (r \div 256) % 256
  BY ZenonT(20), <1>2, <1>4
<1> QED BY ZenonT(20), <1>1, <1>2, <1>5 DEF q, r

(* Two bytes and two bytes. *)
LEMMA FourBytes ==
  ASSUME NEW a, NEW b, NEW c, NEW d
  PROVE  <<a, b>> \o <<c, d>> = <<a, b, c, d>> /\ SubSeq(<<a, b, c, d>>, 3, 4) = <<c, d>>
<1> DEFINE X == {a, b, c, d}
           s == <<a, b, c, d>>
           p == <<a, b>>
           q == <<c, d>>
<1>1. s \in Seq(X) /\ Len(s) = 4 /\ s[1] = a /\ s[2] = b /\ s[3] = c /\ s[4] = d
  OBVIOUS
<1>2. p \in Seq(X) /\ Len(p) = 2 /\ p[1] = a /\ p[2] = b
  OBVIOUS
<1>3. q \in Seq(X) /\ Len(q) = 2 /\ q[1] = c /\ q[2] = d
  OBVIOUS
<1>4. p \o q = s
  <2> DEFINE t == p \o q
  <2> HIDE DEF p, q, X, s
  <2>0. /\ t \in Seq(X) /\ Len(t) = Len(p) + Len(q)
        /\ \A i \in 1..Len(p) : t[i] = p[i]
        /\ \A j \in 1..Len(q) : t[Len(p) + j] = q[j]
    <3>1. p \in Seq(X) /\ q \in Seq(X)
      BY <1>2, <1>3
    <3> QED BY ONLY <3>1, ConcatElements
  <2> HIDE DEF t
  <2>1. t \in Seq(X) /\ Len(t) = 4
    BY <1>2, <1>3, <2>0
  <2>2. t[1] = a /\ t[2] = b /\ t[3] = c /\ t[4] = d
    <3>1. t[2 + 1] = q[1] /\ t[2 + 2] = q[2]
      BY <1>2, <1>3, <2>0
    <3> QED BY <1>2, <1>3, <2>0, <3>1
  <2>3. \A i \in 1..4 : t[i] = s[i]
    BY <1>1, <2>2
  <2>4. t = s
    BY <1>1, <2>1, <2>3
  <2> QED BY <2>4 DEF t
<1>5. SubSeq(s, 3, 4) = q
  <2> HIDE DEF X, s, q
  <2>1. SubSeq(s, 3, 4) = [i \in 1..2 |-> s[i + 2]]
    BY <1>1
  <2>2. [i \in 1..2 |-> s[i + 2]] = q
    BY <1>1, <1>3
  <2> QED BY <2>1, <2>2
<1> QED BY <1>4, <1>5

(* BE32 is read back by U32, whatever number of the program it is. *)
LEMMA NumberBytes ==
  ASSUME NEW n \in Nat
  PROVE  /\ BE32(n) \in Seq(Byte) /\ Len(BE32(n)) = 4
         /\ n < Uint32 => U32(BE32(n)) = n
<1> DEFINE h == n \div Short
           r == n % Short
<1>1. h \in Nat /\ r \in 0..(Short - 1) /\ n = Short * h + r
      /\ (n \div 256) % 256 = (r \div 256) % 256 /\ n % 256 = r % 256
  BY BaseShort, SMTT(60)
<1> HIDE DEF r
<1>2. BE32(n) = <<(h \div 256) % 256, h % 256, (n \div 256) % 256, n % 256>>
  <2> DEFINE a == (h \div 256) % 256
             b == h % 256
             c == (n \div 256) % 256
             d == n % 256
  <2>1. BE32(n) = <<a, b>> \o <<c, d>>
    BY DEF BE32, BE16
  <2> HIDE DEF a, b, c, d
  <2>2. BE32(n) = <<a, b, c, d>>
    BY <2>1, FourBytes
  <2> QED BY <2>2 DEF a, b, c, d
<1> HIDE DEF h
<1>3. /\ (h \div 256) % 256 \in Byte /\ h % 256 \in Byte
      /\ (n \div 256) % 256 \in Byte /\ n % 256 \in Byte
  <2>1. h \in Nat
    BY <1>1
  <2>2. (h \div 256) % 256 \in Byte /\ h % 256 \in Byte
    BY ZenonT(20), <2>1, Base256
  <2>3. (n \div 256) % 256 \in Byte /\ n % 256 \in Byte
    BY ZenonT(20), Base256
  <2> QED BY ONLY <2>2, <2>3
<1>4. BE32(n) \in Seq(Byte) /\ Len(BE32(n)) = 4
  BY <1>2, <1>3
<1>5. ASSUME n < Uint32 PROVE U32(BE32(n)) = n
  <2>1. h < Short
    <3> DEFINE u == Uint32 - 1
               m == u \div Short
               s == u % Short
    <3>1. u \in Nat /\ n <= u /\ m < Short
      BY <1>5, Uint32Assumption
    <3> HIDE DEF u
    <3>2. u = Short * m + s /\ m \in Nat /\ s \in 0..(Short - 1)
      BY <3>1, BaseShort, ZenonT(40)
    <3> HIDE DEF m, s
    <3>3. Short * h + r <= Short * m + s
      BY <1>1, <3>1, <3>2
    <3>4. s < Short /\ s \in Nat /\ r \in Nat /\ Short \in Nat
      <4>1. \A x \in 0..(Short - 1) : x \in Nat /\ x < Short
        BY ShortIs, SMTT(60)
      <4>2. r \in 0..(Short - 1) /\ s \in 0..(Short - 1)
        BY <1>1, <3>2
      <4>3. Short \in Nat
        BY ShortIs
      <4> QED BY ONLY <4>1, <4>2, <4>3
    <3>5. h <= m
      BY <1>1, <3>2, <3>3, <3>4, Quotients
    <3> QED BY <1>1, <3>1, <3>2, <3>4, <3>5
  <2>2. ((h \div 256) % 256) * 256 + (h % 256) = h
    BY ZenonT(20), <1>1, <2>1, Base256
  <2>3. ((r \div 256) % 256) * 256 + (r % 256) = r
    <3>1. r \in Nat /\ r < Short
      BY <1>1, SMTT(60) DEF Short
    <3> QED BY ZenonT(20), <3>1, Base256
  <2>4. U32(BE32(n)) = (((h \div 256) % 256) * 256 + (h % 256)) * Short
                        + (((n \div 256) % 256) * 256 + (n % 256))
    <3> DEFINE a == (h \div 256) % 256
               b == h % 256
               c == (n \div 256) % 256
               d == n % 256
    <3>1. BE32(n) = <<a, b, c, d>>
      BY <1>2
    <3> HIDE DEF a, b, c, d
    <3>2. U32(<<a, b, c, d>>) = (a * 256 + b) * Short + (c * 256 + d)
      BY FourBytes DEF U32, U16
    <3> QED BY <3>1, <3>2 DEF a, b, c, d
  <2>5. ((n \div 256) % 256) * 256 + (n % 256) = r
    BY <1>1, <2>3
  <2>6. U32(BE32(n)) = h * Short + r
    BY <2>2, <2>4, <2>5
  <2>7. h * Short = Short * h
    BY <1>1, ShortIs, SMTT(60)
  <2> QED BY <1>1, <2>6, <2>7
<1> QED BY <1>4, <1>5

(* A part of a file, read where it is. *)
LEMMA ReadWhere ==
  ASSUME NEW f \in Seq(Byte), NEW b \in Seq(Byte), NEW at \in Nat, at + Len(b) <= Len(f),
         \A j \in 1..Len(b) : f[at + j] = b[j]
  PROVE  BytesAt(f, at, Len(b)) = b
<1>1. \A k \in 1..Len(b) : at + k <= Len(f)
  OBVIOUS
<1>2. BytesAt(f, at, Len(b)) = [k \in 1..Len(b) |-> b[k]]
  BY <1>1 DEF BytesAt
<1> QED BY <1>2

LEMMA FieldWhere ==
  ASSUME NEW f \in Seq(Byte), NEW n \in Nat, n < Uint32, NEW at \in Nat, at + 4 <= Len(f),
         \A j \in 1..4 : f[at + j] = BE32(n)[j]
  PROVE  Field(f, at) = n
<1>1. BE32(n) \in Seq(Byte) /\ Len(BE32(n)) = 4 /\ U32(BE32(n)) = n
  BY NumberBytes
<1>2. BytesAt(f, at, 4) = BE32(n)
  BY <1>1, ReadWhere
<1> QED BY <1>1, <1>2 DEF Field

-----------------------------------------------------------------------------
(* The digits of a number.                                                 *)

(* What is left of a number is smaller than it. *)
LEMMA FewerDigits ==
  ASSUME NEW d \in Nat, d >= 2, NEW m \in Nat
  PROVE  /\ m \div d \in Nat /\ m % d \in 0..(d - 1) /\ m = d * (m \div d) + (m % d)
         /\ m >= d => m \div d < m
<1>1. m \div d \in Nat /\ m % d \in 0..(d - 1) /\ m = d * (m \div d) + (m % d)
  OBVIOUS
<1> DEFINE q == m \div d
           r == m % d
<1> HIDE DEF q, r
<1>2. q \in Nat /\ r \in Nat /\ m = d * q + r
  BY <1>1 DEF q, r
<1>3. d * q >= 2 * q
  <2>1. (d - 2) * q >= 0
    BY <1>2
  <2>2. (d - 2) * q = d * q - 2 * q
    BY <1>2
  <2>3. d * q \in Nat
    BY <1>2
  <2> QED BY <1>2, <2>1, <2>2, <2>3
<1>4. m >= d => q < m
  <2>1. d * q \in Nat
    BY <1>2
  <2> QED BY <1>2, <1>3, <2>1
<1> QED BY <1>1, <1>4 DEF q

DigitsTo(f, n, d) == f = [m \in 0..n |-> IF m < d THEN <<m>> ELSE Append(f[m \div d], m % d)]

LEMMA DigitsExist ==
  ASSUME NEW d \in Nat, d >= 2, NEW n \in Nat
  PROVE  \E f : DigitsTo(f, n, d)
<1> DEFINE I == {p \in Nat : \E f : DigitsTo(f, p, d)}
<1>1. 0 \in I
  <2> DEFINE f == [m \in 0..0 |-> <<m>>]
  <2>1. \A m \in 0..0 : m < d
    OBVIOUS
  <2>2. DigitsTo(f, 0, d)
    BY <2>1 DEF DigitsTo
  <2> QED BY <2>2
<1>2. ASSUME NEW p \in Nat, p \in I PROVE p + 1 \in I
  <2>1. PICK f : DigitsTo(f, p, d)
    BY <1>2
  <2> DEFINE rest(h, m) == IF m < d THEN <<m>> ELSE Append(h[m \div d], m % d)
             last == rest(f, p + 1)
             g == [m \in 0..(p + 1) |-> IF m <= p THEN f[m] ELSE last]
  <2>2. ASSUME NEW m \in 0..(p + 1) PROVE g[m] = rest(g, m)
    <3>1. m >= d => m \div d \in 0..p /\ g[m \div d] = f[m \div d]
      <4>1. SUFFICES ASSUME m >= d PROVE m \div d \in 0..p
        <5>1. \A j \in 0..p : g[j] = f[j]
          OBVIOUS
        <5> QED BY <5>1
      <4>2. m \div d \in Nat /\ m \div d < m
        BY <4>1, FewerDigits
      <4> QED BY <4>2
    <3>2. rest(g, m) = rest(f, m)
      BY <3>1
    <3>3. CASE m <= p
      <4>1. m \in 0..p /\ g[m] = f[m]
        BY <3>3
      <4>2. f[m] = rest(f, m)
        BY <2>1, <4>1 DEF DigitsTo
      <4> QED BY <3>2, <4>1, <4>2
    <3>4. CASE m = p + 1
      <4>1. g[m] = last
        BY <3>4
      <4> QED BY <3>2, <3>4, <4>1
    <3> QED BY <3>3, <3>4
  <2>3. g = [m \in 0..(p + 1) |-> rest(g, m)]
    <3>1. g = [m \in 0..(p + 1) |-> g[m]]
      OBVIOUS
    <3> HIDE DEF g
    <3> QED BY <2>2, <3>1
  <2>4. DigitsTo(g, p + 1, d)
    BY <2>3 DEF DigitsTo
  <2> QED BY <2>4
<1> HIDE DEF I
<1>3. n \in I
  BY <1>1, <1>2, Induction
<1> QED BY <1>3 DEF I

LEMMA DigitsUnique ==
  ASSUME NEW d \in Nat, d >= 2, NEW n \in Nat, NEW p \in Nat, NEW f, NEW g,
         DigitsTo(f, n, d), DigitsTo(g, p, d)
  PROVE  \A m \in Nat : m <= n /\ m <= p => f[m] = g[m]
<1> DEFINE I == {m \in Nat : m <= n /\ m <= p => f[m] = g[m]}
<1>1. ASSUME NEW m \in Nat, \A j \in 0..(m - 1) : j \in I PROVE m \in I
  <2>1. SUFFICES ASSUME m <= n, m <= p PROVE f[m] = g[m]
    OBVIOUS
  <2>a. m \in 0..n /\ m \in 0..p
    BY <2>1
  <2>b. f[m] = IF m < d THEN <<m>> ELSE Append(f[m \div d], m % d)
    BY <2>a DEF DigitsTo
  <2>c. g[m] = IF m < d THEN <<m>> ELSE Append(g[m \div d], m % d)
    BY <2>a DEF DigitsTo
  <2>2. /\ f[m] = IF m < d THEN <<m>> ELSE Append(f[m \div d], m % d)
        /\ g[m] = IF m < d THEN <<m>> ELSE Append(g[m \div d], m % d)
    BY <2>b, <2>c
  <2>3. CASE m < d
    BY <2>2, <2>3
  <2>4. CASE m >= d
    <3>1. m \div d \in Nat /\ m \div d < m
      BY <2>4, FewerDigits
    <3>2. m \div d \in 0..(m - 1) /\ m \div d <= n /\ m \div d <= p
      BY <2>1, <3>1
    <3>3. f[m \div d] = g[m \div d]
      BY <1>1, <3>2
    <3> QED BY <2>2, <2>4, <3>3
  <2> QED BY <2>3, <2>4
<1> HIDE DEF I
<1>2. \A m \in Nat : m \in I
  BY <1>1, StrongInduction
<1> QED BY <1>2 DEF I

(* The digits of a number are those of it without the last, and the last.  *)
LEMMA DigitsAre ==
  ASSUME NEW d \in Nat, d >= 2, NEW n \in Nat
  PROVE  Digits(n, d) = IF n < d THEN <<n>> ELSE Append(Digits(n \div d, d), n % d)
<1> DEFINE F(m) == CHOOSE f : DigitsTo(f, m, d)
<1>1. \A m \in Nat : Digits(m, d) = F(m)[m]
  BY DEF Digits, DigitsTo
<1>2. \A m \in Nat : DigitsTo(F(m), m, d)
  <2> TAKE m \in Nat
  <2>1. \E f : DigitsTo(f, m, d)
    BY DigitsExist
  <2> QED BY <2>1
<1> HIDE DEF F
<1>3. F(n)[n] = IF n < d THEN <<n>> ELSE Append(F(n)[n \div d], n % d)
  <2>1. DigitsTo(F(n), n, d) /\ n \in 0..n
    BY <1>2
  <2> DEFINE f == F(n)
  <2> HIDE DEF f
  <2>2. f[n] = IF n < d THEN <<n>> ELSE Append(f[n \div d], n % d)
    BY <2>1 DEF f, DigitsTo
  <2> QED BY <2>2 DEF f
<1>4. CASE n < d
  BY <1>1, <1>3, <1>4
<1>5. CASE n >= d
  <2> DEFINE q == n \div d
  <2>1. q \in Nat /\ q < n
    BY <1>5, FewerDigits
  <2>2. F(n)[n] = Append(F(n)[q], n % d)
    BY <1>3, <1>5
  <2> HIDE DEF q
  <2>3. F(n)[q] = F(q)[q]
    BY <1>2, <2>1, DigitsUnique
  <2>4. Digits(n, d) = Append(Digits(q, d), n % d)
    BY <1>1, <2>1, <2>2, <2>3
  <2> QED BY <1>5, <2>4 DEF q
<1> QED BY <1>4, <1>5

LEMMA DigitsType ==
  ASSUME NEW d \in Nat, d >= 2
  PROVE  \A n \in Nat : Digits(n, d) \in Seq(0..(d - 1)) /\ Len(Digits(n, d)) \in Nat \ {0}
<1> DEFINE D(n) == Digits(n, d)
           Typed(n) == D(n) \in Seq(0..(d - 1)) /\ Len(D(n)) \in Nat \ {0}
           I == {n \in Nat : Typed(n)}
<1>0. \A n \in Nat : D(n) = IF n < d THEN <<n>> ELSE Append(D(n \div d), n % d)
  BY DigitsAre
<1> HIDE DEF D
<1>1. ASSUME NEW n \in Nat, \A j \in 0..(n - 1) : j \in I PROVE n \in I
  <2>1. CASE n < d
    <3>1. D(n) = <<n>> /\ n \in 0..(d - 1)
      BY <1>0, <2>1
    <3>2. Typed(n)
      BY <3>1
    <3> QED BY <3>2
  <2>2. CASE n >= d
    <3> DEFINE q == n \div d
               r == n % d
    <3>0. D(n) = IF n < d THEN <<n>> ELSE Append(D(q), r)
      BY <1>0, Zenon
    <3>1. D(n) = Append(D(q), r)
      <4> HIDE DEF q, r
      <4> QED BY <2>2, <3>0
    <3>2. q \in Nat /\ q < n /\ r \in 0..(d - 1)
      BY <2>2, FewerDigits
    <3> HIDE DEF q, r
    <3>3. q \in 0..(n - 1)
      BY <3>2
    <3>4. Typed(q)
      BY <1>1, <3>3
    <3>5. Typed(n)
      BY <3>1, <3>2, <3>4
    <3> HIDE DEF Typed
    <3> QED BY <3>5
  <2> QED BY <2>1, <2>2
<1> HIDE DEF I
<1>2. \A n \in Nat : n \in I
  BY <1>1, StrongInduction
<1> QED BY <1>2 DEF I, D

-----------------------------------------------------------------------------
(* Integers of variable width.                                             *)

(* Seven bits to a byte, and the last byte alone has its top bit set. *)
LEMMA Encoded ==
  ASSUME NEW x \in Nat
  PROVE  LET d == Digits(x, 128)
             e == vwiEncInt(x)
         IN  /\ e \in Seq(Byte) /\ Len(e) = Len(d) /\ Len(d) \in Nat \ {0}
             /\ e[Len(d)] >= 128
             /\ \A k \in 1..(Len(d) - 1) : e[k] < 128
             /\ \A k \in 1..Len(d) : d[k] \in 0..127 /\ e[k] % 128 = d[k]
<1> DEFINE d == Digits(x, 128)
           n == Len(d)
           e == [d EXCEPT ![n] = d[n] + 128]
<1>1. d \in Seq(0..127) /\ n \in Nat \ {0}
  <2>1. 128 \in Nat /\ 128 >= 2 /\ 0..(128 - 1) = 0..127
    OBVIOUS
  <2>2. \A m \in Nat : Digits(m, 128) \in Seq(0..(128 - 1)) /\ Len(Digits(m, 128)) \in Nat \ {0}
    BY ONLY <2>1, DigitsType, Zenon
  <2> QED BY <2>1, <2>2, Zenon
<1>2. vwiEncInt(x) = e
  BY DEF vwiEncInt
<1> HIDE DEF d
<1>3. \A k \in 1..n : d[k] \in 0..127
  <2> DEFINE S == 0..127
  <2> HIDE DEF S
  <2>1. d \in Seq(S) /\ DOMAIN d = 1..n
    BY <1>1 DEF S
  <2>2. \A k \in 1..n : d[k] \in S
    BY ONLY <2>1, ElementOf
  <2> QED BY <2>2 DEF S
<1>4. d \in Seq(Byte)
  BY <1>1 DEF Byte
<1>5. n \in DOMAIN d /\ DOMAIN d = 1..n /\ d[n] + 128 \in Byte
  <2>1. n \in 1..n /\ DOMAIN d = 1..n
    BY <1>1
  <2>2. d[n] \in 0..127
    BY <1>3, <2>1
  <2>3. \A a \in 0..127 : a + 128 \in Byte
    BY DEF Byte
  <2>4. d[n] + 128 \in Byte
    BY ONLY <2>2, <2>3
  <2> QED BY <2>1, <2>4
<1>6. /\ e \in Seq(Byte) /\ Len(e) = n /\ e[n] = d[n] + 128
      /\ \A k \in DOMAIN d : k # n => e[k] = d[k]
  BY <1>4, <1>5, ReplaceElement
<1> HIDE DEF e
<1>7. \A k \in 1..n : e[k] % 128 = d[k]
  <2> TAKE k \in 1..n
  <2>1. d[k] \in 0..127 /\ (e[k] = d[k] \/ e[k] = d[k] + 128)
    BY <1>3, <1>5, <1>6
  <2>2. \A a \in 0..127 : a % 128 = a /\ (a + 128) % 128 = a
    OBVIOUS
  <2> QED BY <2>1, <2>2
<1>8. e[n] >= 128 /\ \A k \in 1..(n - 1) : e[k] < 128
  <2>1. d[n] \in 0..127
    BY <1>1, <1>3
  <2>2. \A k \in 1..(n - 1) : k \in 1..n /\ k # n
    BY <1>1
  <2>0. \A a \in 0..127 : a < 128 /\ a + 128 >= 128
    OBVIOUS
  <2>3. e[n] >= 128
    <3>1. d[n] + 128 >= 128
      BY ONLY <2>0, <2>1
    <3> QED BY ONLY <1>6, <3>1
  <2>4. ASSUME NEW k \in 1..(n - 1) PROVE e[k] < 128
    <3>1. k \in 1..n /\ e[k] = d[k]
      BY <1>5, <1>6, <2>2
    <3>2. d[k] \in 0..127
      BY <1>3, <3>1
    <3>3. d[k] < 128
      BY ONLY <2>0, <3>2
    <3> QED BY ONLY <3>1, <3>3
  <2> QED BY <2>3, <2>4
<1> QED BY <1>1, <1>2, <1>3, <1>6, <1>7, <1>8 DEF d

(* The bytes of x are all that vwiDec looks at. *)
LEMMA ConsumedAll ==
  ASSUME NEW x \in Nat, NEW tail \in Seq(Byte)
  PROVE  LET src == vwiEncInt(x) \o tail
         IN  /\ Consumed(src) = Len(vwiEncInt(x))
             /\ \A k \in 1..Len(vwiEncInt(x)) : src[k] = vwiEncInt(x)[k]
<1> DEFINE enc == vwiEncInt(x)
           z == Len(enc)
           src == enc \o tail
<1>1. enc \in Seq(Byte) /\ z \in Nat \ {0} /\ enc[z] >= 128 /\ \A k \in 1..(z - 1) : enc[k] < 128
  BY Encoded, ZenonT(40)
<1> HIDE DEF enc
<1>2. src \in Seq(Byte) /\ Len(src) = z + Len(tail) /\ Len(tail) \in Nat
      /\ \A k \in 1..z : src[k] = enc[k]
  <2>1. enc \in Seq(Byte) /\ tail \in Seq(Byte)
    BY <1>1
  <2>2. Len(tail) \in Nat
    OBVIOUS
  <2> QED BY ONLY <2>1, <2>2, ConcatElements
<1> HIDE DEF src, z
<1>3. \A k \in 1..Len(src) : src[k] \in Int
  <2>1. \A k \in DOMAIN src : src[k] \in Byte
    BY <1>2, ElementOf
  <2>2. DOMAIN src = 1..Len(src) /\ \A b \in Byte : b \in Int
    BY <1>2 DEF Byte
  <2> QED BY <2>1, <2>2
<1> DEFINE Ends(n) == /\ \A k \in 1..(n - 1) : src[k] < 128
                      /\ IF n = 0 THEN src = <<>> ELSE src[n] >= 128 \/ n = Len(src)
<1>4. z \in 1..Len(src) /\ Ends(z) /\ src[z] >= 128
  <2>1. \A k \in 1..(z - 1) : src[k] < 128
    BY <1>1, <1>2
  <2>2. src[z] >= 128
    BY <1>1, <1>2
  <2> QED BY <1>1, <1>2, <2>1, <2>2
<1>5. ASSUME NEW n \in 0..Len(src), Ends(n) PROVE n = z
  <2>1. n # 0
    BY <1>1, <1>2, <1>5
  <2>2. ~(n < z)
    <3>1. SUFFICES ASSUME n < z PROVE FALSE
      OBVIOUS
    <3>2. src[n] < 128 /\ n # Len(src)
      BY <1>1, <1>2, <2>1, <3>1
    <3>3. src[n] \in Int
      BY <1>2, <1>3, <2>1
    <3> QED BY <1>5, <2>1, <3>2, <3>3
  <2>3. ~(n > z)
    <3>1. SUFFICES ASSUME n > z PROVE FALSE
      OBVIOUS
    <3>2. src[z] < 128
      BY <1>1, <1>5, <3>1
    <3>3. src[z] \in Int /\ src[z] >= 128
      BY <1>1, <1>2, <1>3, <1>4
    <3> QED BY <3>2, <3>3
  <2> QED BY <1>1, <2>2, <2>3
<1>6. Consumed(src) = CHOOSE n \in 0..Len(src) : Ends(n)
  BY DEF Consumed
<1> HIDE DEF Ends
<1>7. Consumed(src) = z
  BY <1>4, <1>5, <1>6
<1> QED BY <1>2, <1>7 DEF src, enc, z

(* What vwiDec has read after k of the first n bytes of src. *)
ReadsTo(val, src, n) ==
  val = [k \in 0..n |-> IF k = 0 THEN 0 ELSE (val[k - 1] * 128 + (src[k] % 128)) % Uint32]

LEMMA ReadsExist ==
  ASSUME NEW src, NEW n \in Nat, \A k \in 1..n : src[k] \in Nat
  PROVE  \E val \in [0..n -> Nat] : ReadsTo(val, src, n)
<1> DEFINE next(k, v) == (v * 128 + (src[k] % 128)) % Uint32
           step == [k \in 1..n |-> [v \in Nat |-> next(k, v)]]
<1>1. \A k \in 1..n, v \in Nat : next(k, v) \in Nat
  <2> TAKE k \in 1..n, v \in Nat
  <2>1. src[k] % 128 \in Nat
    OBVIOUS
  <2>2. v * 128 + (src[k] % 128) \in Nat
    BY <2>1
  <2> DEFINE w == v * 128 + (src[k] % 128)
  <2> HIDE DEF w
  <2>3. w % Uint32 \in Nat
    BY <2>2, Uint32Assumption DEF w
  <2> QED BY <2>3 DEF w
<1>2. step \in [1..n -> [Nat -> Nat]]
  <2> HIDE DEF next
  <2> QED BY <1>1
<1> HIDE DEF step
<1>3. PICK f \in [0..n -> Nat] : f[0] = 0 /\ \A k \in 1..n : f[k] = step[k][f[k - 1]]
  <2> DEFINE S == Nat
             zero == 0
  <2>1. zero \in S /\ n \in Nat /\ step \in [1..n -> [S -> S]]
    BY <1>2
  <2> HIDE DEF S, zero
  <2>2. \E f \in [0..n -> S] : Follows(f, n, zero, step)
    BY ONLY <2>1, Recursion, ZenonT(30)
  <2> QED BY <2>2 DEF S, zero, Follows
<1>4. \A k \in 1..n : f[k] = next(k, f[k - 1])
  <2> TAKE k \in 1..n
  <2>1. f[k - 1] \in Nat
    BY <1>3
  <2> QED BY <1>3, <2>1 DEF step
<1>5. ReadsTo(f, src, n)
  <2> DEFINE g == [k \in 0..n |-> IF k = 0 THEN 0 ELSE next(k, f[k - 1])]
  <2>1. \A k \in 0..n : f[k] = g[k]
    <3> HIDE DEF next
    <3> QED BY <1>3, <1>4
  <2>2. f = g
    <3>1. f = [k \in 0..n |-> f[k]]
      OBVIOUS
    <3>2. g = [k \in 0..n |-> g[k]]
      OBVIOUS
    <3> HIDE DEF g
    <3>3. [k \in 0..n |-> f[k]] = [k \in 0..n |-> g[k]]
      BY <2>1
    <3> QED BY <3>1, <3>2, <3>3
  <2> QED BY <2>2 DEF ReadsTo
<1> QED BY <1>5

(* Bytes that begin with the digits of a number are read as that number.   *)
Begins(src, n, y) ==
  LET d == Digits(y, 128)
  IN  y < Uint32 /\ Len(d) <= n /\ \A k \in 1..Len(d) : src[k] % 128 = d[k]

LEMMA ReadsDigits ==
  ASSUME NEW src, NEW n \in Nat, NEW val, ReadsTo(val, src, n)
  PROVE  \A y \in Nat : Begins(src, n, y) => val[Len(Digits(y, 128))] = y
<1> DEFINE D(y) == Digits(y, 128)
           Starts(y) == y < Uint32 /\ Len(D(y)) <= n /\ \A k \in 1..Len(D(y)) : src[k] % 128 = D(y)[k]
           Reads(y) == Starts(y) => val[Len(D(y))] = y
           I == {y \in Nat : Reads(y)}
<1>1. val[0] = 0 /\ \A k \in 1..n : val[k] = (val[k - 1] * 128 + (src[k] % 128)) % Uint32
  <2> DEFINE next(k) == (val[k - 1] * 128 + (src[k] % 128)) % Uint32
             g == [k \in 0..n |-> IF k = 0 THEN 0 ELSE next(k)]
  <2>1. val = g
    BY DEF ReadsTo
  <2> HIDE DEF next
  <2>2. \A k \in 0..n : g[k] = IF k = 0 THEN 0 ELSE next(k)
    OBVIOUS
  <2> HIDE DEF g
  <2>3. val[0] = 0 /\ \A k \in 1..n : val[k] = next(k)
    BY <2>1, <2>2
  <2> QED BY <2>3 DEF next
<1>2. 128 \in Nat /\ 128 >= 2
  OBVIOUS
<1>3. \A y \in Nat : D(y) = IF y < 128 THEN <<y>> ELSE Append(D(y \div 128), y % 128)
  BY <1>2, DigitsAre
<1>4. \A y \in Nat : D(y) \in Seq(0..(128 - 1)) /\ Len(D(y)) \in Nat \ {0}
  <2>1. \A y \in Nat : Digits(y, 128) \in Seq(0..(128 - 1)) /\ Len(Digits(y, 128)) \in Nat \ {0}
    BY ONLY <1>2, DigitsType, Zenon
  <2> QED BY <2>1, Zenon
<1>5. \A y \in Nat : y < Uint32 => y % Uint32 = y
  BY Uint32Assumption
<1> HIDE DEF D
<1>6. ASSUME NEW y \in Nat, \A j \in 0..(y - 1) : j \in I PROVE y \in I
  <2>1. SUFFICES ASSUME Starts(y) PROVE val[Len(D(y))] = y
    OBVIOUS
  <2>2. CASE y < 128
    <3>1. D(y) = <<y>>
      BY <1>3, <2>2
    <3>2. Len(D(y)) = 1 /\ D(y)[1] = y /\ 1 \in 1..n
      BY <2>1, <3>1
    <3>3. src[1] % 128 = y
      BY <2>1, <3>2
    <3>4. val[1] = (0 * 128 + y) % Uint32
      BY <1>1, <3>2, <3>3
    <3>5. 0 * 128 + y = y
      OBVIOUS
    <3> QED BY <1>5, <2>1, <3>2, <3>4, <3>5
  <2>3. CASE y >= 128
    <3> DEFINE q == y \div 128
               r == y % 128
               m == Len(D(q))
    <3>1. D(y) = IF y < 128 THEN <<y>> ELSE Append(D(q), r)
      BY <1>3, Zenon
    <3>2. q \in Nat /\ q < y /\ r \in 0..(128 - 1) /\ y = 128 * q + r
      BY <1>2, <2>3, FewerDigits
    <3> HIDE DEF q, r
    <3>3. D(y) = Append(D(q), r)
      BY <2>3, <3>1
    <3>4. D(q) \in Seq(0..(128 - 1)) /\ m \in Nat
      BY <1>4, <3>2
    <3>5. /\ Len(D(y)) = m + 1 /\ D(y)[m + 1] = r
          /\ \A k \in 1..m : D(y)[k] = D(q)[k]
      BY <3>3, <3>4
    <3> HIDE DEF m
    <3>6. m + 1 <= n /\ src[m + 1] % 128 = r /\ \A k \in 1..m : src[k] % 128 = D(q)[k]
      <4>1. m + 1 <= n
        BY <2>1, <3>5
      <4>2. \A k \in 1..(m + 1) : src[k] % 128 = D(y)[k]
        BY <2>1, <3>5
      <4> QED BY <3>4, <3>5, <4>1, <4>2
    <3>7. val[m] = q
      <4>1. q \in 0..(y - 1) /\ q < Uint32
        BY <2>1, <3>2, Uint32Assumption
      <4>2. Reads(q)
        BY <1>6, <4>1
      <4>3. Starts(q)
        BY <3>4, <3>6, <4>1 DEF m
      <4> QED BY <4>2, <4>3 DEF m
    <3>8. val[m + 1] = (q * 128 + r) % Uint32
      <4>1. m + 1 \in 1..n /\ (m + 1) - 1 = m
        BY <3>4, <3>6
      <4>2. val[m + 1] = (val[(m + 1) - 1] * 128 + (src[m + 1] % 128)) % Uint32
        BY ONLY <1>1, <4>1
      <4> QED BY <3>6, <3>7, <4>1, <4>2
    <3>9. q * 128 + r = y
      BY <3>2
    <3> QED BY <1>5, <2>1, <3>5, <3>8, <3>9
  <2> QED BY <2>2, <2>3
<1> HIDE DEF I
<1>7. \A y \in Nat : y \in I
  BY <1>6, StrongInduction
<1> QED BY <1>7 DEF I, D, Begins

(* What vwiDec reads is what vwiEncInt was given, and it takes no byte too *)
(* few or too many, whatever bytes follow: the values of an index entry    *)
(* need no marks between them (util.go:105-153).                           *)
THEOREM RoundTrip ==
  ASSUME NEW x \in Nat, x < Uint32, NEW tail \in Seq(Byte)
  PROVE  vwiDec(vwiEncInt(x) \o tail) = [value |-> x, consumed |-> Len(vwiEncInt(x))]
<1> DEFINE enc == vwiEncInt(x)
           src == enc \o tail
           n == Len(enc)
           read == CHOOSE val : ReadsTo(val, src, n)
<1>1. n = Len(Digits(x, 128)) /\ n \in Nat /\ enc \in Seq(Byte)
      /\ \A k \in 1..n : enc[k] % 128 = Digits(x, 128)[k]
  BY Encoded
<1>2. Consumed(src) = n /\ \A k \in 1..n : src[k] = enc[k]
  BY ConsumedAll
<1>3. vwiDec(src) = [value |-> read[n], consumed |-> n]
  BY <1>2 DEF vwiDec, ReadsTo
<1> HIDE DEF enc, src, n
<1>4. \A k \in 1..n : src[k] \in Nat
  <2>1. DOMAIN enc = 1..n
    BY <1>1 DEF n
  <2>2. \A k \in 1..n : enc[k] \in Byte
    BY <1>1, <2>1, ElementOf
  <2>3. \A b \in Byte : b \in Nat
    BY DEF Byte
  <2> QED BY <1>2, <2>2, <2>3
<1>5. ReadsTo(read, src, n)
  <2>1. \E val : ReadsTo(val, src, n)
    BY <1>1, <1>4, ReadsExist
  <2> QED BY <2>1
<1> HIDE DEF read
<1>6. \A k \in 1..n : src[k] % 128 = Digits(x, 128)[k]
  BY <1>1, <1>2
<1>7. read[n] = x
  <2>1. Begins(src, n, x) /\ n \in Nat
    BY <1>1, <1>6 DEF Begins
  <2>2. \A y \in Nat : Begins(src, n, y) => read[Len(Digits(y, 128))] = y
    BY ONLY <2>1, <1>5, ReadsDigits
  <2> QED BY <1>1, <2>1, <2>2
<1> QED BY <1>3, <1>7 DEF src, n, enc
=============================================================================
