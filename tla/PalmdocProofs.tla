--------------------------- MODULE PalmdocProofs ----------------------------
(***************************************************************************)
(* Proofs about Palmdoc: whatever the record, the window, the longest      *)
(* chunk and the resolver, reading the compressed record gives the record  *)
(* back.                                                                   *)
(***************************************************************************)
EXTENDS Palmdoc, SequenceTheorems, SequenceLemmas

(* The two bytes of a back reference: the first is never that of another   *)
(* kind of element, and together they keep the number they were cut from.  *)
LEMMA PairShape ==
  ASSUME NEW offset \in 1..MaxOffset, NEW len \in 3..10
  PROVE  /\ PairCode(offset, len) \in Seq(Byte)
         /\ Len(PairCode(offset, len)) = 2
         /\ PairCode(offset, len)[1] \in 128..191
         /\ PairWord(PairCode(offset, len)) = Code(offset, len)
<1> DEFINE c == Code(offset, len)
<1>0. offset \in Nat /\ 1 <= offset /\ offset <= 2047
  BY DEF MaxOffset
<1>1. c \in Nat /\ 32776 <= c /\ c <= 49151
  BY <1>0 DEF Code, MinChunk
<1>2. PairCode(offset, len) = <<(c \div 256) % 256, c % 256>>
  BY DEF PairCode
<1>3. (c \div 256) % 256 = c \div 256 /\ c \div 256 \in 128..191 /\ c % 256 \in 0..255
      /\ (c \div 256) * 256 + (c % 256) = c
  <2> HIDE DEF c
  <2>1. c \div 256 \in Int /\ c % 256 \in 0..255 /\ c = 256 * (c \div 256) + (c % 256)
    BY <1>1
  <2>2. c \div 256 \in 128..191
    BY <1>1, <2>1
  <2>3. \A h \in 128..191 : h % 256 = h
    OBVIOUS
  <2> QED BY <2>1, <2>2, <2>3
<1> HIDE DEF c
<1>4. PairWord(PairCode(offset, len)) = c
  BY <1>2, <1>3 DEF PairWord
<1>5. QED
  BY <1>2, <1>3, <1>4 DEF Byte, c

(* A reader takes the offset and the length back out of that number. *)
LEMMA PairDecodes ==
  ASSUME NEW offset \in 1..MaxOffset, NEW len \in 3..10
  PROVE  /\ (PairWord(PairCode(offset, len)) \div 8) % 2048 = offset
         /\ (PairWord(PairCode(offset, len)) % 8) + MinChunk = len
<1> DEFINE c == PairWord(PairCode(offset, len))
<1>0. offset \in Nat /\ 1 <= offset /\ offset <= 2047
  BY DEF MaxOffset
<1>1. c = Code(offset, len)
  BY PairShape
<1> HIDE DEF c
<1>2. c = 8 * (4096 + offset) + (len - 3) /\ len - 3 \in 0..7
  BY <1>0, <1>1 DEF Code, MinChunk
<1>3. c \div 8 = 4096 + offset /\ c % 8 = len - 3
  BY <1>0, <1>2
<1>4. (4096 + offset) % 2048 = offset
  BY <1>0
<1>5. QED
  BY <1>0, <1>3, <1>4 DEF MinChunk, c

(* The data is part of the record. *)
LEMMA DataFacts ==
  ASSUME TypeOK
  PROVE  /\ arg \in Seq(Byte) /\ Len(arg) \in Nat /\ LData \in 0..(Len(arg) - 1)
         /\ \A j \in 0..(LData - 1) : At(j) \in 0..255
<1>1. arg \in Seq(Byte) /\ Len(arg) > 0 /\ arg[Len(arg)] < Len(arg)
  BY InputAssumption DEF TypeOK
<1>2. \A j \in 1..Len(arg) : arg[j] \in 0..255
  <2>1. \A j \in 1..Len(arg) : arg[j] \in Byte
    BY <1>1
  <2> QED BY <2>1 DEF Byte
<1>3. Len(arg) \in Nat /\ LData \in 0..(Len(arg) - 1)
  <2>1. Len(arg) \in Nat /\ arg[Len(arg)] \in 0..255
    BY <1>1, <1>2
  <2>2. arg[Len(arg)] < Len(arg)
    BY <1>1
  <2>3. \A m \in Nat, n \in 0..255 : n < m => m - 1 - n \in 0..(m - 1)
    OBVIOUS
  <2> QED BY <2>1, <2>2, <2>3 DEF LData
<1>4. QED
  BY <1>1, <1>2, <1>3 DEF At

(* The invariant holds when the compressor is called. *)
LEMMA InitCodec == Init => CodecInv
<1> SUFFICES ASSUME Init PROVE CodecInv
  OBVIOUS
<1>1. TypeOK
  BY DEF Init, TypeOK
<1>2. LData \in Nat
  BY <1>1, DataFacts
<1>3. CompressorOK /\ StreamOK /\ ReaderOK /\ DecodesToPrefix
  BY <1>2 DEF Init, CompressorOK, StreamOK, ReaderOK, DecodesToPrefix, End
<1>4. QED
  BY <1>1, <1>3 DEF CodecInv

(* What every call of output() in the loop preserves: if the new element   *)
(* stands for the n bytes at i, the stream is in order again.              *)
LEMMA EmitKeepsStream ==
  ASSUME CodecInv, NEW bytes \in Seq(Byte), NEW n \in Nat \ {0}, i + n <= LData,
         StandsFor(arg, bytes, i, i + n), Emit(bytes, n),
         UNCHANGED <<arg, resolver, searchVars, run, tail, readerVars>>,
         pc # "done"
  PROVE  CodecInv'
<1> USE DEF CodecInv
<1>1. LData \in Nat /\ LData' = LData /\ \A j \in Int : At(j)' = At(j)
  BY DataFacts DEF LData, At
<1>2. i' = i + n /\ i' \in Nat /\ i \in Nat /\ out' = Append(out, bytes) /\ starts' = Append(starts, i) /\ pc' = "loop"
  BY DEF Emit, TypeOK
<1>3. TypeOK'
  BY <1>2 DEF TypeOK, searchVars, readerVars
<1>4. CompressorOK'
  BY <1>1, <1>2 DEF CompressorOK
<1>5. Len(out') = Len(out) + 1 /\ Len(starts') = Len(out) + 1 /\ Len(out) \in Nat /\ Len(starts) = Len(out)
      /\ out \in Seq(Seq(Byte)) /\ starts \in Seq(Nat)
  BY <1>2, SMTT(30) DEF TypeOK, StreamOK
<1>6. /\ \A k \in 1..Len(out) : out'[k] = out[k] /\ starts'[k] = starts[k]
      /\ out'[Len(out) + 1] = bytes /\ starts'[Len(out) + 1] = i
  BY <1>2, <1>5
<1>7. \A k \in 1..Len(out) : End(k)' = End(k)
  BY <1>2, <1>5, <1>6 DEF End
<1>8. \A k \in {Len(out) + 1} : End(k)' = i + n
  BY <1>2, <1>5 DEF End
<1>9. arg' = arg
  OBVIOUS
<1>10. StreamOK'
  <2>1. starts'[1] = 0
    <3>1. CASE out = <<>>
      <4>1. Len(out) = 0 /\ i = 0
        BY <3>1 DEF StreamOK
      <4> QED BY <1>6, <4>1
    <3>2. CASE out # <<>>
      <4>1. starts[1] = 0 /\ 1 \in 1..Len(out)
        BY <1>5, <3>2 DEF StreamOK
      <4> QED BY <1>6, <4>1
    <3> QED BY <3>1, <3>2
  <2>2. out' # <<>>
    BY <1>5
  <2>3. ASSUME NEW k \in 1..Len(out')
        PROVE  starts'[k] <= i' /\ StandsFor(arg, out[k], starts[k], End(k))'
    <3>1. CASE k \in 1..Len(out)
      <4>1. starts[k] \in Nat /\ starts[k] <= i /\ StandsFor(arg, out[k], starts[k], End(k))
        BY <1>5, <3>1 DEF StreamOK
      <4>2. out'[k] = out[k] /\ starts'[k] = starts[k] /\ End(k)' = End(k)
        BY <1>6, <1>7, <3>1
      <4> QED BY <1>2, <1>9, <4>1, <4>2
    <3>2. CASE k = Len(out) + 1
      <4>1. out'[k] = bytes /\ starts'[k] = i /\ End(k)' = i + n
        BY <1>6, <1>8, <3>2
      <4> QED BY <1>2, <1>9, <4>1
    <3> QED BY <1>5, <3>1, <3>2
  <2> QED BY <1>5, <2>1, <2>2, <2>3 DEF StreamOK
<1>11. ReaderOK' /\ DecodesToPrefix'
  <2>1. plain = <<>> /\ read = 0 /\ copy.left = 0 /\ UNCHANGED <<plain, read, copy>>
    BY DEF ReaderOK, readerVars
  <2> QED BY <1>1, <1>5, <2>1 DEF ReaderOK, DecodesToPrefix, End
<1>12. QED
  BY <1>3, <1>4, <1>10, <1>11

(* Steps that leave the stream and the reader alone. *)
LEMMA StreamUntouched ==
  ASSUME CodecInv, UNCHANGED <<arg, i, out, starts, readerVars>>
  PROVE  /\ StreamOK' /\ DecodesToPrefix'
         /\ pc # "done" => ReaderOK'
<1>1. UNCHANGED <<arg, i, out, starts, plain, read, copy>>
  BY DEF readerVars
<1>2. QED
  BY <1>1 DEF CodecInv, StreamOK, DecodesToPrefix, ReaderOK, End, LData, At

(* Every step of the compressor preserves the invariant. *)
LEMMA CompressStep == CodecInv /\ Compress => CodecInv'
<1> SUFFICES ASSUME CodecInv, Compress PROVE CodecInv'
  OBVIOUS
<1> USE DEF CodecInv
<1>a. /\ LData \in Nat /\ i \in Nat /\ arg \in Seq(Byte) /\ Len(arg) \in Nat /\ LData < Len(arg)
      /\ \A j \in 0..(LData - 1) : At(j) \in 0..255 /\ At(j) \in Byte
  BY DataFacts DEF TypeOK, Byte
<1>1. CASE StartSearch
  <2>0. UNCHANGED <<arg, resolver, i, run, out, tail, starts, plain, read, copy>>
        /\ pc = "loop" /\ pc' = "search" /\ best' = -1 /\ CanSearch
    BY <1>1 DEF StartSearch, readerVars
  <2>1. WindowStart \in 0..i /\ WindowStart' = WindowStart
    BY <2>0, <1>a, WindowAssumption DEF WindowStart, MaxOffset
  <2>2. \/ resolver = "lookup" /\ scan' = i - 3 /\ foundLen' = 2
        \/ resolver = "tree" /\ scan' = WindowStart /\ foundLen' = -1
    BY <1>1 DEF StartSearch, MinChunk, TypeOK, Resolvers
  <2>3. scan' \in Int /\ foundLen' \in Int
    BY <2>1, <2>2, <1>a
  <2>4. TypeOK'
    BY <2>0, <2>3 DEF TypeOK
  <2>5. CompressorOK'
    <3>1. CanSearch' /\ i' < LData'
      BY <2>0, <1>a, ChunkAssumption DEF CanSearch, LData, MinChunk
    <3>2. resolver' = "lookup" => scan' <= i' - MinChunk /\ foundLen' \in (MinChunk - 1)..MaxChunk
      BY <2>0, <2>2, <1>a, ChunkAssumption DEF MinChunk
    <3>3. resolver' = "tree" => scan' \in WindowStart'..i'
      BY <2>0, <2>1, <2>2, <1>a
    <3>4. i' <= LData' /\ LData' \in Nat /\ i' \in Nat
      BY <2>0, <3>1, <1>a DEF LData
    <3> QED BY <2>0, <3>1, <3>2, <3>3, <3>4 DEF CompressorOK
  <2>6. StreamOK' /\ DecodesToPrefix' /\ ReaderOK'
    BY <2>0, StreamUntouched DEF readerVars
  <2> QED BY <2>4, <2>5, <2>6
<1>2. CASE NoSearch
  <2>1. TypeOK' /\ CompressorOK'
    BY <1>2 DEF NoSearch, TypeOK, CompressorOK, LData, At, readerVars, searchVars
  <2>2. StreamOK' /\ DecodesToPrefix' /\ ReaderOK'
    BY <1>2, StreamUntouched DEF NoSearch
  <2> QED BY <2>1, <2>2
<1>3. CASE Finish
  <2>1. SubSeq(arg, LData + 1, Len(arg)) \in Seq(Byte)
    BY <1>a
  <2>2. TypeOK' /\ CompressorOK'
    BY <1>3, <1>a, <2>1 DEF Finish, TypeOK, CompressorOK, LData, At, readerVars, searchVars
  <2>3. StreamOK' /\ DecodesToPrefix' /\ ReaderOK'
    BY <1>3, StreamUntouched DEF Finish
  <2> QED BY <2>2, <2>3
<1>4. CASE LookupStep
  <2>1. UNCHANGED <<arg, resolver, pc, i, run, out, tail, starts, plain, read, copy>>
        /\ scan' = scan - 1 /\ scan >= WindowStart /\ WindowStart' = WindowStart
    BY <1>4, <1>a, WindowAssumption, SMTT(30) DEF MaxOffset, LookupStep, LookupOver, readerVars, WindowStart, TypeOK
  <2>2. WindowStart \in 0..i /\ scan <= i - 3 /\ foundLen \in 2..MaxChunk /\ resolver = "lookup" /\ pc = "search"
    BY <1>4, <1>a, WindowAssumption DEF MaxOffset, LookupStep, CompressorOK, WindowStart, MinChunk
  <2>3. \/ UNCHANGED <<foundLen, best>>
        \/ /\ foundLen' \in 3..MaxChunk /\ best' = scan /\ best' \in WindowStart..(i - 1)
           /\ Match(scan, foundLen')
    <3>1. CASE UNCHANGED <<foundLen, best>>
      BY <3>1
    <3>2. CASE \E n \in (foundLen + 1)..MaxChunk : MatchLen(scan, n) /\ foundLen' = n /\ best' = scan
      <4>1. PICK n \in (foundLen + 1)..MaxChunk : MatchLen(scan, n) /\ foundLen' = n /\ best' = scan
        BY <3>2
      <4>2. n \in 3..MaxChunk
        BY <2>2, ChunkAssumption DEF MinChunk
      <4>3. scan \in WindowStart..(i - 1)
        BY <2>1, <2>2, <1>a DEF TypeOK
      <4>4. Match(scan, n)
        BY <4>1 DEF MatchLen
      <4> QED BY <4>1, <4>2, <4>3, <4>4
    <3> QED BY <1>4, <3>1, <3>2 DEF LookupStep
  <2>4. \A loc, n : Match(loc, n)' <=> Match(loc, n)
    BY <2>1 DEF Match, At
  <2>5. TypeOK'
    BY <2>1, <2>3, <1>a, ChunkAssumption DEF TypeOK, MinChunk
  <2>6. CompressorOK'
    <3>1. best' # -1 => /\ best' \in WindowStart..(i - 1) /\ foundLen' \in MinChunk..MaxChunk
                        /\ Match(best', foundLen')
      BY <2>2, <2>3 DEF CompressorOK, MinChunk
    <3>2. foundLen' \in 2..MaxChunk /\ scan' <= i - 3
      BY <2>1, <2>2, <2>3, <1>a, ChunkAssumption, SMTT(30) DEF MinChunk, TypeOK
    <3>3. Match(best, foundLen)' <=> Match(best', foundLen')
      BY <2>1 DEF Match, At
    <3> QED BY <2>1, <2>2, <3>1, <3>2, <3>3 DEF CompressorOK, CanSearch, LData, MinChunk
  <2>7. StreamOK' /\ DecodesToPrefix' /\ ReaderOK'
    BY <2>1, <2>2, StreamUntouched DEF readerVars
  <2> QED BY <2>5, <2>6, <2>7
<1>5. CASE TreeStep
  <2>1. UNCHANGED <<arg, resolver, pc, i, run, out, tail, starts, plain, read, copy>>
        /\ scan' = scan + 1 /\ scan < i /\ WindowStart' = WindowStart
    BY <1>5, <1>a, WindowAssumption DEF MaxOffset, TreeStep, TreeOver, readerVars, WindowStart, TypeOK
  <2>2. WindowStart \in 0..i /\ scan \in WindowStart..i /\ resolver = "tree" /\ pc = "search"
    BY <1>5, <1>a, WindowAssumption DEF MaxOffset, TreeStep, CompressorOK, WindowStart
  <2>3. \/ UNCHANGED <<foundLen, best>>
        \/ /\ foundLen' \in 3..MaxChunk /\ best' = scan /\ best' \in WindowStart..(i - 1)
           /\ Match(scan, foundLen')
    <3>1. CASE UNCHANGED <<foundLen, best>>
      BY <3>1
    <3>2. CASE \E n \in 3..MaxChunk : MatchLen(scan, n) /\ foundLen' = n /\ best' = scan
      <4>1. PICK n \in 3..MaxChunk : MatchLen(scan, n) /\ foundLen' = n /\ best' = scan
        BY <3>2
      <4>2. scan \in WindowStart..(i - 1)
        BY <2>1, <2>2, <1>a
      <4>3. Match(scan, n)
        BY <4>1 DEF MatchLen
      <4> QED BY <4>1, <4>2, <4>3
    <3>3. \/ UNCHANGED <<foundLen, best>>
          \/ \E n \in 3..MaxChunk : MatchLen(scan, n) /\ foundLen' = n /\ best' = scan
      BY <1>5 DEF TreeStep, MinChunk
    <3> QED BY <3>1, <3>2, <3>3
  <2>5. TypeOK'
    BY <2>1, <2>3, <1>a, ChunkAssumption DEF TypeOK, MinChunk
  <2>6. CompressorOK'
    <3>1. best' # -1 => /\ best' \in WindowStart..(i - 1) /\ foundLen' \in MinChunk..MaxChunk
                        /\ Match(best', foundLen')
      BY <2>2, <2>3 DEF CompressorOK, MinChunk
    <3>2. scan' \in WindowStart..i
      BY <2>1, <2>2, <1>a
    <3>3. Match(best, foundLen)' <=> Match(best', foundLen')
      BY <2>1 DEF Match, At
    <3> QED BY <2>1, <2>2, <3>1, <3>2, <3>3 DEF CompressorOK, CanSearch, LData, MinChunk
  <2>7. StreamOK' /\ DecodesToPrefix' /\ ReaderOK'
    BY <2>1, <2>2, StreamUntouched DEF readerVars
  <2> QED BY <2>5, <2>6, <2>7
<1>6. CASE EmitPair
  <2> DEFINE offset == i - best
             t == PairCode(offset, foundLen)
  <2>1. /\ best \in WindowStart..(i - 1) /\ foundLen \in MinChunk..MaxChunk
        /\ Match(best, foundLen) /\ LData - i > MaxChunk /\ pc = "search"
    BY <1>6, <1>a DEF EmitPair, CompressorOK, CanSearch, TypeOK
  <2>2. offset \in 1..MaxOffset /\ offset \in 1..i /\ foundLen \in 3..10 /\ foundLen \in Nat \ {0}
        /\ i + foundLen <= LData
    BY <2>1, <1>a, WindowAssumption, ChunkAssumption DEF WindowStart, MinChunk, MaxOffset
  <2>3. t \in Seq(Byte)
    <3>1. \A o \in 1..MaxOffset, l \in 3..10 : PairCode(o, l) \in Seq(Byte)
      BY PairShape
    <3> HIDE DEF offset
    <3> QED BY <2>2, <3>1
  <2>4. Repeats(arg, i, offset, foundLen)
    <3>1. ASSUME NEW k \in 1..foundLen PROVE arg[i - offset + k] = arg[i + k]
      <4>1. k - 1 \in 0..(foundLen - 1)
        BY <2>2
      <4>2. At(best + (k - 1)) = At(i + (k - 1))
        BY <2>1, <4>1 DEF Match
      <4>3. best + (k - 1) + 1 = i - offset + k /\ i + (k - 1) + 1 = i + k
        BY <2>1, <1>a
      <4> QED BY <4>2, <4>3 DEF At
    <3> QED BY <2>2, <3>1 DEF Repeats
  <2>5. StandsFor(arg, t, i, i + foundLen)
    <3> HIDE DEF offset
    <3>1. t = PairCode(offset, foundLen) /\ Repeats(arg, i, offset, foundLen)
      BY <2>4
    <3> HIDE DEF t
    <3>2. StandsForPair(arg, t, i, i + foundLen)
      BY <2>1, <2>2, <3>1 DEF StandsForPair
    <3> QED BY <3>2 DEF StandsFor
  <2> HIDE DEF t
  <2> QED BY <1>6, <2>1, <2>2, <2>3, <2>5, EmitKeepsStream DEF EmitPair, t
<1>7. CASE NothingFound
  <2>1. TypeOK' /\ CompressorOK'
    BY <1>7 DEF NothingFound, TypeOK, CompressorOK, LData, At, readerVars, searchVars
  <2>2. StreamOK' /\ DecodesToPrefix' /\ ReaderOK'
    BY <1>7, StreamUntouched DEF NothingFound
  <2> QED BY <2>1, <2>2
<1>8. CASE EmitSpaceAndLetter
  <2> DEFINE t == <<At(i + 1) + 128>>
  <2>1. At(i) = Space /\ i + 1 < LData /\ At(i + 1) \in 64..127 /\ pc = "literal"
    <3>1. At(i) = Space /\ i + 1 < LData /\ At(i + 1) >= 64 /\ At(i + 1) < 128 /\ pc = "literal"
      BY <1>8 DEF EmitSpaceAndLetter, Letter
    <3>2. At(i + 1) \in 0..255
      BY <3>1, <1>a
    <3> QED BY <3>1, <3>2
  <2>2. t \in Seq(Byte) /\ 2 \in Nat \ {0} /\ i + 2 <= LData
    <3>1. At(i + 1) + 128 \in Byte
      BY <2>1 DEF Byte
    <3> QED BY <2>1, <3>1, <1>a
  <2>3. StandsFor(arg, t, i, i + 2)
    <3>1. Len(t) = 1 /\ t[1] \in 192..255 /\ At(i + 1) = t[1] - 128
      BY <2>1
    <3>2. arg[i + 1] = Space /\ arg[i + 2] = At(i + 1)
      <4>1. i + 1 + 1 = i + 2
        BY <1>a
      <4> QED BY <2>1, <4>1 DEF At
    <3> QED BY <3>1, <3>2 DEF StandsFor, StandsForSpaceAndLetter
  <2> HIDE DEF t
  <2> QED BY <1>8, <2>1, <2>2, <2>3, EmitKeepsStream DEF EmitSpaceAndLetter, t
<1>9. CASE EmitSingle
  <2> DEFINE t == <<At(i)>>
  <2>1. Single(At(i)) /\ i < LData /\ pc = "literal"
    BY <1>9, <1>a DEF EmitSingle, CompressorOK
  <2>2. t \in Seq(Byte) /\ 1 \in Nat \ {0} /\ i + 1 <= LData
    BY <2>1, <1>a
  <2>3. StandsFor(arg, t, i, i + 1)
    BY <2>1 DEF StandsFor, StandsForSingle, At
  <2> HIDE DEF t
  <2> QED BY <1>9, <2>1, <2>2, <2>3, EmitKeepsStream DEF EmitSingle, t
<1>10. CASE StartRun
  <2>1. TypeOK'
    BY <1>10 DEF StartRun, TypeOK, readerVars, searchVars
  <2>2. CompressorOK'
    BY <1>10, <1>a DEF StartRun, CompressorOK, LData, At, readerVars, searchVars
  <2>3. StreamOK' /\ DecodesToPrefix' /\ ReaderOK'
    BY <1>10, StreamUntouched DEF StartRun
  <2> QED BY <2>1, <2>2, <2>3
<1>11. CASE GrowRun
  <2>1. TypeOK'
    BY <1>11 DEF GrowRun, RunGoesOn, TypeOK, readerVars, searchVars
  <2>2. CompressorOK'
    <3>1. run \in 0..7 /\ i + run < LData /\ ~Single(At(i + run)) /\ pc = "run"
      BY <1>11, <1>a DEF GrowRun, RunGoesOn, TypeOK
    <3>2. run' = run + 1 /\ UNCHANGED <<arg, pc, i, LData>> /\ \A j : At(j)' = At(j)
      BY <1>11 DEF GrowRun, LData, At
    <3>3. \A k \in 0..run : ~Single(At(i + k))
      BY <3>1 DEF CompressorOK
    <3> QED BY <1>a, <3>1, <3>2, <3>3 DEF CompressorOK
  <2>3. StreamOK' /\ DecodesToPrefix' /\ ReaderOK'
    BY <1>11, StreamUntouched DEF GrowRun
  <2> QED BY <2>1, <2>2, <2>3
<1>12. CASE EmitRun
  <2> DEFINE t == <<run>> \o SubSeq(arg, i + 1, i + run)
  <2>1. run \in 1..8 /\ i + run <= LData /\ pc = "run"
    BY <1>12, <1>a DEF EmitRun, RunGoesOn, CompressorOK, TypeOK
  <2>2. SubSeq(arg, i + 1, i + run) \in Seq(Byte) /\ Len(SubSeq(arg, i + 1, i + run)) = run
        /\ \A k \in 1..run : SubSeq(arg, i + 1, i + run)[k] = arg[i + k]
    BY <2>1, <1>a
  <2>3. t \in Seq(Byte) /\ run \in Nat \ {0} /\ Len(t) = run + 1 /\ t[1] = run
        /\ \A k \in 1..run : t[k + 1] = arg[i + k]
    BY <2>1, <2>2 DEF Byte
  <2> HIDE DEF t
  <2>4. StandsFor(arg, t, i, i + run)
    BY <2>1, <2>3 DEF StandsFor, StandsForRun
  <2> QED BY <1>12, <2>1, <2>3, <2>4, EmitKeepsStream DEF EmitRun, t
<1>13. QED
  BY <1>1, <1>2, <1>3, <1>4, <1>5, <1>6, <1>7, <1>8, <1>9, <1>10, <1>11, <1>12 DEF Compress

-----------------------------------------------------------------------------
(* DecodesToPrefix, in the positions of the record. *)
LEMMA PrefixFacts ==
  ASSUME CodecInv
  PROVE  Len(plain) <= LData /\ \A k \in 1..Len(plain) : plain[k] = arg[k]
<1>1. ASSUME NEW k \in 1..Len(plain) PROVE plain[k] = arg[k]
  <2>1. plain[k] = At(k - 1) /\ k - 1 + 1 = k
    BY DEF CodecInv, TypeOK, DecodesToPrefix
  <2> QED BY <2>1 DEF At
<1>2. QED
  BY <1>1 DEF CodecInv, DecodesToPrefix

(* The element the reader reads next stands for the data after `plain'.    *)
LEMMA NextElement ==
  ASSUME CodecInv, CanRead
  PROVE  /\ Element \in Seq(Byte)
         /\ read + 1 \in 1..Len(out)
         /\ Len(plain) \in Nat
         /\ End(read + 1) <= LData
         /\ StandsFor(arg, Element, Len(plain), End(read + 1))
<1> USE DEF CodecInv
<1>1. /\ read \in Nat /\ read < Len(out) /\ Len(out) \in Nat /\ copy.left = 0 /\ Len(plain) \in Nat
      /\ Len(starts) = Len(out) /\ out \in Seq(Seq(Byte)) /\ starts \in Seq(Nat) /\ i \in Nat
  BY DEF CanRead, TypeOK, StreamOK
<1>2. read + 1 \in 1..Len(out) /\ Element \in Seq(Byte)
  BY <1>1 DEF Element
<1>3. Len(plain) = End(read)
  BY <1>1 DEF ReaderOK
<1>4. End(read) = starts[read + 1]
  <2>1. CASE read = 0
    <3>1. out # <<>>
      BY <1>1
    <3> QED BY <2>1, <3>1 DEF End, StreamOK
  <2>2. CASE read # 0
    BY <1>1, <2>2 DEF End
  <2> QED BY <2>1, <2>2
<1>5. StandsFor(arg, Element, Len(plain), End(read + 1))
  BY <1>2, <1>3, <1>4 DEF StreamOK, Element
<1>6. End(read + 1) <= i
  <2>1. CASE read + 1 < Len(starts)
    <3>1. read + 2 \in 1..Len(out) /\ End(read + 1) = starts[read + 2]
      BY <1>1, <2>1 DEF End
    <3> QED BY <3>1 DEF StreamOK
  <2>2. CASE ~(read + 1 < Len(starts))
    BY <1>1, <2>2 DEF End
  <2> QED BY <2>1, <2>2
<1>7. i <= LData /\ LData \in Nat /\ End(read + 1) \in Nat
  <2>1. CASE read + 1 < Len(starts)
    <3>1. read + 2 \in 1..Len(out) /\ End(read + 1) = starts[read + 2]
      BY <1>1, <2>1 DEF End
    <3> QED BY <1>1, <3>1, DataFacts, SMTT(30) DEF CompressorOK
  <2>2. CASE ~(read + 1 < Len(starts))
    BY <1>1, <2>2, DataFacts DEF End, CompressorOK
  <2> QED BY <2>1, <2>2
<1>8. QED
  BY <1>1, <1>2, <1>5, <1>6, <1>7

(* The first byte of an element decides what it stands for. *)
LEMMA FirstByteDecides ==
  ASSUME NEW a, NEW t, NEW s, NEW e, StandsFor(a, t, s, e)
  PROVE  /\ Single(t[1]) => StandsForSingle(a, t, s, e)
         /\ t[1] \in 1..8 => StandsForRun(a, t, s, e)
         /\ t[1] \in 192..255 => StandsForSpaceAndLetter(a, t, s, e)
         /\ t[1] \in 128..191 => StandsForPair(a, t, s, e)
         /\ StandsForPair(a, t, s, e) => t[1] \in 128..191 /\ Len(t) = 2
         /\ Single(t[1]) \/ t[1] \in 1..8 \/ t[1] \in 192..255 \/ t[1] \in 128..191
         /\ Len(t) = ElementLen(t[1])
<1>1. StandsForPair(a, t, s, e) => t[1] \in 128..191 /\ Len(t) = 2
  <2> SUFFICES ASSUME StandsForPair(a, t, s, e) PROVE t[1] \in 128..191 /\ Len(t) = 2
    OBVIOUS
  <2>1. PICK offset \in 1..s, len \in MinChunk..MaxChunk :
          offset \in 1..MaxOffset /\ t = PairCode(offset, len)
    BY DEF StandsForPair
  <2>2. len \in 3..10
    BY ChunkAssumption DEF MinChunk
  <2>3. \A o \in 1..MaxOffset, l \in 3..10 :
          PairCode(o, l)[1] \in 128..191 /\ Len(PairCode(o, l)) = 2
    BY PairShape
  <2> QED BY <2>1, <2>2, <2>3
<1>2. StandsForSingle(a, t, s, e) => t[1] = 0 \/ t[1] \in 9..127 \/ (t[1] > 8 /\ t[1] < 128)
  BY DEF StandsForSingle, Single
<1>3. StandsForSpaceAndLetter(a, t, s, e) => t[1] \in 192..255
  BY DEF StandsForSpaceAndLetter
<1>4. StandsForRun(a, t, s, e) => t[1] \in 1..8
  BY DEF StandsForRun
<1>5. CASE StandsForSingle(a, t, s, e)
  BY <1>5, <1>1 DEF StandsForSingle, Single, ElementLen
<1>6. CASE StandsForSpaceAndLetter(a, t, s, e)
  BY <1>6, <1>1 DEF StandsForSpaceAndLetter, Single, ElementLen
<1>7. CASE StandsForRun(a, t, s, e)
  <2>1. t[1] \in 1..8 /\ Len(t) = t[1] + 1
    BY <1>7 DEF StandsForRun
  <2>2. ~Single(t[1]) /\ t[1] \notin 192..255 /\ t[1] \notin 128..191 /\ ElementLen(t[1]) = t[1] + 1
    <3>1. \A b \in 1..8 : ~Single(b) /\ b \notin 192..255 /\ b \notin 128..191 /\ ElementLen(b) = b + 1
      BY DEF Single, ElementLen
    <3> QED BY <2>1, <3>1, ZenonT(30)
  <2> QED BY <1>7, <1>1, <2>1, <2>2
<1>8. CASE StandsForPair(a, t, s, e)
  BY <1>8, <1>1 DEF Single, ElementLen
<1>9. QED
  BY <1>5, <1>6, <1>7, <1>8 DEF StandsFor

(* A step of the reader that decodes the bytes p, which are those of the   *)
(* data, and then owes copy'.left more.                                    *)
Decodes(p) ==
  /\ UNCHANGED <<arg, resolver, pc, i, scan, best, foundLen, run, out, tail, starts>>
  /\ p \in Seq(Byte) /\ plain' = plain \o p
  /\ \A k \in 1..Len(p) : p[k] = arg[Len(plain) + k]
  /\ read' \in 0..Len(out) /\ copy' \in [offset : Nat, left : Nat]
  /\ Len(plain) + Len(p) + copy'.left = End(read)'
  /\ Len(plain) + Len(p) <= LData
  /\ copy'.left > 0 => Repeats(arg, Len(plain) + Len(p), copy'.offset, copy'.left)

LEMMA DecodeKeeps ==
  ASSUME CodecInv, pc = "done", NEW p, Decodes(p)
  PROVE  CodecInv'
<1> USE DEF CodecInv, Decodes
<1>1. UNCHANGED <<arg, resolver, pc, i, scan, best, foundLen, run, out, tail, starts>>
  BY DEF searchVars
<1>2. plain \in Seq(Byte) /\ plain' \in Seq(Byte) /\ Len(plain) \in Nat /\ Len(p) \in Nat
      /\ Len(plain') = Len(plain) + Len(p)
  BY DEF TypeOK
<1>3. TypeOK'
  BY <1>1, <1>2 DEF TypeOK
<1>4. CompressorOK'
  BY <1>1 DEF CompressorOK, LData
<1>5. StreamOK'
  BY <1>1 DEF StreamOK, End
<1>6. ReaderOK'
  BY <1>1, <1>2, <1>3 DEF ReaderOK, TypeOK
<1>7. DecodesToPrefix'
  <2>1. LData' = LData /\ \A j : At(j)' = At(j)
    BY <1>1 DEF LData, At
  <2>2. ASSUME NEW k \in 1..Len(plain') PROVE plain'[k] = arg[k]
    <3>1. CASE k \in 1..Len(plain)
      <4>1. plain'[k] = plain[k] /\ plain[k] = At(k - 1) /\ k - 1 + 1 = k
        BY <1>2, <3>1 DEF DecodesToPrefix
      <4> QED BY <4>1 DEF At
    <3>2. CASE k \in (Len(plain) + 1)..(Len(plain) + Len(p))
      <4>1. PICK j \in 1..Len(p) : k = Len(plain) + j
        BY <1>2, <3>2
      <4> QED BY <1>2, <4>1
    <3> QED BY <1>2, <3>1, <3>2
  <2>3. \A k \in 1..Len(plain') : k - 1 + 1 = k
    BY <1>2
  <2> QED BY <1>1, <1>2, <2>1, <2>2, <2>3 DEF DecodesToPrefix, At
<1>8. QED
  BY <1>3, <1>4, <1>5, <1>6, <1>7

(* Every step of the reader preserves the invariant. *)
LEMMA ReadStep == CodecInv /\ Read => CodecInv'
<1> SUFFICES ASSUME CodecInv, Read PROVE CodecInv'
  OBVIOUS
<1>a. plain \in Seq(Byte) /\ Len(plain) \in Nat /\ Len(out) \in Nat /\ read \in Nat
      /\ copy \in [offset : Nat, left : Nat]
  BY DEF CodecInv, TypeOK
<1> DEFINE s == Len(plain)
<1>1. ASSUME CanRead, read' = read + 1,
             UNCHANGED <<arg, resolver, pc, i, searchVars, run, out, tail, starts>>
      PROVE  /\ Element \in Seq(Byte) /\ read' \in 0..Len(out) /\ copy.left = 0 /\ pc = "done"
             /\ StandsFor(arg, Element, s, End(read)') /\ End(read)' <= LData
  <2>1. End(read)' = End(read + 1)
    BY <1>1 DEF End
  <2> QED BY <1>1, <1>a, <2>1, NextElement DEF CanRead
<1>2. CASE ReadSingle
  <2>1. /\ Single(Element[1]) /\ plain' = Append(plain, Element[1]) /\ CanRead /\ read' = read + 1
        /\ UNCHANGED <<arg, resolver, pc, i, searchVars, run, out, tail, starts, copy>>
    BY <1>2 DEF ReadSingle
  <2>2. StandsForSingle(arg, Element, s, End(read)')
    BY <1>1, <2>1, FirstByteDecides
  <2> DEFINE p == <<Element[1]>>
  <2>a. /\ pc = "done" /\ read' \in 0..Len(out) /\ copy.left = 0
        /\ End(read)' <= LData /\ Element \in Seq(Byte)
    BY <1>1, <2>1
  <2>3. p \in Seq(Byte) /\ Len(p) = 1 /\ p[1] = arg[s + 1] /\ plain' = plain \o p
    <3>1. Len(Element) = 1 /\ Element[1] = arg[s + 1]
      BY <2>2 DEF StandsForSingle
    <3>2. Element[1] \in Byte
      <4>1. 1 \in 1..Len(Element)
        BY <3>1
      <4> QED BY <2>a, <4>1
    <3> QED BY <1>a, <2>1, <3>1, <3>2
  <2>4. \A k \in 1..Len(p) : p[k] = arg[s + k]
    BY <2>3
  <2>5. s + Len(p) = End(read)' /\ s + Len(p) + copy'.left = End(read)'
    BY <2>a, <1>a, <2>1, <2>2, <2>3 DEF StandsForSingle
  <2> HIDE DEF p, s
  <2>6. /\ copy' \in [offset : Nat, left : Nat] /\ copy'.left = 0 /\ s + Len(p) <= LData
    BY <1>a, <2>a, <2>1, <2>5
  <2>7. Decodes(p)
    BY <2>a, <2>1, <2>3, <2>4, <2>5, <2>6 DEF Decodes, s, searchVars
  <2> QED BY <2>a, <2>7, DecodeKeeps
<1>3. CASE ReadRun
  <2>1. /\ Element[1] \in 1..8 /\ CanRead /\ read' = read + 1
        /\ plain' = plain \o SubSeq(Element, 2, Element[1] + 1)
        /\ UNCHANGED <<arg, resolver, pc, i, searchVars, run, out, tail, starts, copy>>
    BY <1>3 DEF ReadRun
  <2>2. StandsForRun(arg, Element, s, End(read)') /\ Element \in Seq(Byte)
    BY <1>1, <2>1, FirstByteDecides
  <2> DEFINE n == Element[1]
             p == SubSeq(Element, 2, n + 1)
  <2>3. n \in 1..8 /\ Len(Element) = n + 1 /\ End(read)' = s + n
        /\ \A k \in 1..n : Element[k + 1] = arg[s + k]
    BY <2>2 DEF StandsForRun
  <2> HIDE DEF n
  <2>4. p \in Seq(Byte) /\ Len(p) = n /\ \A k \in 1..n : p[k] = Element[k + 1]
    BY <2>2, <2>3
  <2> HIDE DEF p
  <2>5. \A k \in 1..Len(p) : p[k] = arg[s + k]
    BY <2>3, <2>4
  <2>6. s + Len(p) = End(read)' /\ s + Len(p) + copy'.left = End(read)' /\ plain' = plain \o p
    BY <1>1, <1>a, <2>1, <2>3, <2>4 DEF p, n
  <2>a. /\ pc = "done" /\ read' \in 0..Len(out) /\ copy.left = 0 /\ End(read)' <= LData
    BY <1>1, <2>1
  <2>7. /\ copy' \in [offset : Nat, left : Nat] /\ copy'.left = 0 /\ s + Len(p) <= LData
    BY <1>a, <2>a, <2>1, <2>6
  <2> HIDE DEF s
  <2>8. UNCHANGED <<arg, resolver, pc, i, scan, best, foundLen, run, out, tail, starts>>
    BY <2>1 DEF searchVars
  <2>9. s + Len(p) + copy'.left = End(read)' /\ plain' = plain \o p
    BY <2>6
  <2>10. Decodes(p)
    BY <2>a, <2>4, <2>5, <2>7, <2>8, <2>9 DEF Decodes, s
  <2> QED BY <2>a, <2>10, DecodeKeeps
<1>4. CASE ReadSpaceAndLetter
  <2>1. /\ Element[1] \in 192..255 /\ CanRead /\ read' = read + 1
        /\ plain' = plain \o <<Space, Element[1] - 128>>
        /\ UNCHANGED <<arg, resolver, pc, i, searchVars, run, out, tail, starts, copy>>
    BY <1>4 DEF ReadSpaceAndLetter
  <2>2. StandsForSpaceAndLetter(arg, Element, s, End(read)')
    BY <1>1, <2>1, FirstByteDecides
  <2> DEFINE p == <<Space, Element[1] - 128>>
  <2>3. p \in Seq(Byte) /\ Len(p) = 2 /\ p[1] = arg[s + 1] /\ p[2] = arg[s + 2]
    BY <2>1, <2>2 DEF StandsForSpaceAndLetter, Byte, Space
  <2>4. \A k \in 1..Len(p) : p[k] = arg[s + k]
    BY <2>3
  <2>5. s + Len(p) = End(read)' /\ s + Len(p) + copy'.left = End(read)'
    BY <1>1, <1>a, <2>1, <2>2, <2>3 DEF StandsForSpaceAndLetter
  <2>a. /\ pc = "done" /\ read' \in 0..Len(out) /\ copy.left = 0 /\ End(read)' <= LData
    BY <1>1, <2>1
  <2>6. plain' = plain \o p
    BY <2>1
  <2> HIDE DEF p
  <2>7. /\ copy' \in [offset : Nat, left : Nat] /\ copy'.left = 0 /\ s + Len(p) <= LData
    BY <1>a, <2>a, <2>1, <2>5
  <2> HIDE DEF s
  <2>8. Decodes(p)
    BY <2>a, <2>1, <2>3, <2>4, <2>5, <2>6, <2>7, SMTT(30) DEF Decodes, s, searchVars
  <2> QED BY <2>a, <2>8, DecodeKeeps
<1>5. CASE ReadPair
  <2>1. /\ Element[1] \in 128..191 /\ CanRead /\ read' = read + 1 /\ plain' = plain
        /\ copy' = [offset |-> (PairWord(Element) \div 8) % 2048,
                    left |-> (PairWord(Element) % 8) + MinChunk]
        /\ UNCHANGED <<arg, resolver, pc, i, searchVars, run, out, tail, starts>>
    BY <1>5 DEF ReadPair
  <2>2. StandsForPair(arg, Element, s, End(read)')
    BY <1>1, <2>1, FirstByteDecides
  <2>3. PICK offset \in 1..s, len \in MinChunk..MaxChunk :
          offset \in 1..MaxOffset /\ Element = PairCode(offset, len) /\ Repeats(arg, s, offset, len) /\ End(read)' = s + len
    BY <2>2 DEF StandsForPair
  <2>4. len \in 3..10 /\ len \in Nat /\ offset \in Nat
    BY <2>3, ChunkAssumption DEF MinChunk, MaxOffset
  <2>5. copy' = [offset |-> offset, left |-> len]
    BY <2>1, <2>3, <2>4, PairDecodes
  <2> DEFINE p == <<>>
  <2>6. p \in Seq(Byte) /\ Len(p) = 0 /\ plain' = plain \o p
    BY <1>a, <2>1
  <2>7. copy' \in [offset : Nat, left : Nat] /\ copy'.offset = offset /\ copy'.left = len
    BY <2>4, <2>5
  <2>8. s + Len(p) = s /\ s + Len(p) + copy'.left = End(read)' /\ s + Len(p) <= LData
    <3>1. LData \in Nat /\ s + len <= LData
      BY <1>1, <2>1, <2>3, DataFacts DEF CodecInv
    <3> QED BY <1>a, <2>3, <2>4, <2>6, <2>7, <3>1
  <2> HIDE DEF p
  <2>9. \A k \in 1..Len(p) : p[k] = arg[s + k]
    BY <2>6
  <2>10. copy'.left > 0 => Repeats(arg, s + Len(p), copy'.offset, copy'.left)
    BY <2>3, <2>7, <2>8
  <2>a. pc = "done" /\ read' \in 0..Len(out)
    BY <1>1, <2>1
  <2> HIDE DEF s
  <2>11. Decodes(p)
    BY <2>a, <2>1, <2>6, <2>7, <2>8, <2>9, <2>10 DEF Decodes, s, searchVars
  <2> QED BY <2>a, <2>11, DecodeKeeps
<1>6. CASE CopyByte
  <2>1. /\ copy.left > 0 /\ plain' = Append(plain, plain[s + 1 - copy.offset])
        /\ copy' = [copy EXCEPT !.left = @ - 1]
        /\ UNCHANGED <<arg, resolver, pc, i, searchVars, run, out, tail, starts, read>>
    BY <1>6 DEF CopyByte
  <2>2. pc = "done" /\ Repeats(arg, s, copy.offset, copy.left) /\ s + copy.left = End(read)
        /\ read \in 0..Len(out)
    BY <2>1, <1>a DEF CodecInv, ReaderOK
  <2>3. copy.offset \in 1..s /\ \A k \in 1..copy.left : arg[s - copy.offset + k] = arg[s + k]
    BY <2>2 DEF Repeats
  <2> DEFINE p == <<plain[s + 1 - copy.offset]>>
  <2>4. s + 1 - copy.offset \in 1..s
    BY <1>a, <2>3
  <2>5. plain[s + 1 - copy.offset] = arg[s + 1] /\ plain[s + 1 - copy.offset] \in Byte
    <3>1. plain[s + 1 - copy.offset] = arg[s + 1 - copy.offset]
      <4>1. \A k \in 1..s : plain[k] = arg[k]
        BY PrefixFacts
      <4> QED BY <2>4, <4>1
    <3>2. arg[s - copy.offset + 1] = arg[s + 1] /\ s - copy.offset + 1 = s + 1 - copy.offset
      <4>1. 1 \in 1..copy.left
        BY <1>a, <2>1
      <4> HIDE DEF s
      <4>2. arg[s - copy.offset + 1] = arg[s + 1]
        BY <2>3, <4>1
      <4>3. s - copy.offset + 1 = s + 1 - copy.offset
        BY <1>a DEF s
      <4> QED BY <4>2, <4>3
    <3> QED BY <1>a, <2>4, <3>1, <3>2
  <2>6. p \in Seq(Byte) /\ Len(p) = 1 /\ p[1] = arg[s + 1] /\ plain' = plain \o p
    BY <1>a, <2>1, <2>5
  <2> HIDE DEF p
  <2>7. \A k \in 1..Len(p) : p[k] = arg[s + k]
    BY <2>6
  <2>8. copy' \in [offset : Nat, left : Nat] /\ copy'.left = copy.left - 1 /\ copy'.offset = copy.offset
    BY <1>a, <2>1, SMTT(30)
  <2>9. End(read)' = End(read)
    BY <2>1 DEF End
  <2>10. s + Len(p) + copy'.left = End(read)' /\ s + Len(p) <= LData
    <3>1. End(read) <= LData /\ LData \in Nat
      <4>1. LData \in Nat /\ i <= LData /\ i \in Nat
        BY DataFacts DEF CodecInv, CompressorOK, TypeOK
      <4>2. End(read) <= i
        <5>1. CASE read # 0 /\ read < Len(starts)
          <6>1. read + 1 \in 1..Len(out) /\ End(read) = starts[read + 1]
            BY <1>a, <5>1 DEF End, CodecInv, StreamOK
          <6> QED BY <6>1 DEF CodecInv, StreamOK
        <5>2. CASE ~(read # 0 /\ read < Len(starts))
          BY <4>1, <5>2 DEF End
        <5> QED BY <5>1, <5>2
      <4> QED BY <1>a, <2>2, <4>1, <4>2
    <3>2. s \in Nat /\ copy.left \in Nat /\ copy.left > 0 /\ Len(p) = 1 /\ copy'.left = copy.left - 1
          /\ s + copy.left = End(read) /\ End(read)' = End(read)
      BY <1>a, <2>1, <2>2, <2>6, <2>8, <2>9
    <3> HIDE DEF s
    <3>3. End(read) \in Nat
      BY <3>2
    <3> QED BY <3>1, <3>2, <3>3
  <2>11. copy'.left > 0 => Repeats(arg, s + Len(p), copy'.offset, copy'.left)
    <3>1. ASSUME NEW k \in 1..copy'.left PROVE arg[s + 1 - copy.offset + k] = arg[s + 1 + k]
      <4>1. k + 1 \in 1..copy.left
        BY <1>a, <2>8
      <4>2. arg[s - copy.offset + (k + 1)] = arg[s + (k + 1)]
        BY <2>3, <4>1
      <4>3. s - copy.offset + (k + 1) = s + 1 - copy.offset + k /\ s + (k + 1) = s + 1 + k
        BY <1>a
      <4> QED BY <4>2, <4>3
    <3> QED BY <1>a, <2>3, <2>6, <2>8, <3>1 DEF Repeats
  <2>12. read' \in 0..Len(out)
    BY <2>1, <2>2
  <2>13. Decodes(p)
    BY <2>1, <2>2, <2>6, <2>7, <2>8, <2>10, <2>11, <2>12 DEF Decodes, searchVars
  <2> QED BY <2>2, <2>13, DecodeKeeps
<1>7. QED
  BY <1>2, <1>3, <1>4, <1>5, <1>6 DEF Read

LEMMA CodecStep == CodecInv /\ [Next]_vars => CodecInv'
<1> SUFFICES ASSUME CodecInv, [Next]_vars PROVE CodecInv'
  OBVIOUS
<1>1. CASE UNCHANGED vars
  <2>1. UNCHANGED <<arg, resolver, pc, i, scan, best, foundLen, run, out, tail, starts, plain, read, copy>>
    BY <1>1 DEF vars, searchVars, readerVars
  <2>2. TypeOK'
    BY <2>1 DEF CodecInv, TypeOK
  <2>3. CompressorOK'
    BY <2>1 DEF CodecInv, CompressorOK, CanSearch, WindowStart, Match, LData, At
  <2>4. StreamOK' /\ DecodesToPrefix' /\ ReaderOK'
    BY <2>1 DEF CodecInv, StreamOK, DecodesToPrefix, ReaderOK, End, LData, At
  <2> QED BY <2>2, <2>3, <2>4 DEF CodecInv
<1>2. CASE Next
  BY <1>1, <1>2, CompressStep, ReadStep DEF Next, Done
<1>3. QED
  BY <1>1, <1>2

(* The part of the invariant that does not speak of the best match. *)
LEMMA CodecInvariance == Spec => []CodecInv
<1>1. QED
  BY InitCodec, CodecStep, PTL DEF Spec

-----------------------------------------------------------------------------
(* The search.                                                             *)

(* Every match of MinChunk bytes has a length, at most MaxChunk. *)
LEMMA MatchHasLength ==
  ASSUME NEW j \in Int, Match(j, MinChunk)
  PROVE  \E n \in MinChunk..MaxChunk : MatchLen(j, n)
<1> SUFFICES ASSUME \A n \in MinChunk..MaxChunk : ~MatchLen(j, n) PROVE FALSE
  OBVIOUS
<1> DEFINE I == {n \in Nat : 3 + n <= MaxChunk => Match(j, 3 + n)}
<1>1. 0 \in I
  BY DEF MinChunk
<1>2. ASSUME NEW n \in Nat, n \in I PROVE n + 1 \in I
  <2> SUFFICES ASSUME 3 + (n + 1) <= MaxChunk PROVE Match(j, 3 + (n + 1))
    OBVIOUS
  <2>1. 3 + n \in MinChunk..MaxChunk /\ 3 + n # MaxChunk /\ 3 + n \in Nat
    BY ChunkAssumption DEF MinChunk
  <2>2. Match(j, 3 + n)
    BY <1>2, <2>1
  <2>3. At(j + (3 + n)) = At(i + (3 + n))
    BY <2>1, <2>2 DEF MatchLen
  <2>4. ASSUME NEW k \in 0..(3 + (n + 1) - 1) PROVE k \in 0..((3 + n) - 1) \/ k = 3 + n
    OBVIOUS
  <2> QED BY <2>2, <2>3, <2>4 DEF Match
<1>3. \A n \in Nat : n \in I
  BY <1>1, <1>2, Induction
<1>4. MaxChunk - 3 \in Nat /\ 3 + (MaxChunk - 3) = MaxChunk /\ MaxChunk \in MinChunk..MaxChunk
  BY ChunkAssumption DEF MinChunk
<1>5. Match(j, MaxChunk)
  BY <1>3, <1>4
<1> QED BY <1>4, <1>5 DEF MatchLen

(* The numbers of the search, while it goes on. *)
LEMMA SearchFacts ==
  ASSUME CodecInv, pc = "search"
  PROVE  /\ i \in Nat /\ MaxChunk \in 3..10 /\ i > MaxChunk /\ WindowStart \in 0..i
         /\ scan \in Int /\ best \in Int /\ foundLen \in Int
         /\ resolver = "lookup" => scan <= i - 3 /\ foundLen \in 2..MaxChunk
         /\ resolver = "tree" => scan \in WindowStart..i
         /\ resolver \in {"tree", "lookup"}
         /\ best # -1 => best \in Nat /\ foundLen \in 3..MaxChunk
<1>1. i \in Nat /\ MaxChunk \in 3..10 /\ i > MaxChunk
  BY ChunkAssumption DEF CodecInv, TypeOK, CompressorOK, CanSearch, MinChunk
<1>2. WindowStart \in 0..i
  BY <1>1, WindowAssumption DEF WindowStart, MaxOffset
<1> QED BY <1>1, <1>2 DEF CodecInv, TypeOK, CompressorOK, MinChunk, Resolvers

(* Comparing one position keeps what is said of those compared before. *)
LEMMA SearchStep ==
  ASSUME CodecInv, CodecInv', SearchOK, LookupStep \/ TreeStep
  PROVE  SearchOK'
<1>1. /\ pc = "search" /\ UNCHANGED <<arg, resolver, pc, i>>
      /\ scan' = IF resolver = "lookup" THEN scan - 1 ELSE scan + 1
  BY DEF LookupStep, TreeStep
<1>2. WindowStart' = WindowStart /\ (\A j, n : MatchLen(j, n)' <=> MatchLen(j, n))
      /\ \A j, n : Match(j, n)' <=> Match(j, n)
  BY <1>1 DEF WindowStart, MatchLen, Match, At
<1>3. /\ i \in Nat /\ MaxChunk \in 3..10 /\ WindowStart \in 0..i /\ scan \in Int /\ MinChunk = 3
      /\ best \in Int /\ foundLen \in Int /\ best' \in Int /\ foundLen' \in Int
      /\ best # -1 => best \in Nat /\ foundLen \in 3..MaxChunk
  BY <1>1, SearchFacts DEF MinChunk, CodecInv, TypeOK
<1>4. /\ best = -1 => foundLen < 3
      /\ best # -1 => best \in Compared /\ MatchLen(best, foundLen)
      /\ \A j \in Compared : Match(j, 3) => NotBetter(j)
  BY <1>1 DEF SearchOK, MinChunk
<1>5. Compared' = Compared \cup {scan} /\ Compared \subseteq Int
      /\ (resolver = "lookup" => scan \in WindowStart..(i - 3))
      /\ \A j \in Compared : IF resolver = "lookup" THEN j > scan ELSE j < scan
  <2>1. CASE resolver = "lookup"
    <3>1. scan >= WindowStart /\ scan <= i - 3
      BY <1>1, <1>3, <2>1, SearchFacts DEF LookupStep, LookupOver, TreeStep
    <3>2. Compared = {j \in WindowStart..(i - 3) : j > scan} /\ Compared' = {j \in WindowStart..(i - 3) : j > scan - 1}
      BY <1>1, <1>2, <1>3, <2>1 DEF Compared
    <3> QED BY <1>1, <1>3, <2>1, <3>1, <3>2
  <2>2. CASE resolver = "tree"
    <3>1. Compared = WindowStart..(scan - 1) /\ Compared' = WindowStart..scan /\ scan \in WindowStart..i
      <4>1. (scan + 1) - 1 = scan
        BY <1>3
      <4> QED BY <1>1, <1>2, <2>2, <4>1, SearchFacts DEF Compared
    <3> QED BY <1>3, <2>2, <3>1
  <2> QED BY <1>1, <2>1, <2>2, SearchFacts
(* Either the position is not better, or it is the best from now on. *)
<1> DEFINE Left == UNCHANGED <<foundLen, best>> /\ (Match(scan, 3) => NotBetter(scan))
           Taken == /\ foundLen' \in 3..MaxChunk /\ best' = scan /\ MatchLen(scan, foundLen')
                    /\ IF resolver = "lookup" THEN foundLen < foundLen' ELSE foundLen <= foundLen'
<1>6. Left \/ Taken
  <2>1. CASE LookupStep
    <3>1. CASE \E n \in (foundLen + 1)..MaxChunk : MatchLen(scan, n) /\ foundLen' = n /\ best' = scan
      <4>1. foundLen \in 2..MaxChunk /\ resolver = "lookup"
        BY <1>1, <2>1, SearchFacts DEF LookupStep
      <4> QED BY <1>3, <3>1, <4>1
    <3>2. CASE ~Match(scan, foundLen + 1) /\ UNCHANGED <<foundLen, best>>
      <4>1. foundLen \in 2..MaxChunk
        BY <1>1, <2>1, SearchFacts DEF LookupStep
      <4>2. ASSUME Match(scan, 3) PROVE NotBetter(scan)
        <5>1. best # -1
          <6>1. best = -1 => foundLen + 1 = 3
            BY <1>3, <1>4, <4>1
          <6> QED BY <3>2, <4>2, <6>1
        <5>2. PICK n \in 3..MaxChunk : MatchLen(scan, n)
          BY <1>3, <4>2, MatchHasLength
        <5>3. n <= foundLen
          <6> SUFFICES ASSUME n > foundLen PROVE FALSE
            BY <1>3, <5>2
          <6>1. Match(scan, n)
            BY <5>2 DEF MatchLen
          <6>2. \A k \in 0..((foundLen + 1) - 1) : k \in 0..(n - 1)
            BY <1>3, <4>1, <5>2
          <6> QED BY <3>2, <6>1, <6>2 DEF Match
        <5>4. scan <= best
          BY <1>3, <1>4, <1>5, <2>1, <5>1 DEF LookupStep
        <5> QED BY <1>3, <5>2, <5>3, <5>4 DEF NotBetter
      <4> QED BY <3>2, <4>2
    <3> QED BY <2>1, <3>1, <3>2 DEF LookupStep
  <2>2. CASE TreeStep
    <3>1. CASE ~Match(scan, 3) /\ UNCHANGED <<foundLen, best>>
      BY <3>1
    <3>2. ASSUME NEW n \in 3..MaxChunk, MatchLen(scan, n),
                 IF n >= foundLen THEN foundLen' = n /\ best' = scan ELSE UNCHANGED <<foundLen, best>>
          PROVE  Left \/ Taken
      <4>1. CASE n >= foundLen
        BY <1>3, <2>2, <3>2, <4>1 DEF TreeStep
      <4>2. CASE n < foundLen
        <5>1. UNCHANGED <<foundLen, best>>
          BY <1>3, <3>2, <4>2
        <5>2. NotBetter(scan)
          BY <1>3, <3>2, <4>2 DEF NotBetter
        <5> QED BY <5>1, <5>2
      <4> QED BY <1>3, <4>1, <4>2
    <3> QED BY <1>3, <2>2, <3>1, <3>2 DEF TreeStep
  <2> QED BY <2>1, <2>2
<1>7. CASE Left
  <2>1. \A j : NotBetter(j)' <=> NotBetter(j)
    BY <1>1, <1>2, <1>7 DEF NotBetter
  <2>2. \A j \in Compared' : Match(j, 3)' => NotBetter(j)'
    BY <1>2, <1>4, <1>5, <1>7, <2>1
  <2>3. /\ best' = -1 => foundLen' < 3
        /\ best' # -1 => best' \in Compared' /\ MatchLen(best, foundLen)'
    BY <1>2, <1>4, <1>5, <1>7 DEF MatchLen, Match, At
  <2> HIDE DEF Left, Taken
  <2> QED BY <1>1, <1>2, <1>3, <1>5, <2>2, <2>3 DEF SearchOK, MinChunk
<1>8. CASE Taken
  <2>1. scan \in Compared' /\ best' # -1
    BY <1>3, <1>5, <1>8, <1>1, SearchFacts
  <2>2. MatchLen(best, foundLen)'
    BY <1>1, <1>8 DEF MatchLen, Match, At
  <2>3. ASSUME NEW j \in Compared, Match(j, 3) PROVE NotBetter(j)'
    <3>1. PICK n \in 3..MaxChunk : MatchLen(j, n) /\ (n < foundLen \/ (n = foundLen /\ j <= best))
      BY <1>3, <1>4, <2>3 DEF NotBetter
    <3>2. n < foundLen' \/ (n = foundLen' /\ j <= scan)
      BY <1>3, <1>5, <1>8, <3>1
    <3>3. MatchLen(j, n)'
      BY <1>2, <3>1
    <3> QED BY <1>1, <1>3, <1>8, <3>1, <3>2, <3>3 DEF NotBetter
  <2> PICK s : s = scan
    OBVIOUS
  <2> PICK n : n = foundLen'
    OBVIOUS
  <2>4. NotBetter(s)'
    <3>1. MatchLen(s, n)' /\ s <= best' /\ n \in MinChunk..MaxChunk
      BY <1>2, <1>3, <1>8
    <3> QED BY <1>3, <3>1 DEF NotBetter
  <2>5. ASSUME NEW j \in Compared', Match(j, 3)' PROVE NotBetter(j)'
    <3>1. CASE j = s
      BY <2>4, <3>1
    <3>2. CASE j \in Compared
      BY <1>2, <2>3, <2>5, <3>2
    <3> QED BY <1>5, <3>1, <3>2
  <2> QED BY <1>1, <1>2, <1>3, <1>5, <1>8, <2>1, <2>2, <2>5 DEF SearchOK, MinChunk
<1> QED BY <1>6, <1>7, <1>8

(* A search begins with nothing compared, and other steps are not in one.  *)
LEMMA SearchInductive ==
  ASSUME CodecInv, CodecInv', SearchOK, [Next]_vars
  PROVE  SearchOK'
<1>1. CASE LookupStep \/ TreeStep
  BY <1>1, SearchStep
<1>2. CASE StartSearch
  <2>1. /\ pc' = "search" /\ best' = -1 /\ UNCHANGED <<arg, resolver, i>> /\ CanSearch
        /\ IF resolver = "lookup" THEN scan' = i - 3 /\ foundLen' = 2 ELSE scan' = WindowStart /\ foundLen' = -1
    BY <1>2 DEF StartSearch, MinChunk
  <2>2. WindowStart' = WindowStart /\ WindowStart \in 0..i /\ i \in Nat /\ i > MaxChunk /\ MaxChunk \in 3..10
    <3>1. i \in Nat /\ i > MaxChunk /\ MaxChunk \in 3..10
      BY <2>1, ChunkAssumption DEF CanSearch, CodecInv, TypeOK, MinChunk
    <3> QED BY <2>1, <3>1, WindowAssumption DEF WindowStart, MaxOffset
  <2>3. Compared' = {}
    BY <2>1, <2>2 DEF Compared, MinChunk
  <2>4. foundLen' < 3
    BY <2>1
  <2> QED BY <2>1, <2>2, <2>3, <2>4 DEF SearchOK, MinChunk
<1>3. ASSUME pc' # "search" PROVE SearchOK'
  BY <1>3 DEF SearchOK
<1>4. CASE pc = "done" /\ pc' = pc
  BY <1>3, <1>4
<1>5. CASE NoSearch \/ Finish \/ EmitPair \/ NothingFound \/ EmitSpaceAndLetter \/ EmitSingle \/ StartRun \/ EmitRun
  BY <1>3, <1>5 DEF NoSearch, Finish, EmitPair, NothingFound, EmitSpaceAndLetter, EmitSingle, StartRun, EmitRun, Emit
<1>6. CASE GrowRun
  BY <1>3, <1>6 DEF GrowRun
<1>7. CASE UNCHANGED vars
  <2>1. UNCHANGED <<arg, resolver, pc, i, scan, best, foundLen>>
    BY <1>7 DEF vars, searchVars
  <2> QED BY <2>1 DEF SearchOK, Compared, NotBetter, MatchLen, Match, At, WindowStart
<1>8. CASE Read
  <2>1. pc = "done" /\ pc' = pc
    <3>1. CASE ReadSingle \/ ReadRun \/ ReadSpaceAndLetter \/ ReadPair
      BY <3>1 DEF ReadSingle, ReadRun, ReadSpaceAndLetter, ReadPair, CanRead
    <3>2. CASE CopyByte
      BY <3>2 DEF CopyByte, CodecInv, ReaderOK
    <3> QED BY <1>8, <3>1, <3>2 DEF Read
  <2> QED BY <1>4, <2>1
<1> QED BY <1>1, <1>2, <1>5, <1>6, <1>7, <1>8 DEF Next, Compress, Done

-----------------------------------------------------------------------------
(* The invariant holds in every reachable state. *)
THEOREM Invariance == Spec => []IndInv
<1>1. Init => SearchOK
  BY DEF Init, SearchOK
<1>2. CodecInv /\ CodecInv' /\ SearchOK /\ [Next]_vars => SearchOK'
  BY SearchInductive
<1>3. CodecInv /\ SearchOK => IndInv
  BY DEF IndInv
<1> QED BY <1>1, <1>2, <1>3, CodecInvariance, PTL DEF Spec

(* Types of the state, for every set of records. *)
THEOREM TypeCorrect == Spec => []TypeOK
<1>1. CodecInv => TypeOK
  BY DEF CodecInv
<1>2. QED
  BY <1>1, CodecInvariance, PTL

(* compression.go: no element of the stream means another text than the    *)
(* one it replaces, for either resolver.                                   *)
THEOREM Lossless == Spec => []DecodesToPrefix
<1>1. CodecInv => DecodesToPrefix
  BY DEF CodecInv
<1>2. QED
  BY <1>1, CodecInvariance, PTL

(* compression.go: the finished record is read back whole, tail included.  *)
THEOREM RoundTrip == Spec => []Restored
<1>1. CodecInv => Restored
  <2> SUFFICES ASSUME CodecInv, AllRead PROVE plain \o tail = arg
    BY DEF Restored
  <2>1. /\ pc = "done" /\ copy.left = 0 /\ read = Len(out) /\ i = LData
        /\ tail = SubSeq(arg, LData + 1, Len(arg))
    BY DEF AllRead, CodecInv, CompressorOK
  <2>2. arg \in Seq(Byte) /\ Len(arg) \in Nat /\ LData \in 0..(Len(arg) - 1)
    BY DataFacts DEF CodecInv
  <2>3. plain \in Seq(Byte) /\ Len(out) \in Nat /\ Len(starts) = Len(out) /\ Len(plain) \in Nat
    BY DEF CodecInv, TypeOK, StreamOK
  <2>4. End(Len(out)) = LData
    <3>1. CASE out = <<>>
      BY <2>1, <3>1 DEF End, CodecInv, StreamOK
    <3>2. CASE out # <<>>
      BY <2>1, <2>3, <3>2 DEF End
    <3> QED BY <3>1, <3>2
  <2>5. Len(plain) = LData
    BY <2>1, <2>3, <2>4 DEF CodecInv, ReaderOK
  <2>6. \A k \in 1..LData : plain[k] = arg[k]
    BY <2>5, PrefixFacts
  <2>7. tail \in Seq(Byte) /\ Len(tail) = Len(arg) - LData
        /\ \A k \in 1..(Len(arg) - LData) : tail[k] = arg[LData + k]
    BY <2>1, <2>2
  <2>8. plain \o tail \in Seq(Byte) /\ Len(plain \o tail) = Len(arg)
    BY <2>2, <2>3, <2>5, <2>7
  <2> DEFINE whole == plain \o tail
  <2>9. ASSUME NEW k \in 1..Len(arg) PROVE whole[k] = arg[k]
    <3>1. CASE k \in 1..LData
      BY <2>2, <2>3, <2>5, <2>6, <2>7, <3>1
    <3>2. CASE k \in (LData + 1)..Len(arg)
      <4>1. PICK j \in 1..(Len(arg) - LData) : k = LData + j
        <5>1. k - LData \in 1..(Len(arg) - LData) /\ k = LData + (k - LData)
          BY <2>2, <3>2
        <5> QED BY <5>1
      <4>2. whole[LData + j] = tail[j]
        BY <2>2, <2>3, <2>5, <2>7, <4>1
      <4>3. tail[j] = arg[LData + j]
        BY <2>7, <4>1
      <4> HIDE DEF whole
      <4>4. whole[LData + j] = arg[LData + j]
        BY <4>2, <4>3
      <4> DEFINE m == LData + j
      <4>5. whole[m] = arg[m] /\ k = m
        BY <4>1, <4>4
      <4> HIDE DEF m
      <4> QED BY <4>5
    <3> HIDE DEF whole
    <3>3. k \in 1..LData \/ k \in (LData + 1)..Len(arg)
      BY <2>2
    <3> QED BY <3>1, <3>2, <3>3
  <2> QED BY <2>2, <2>8, <2>9, SeqEqual
<1>2. QED
  BY <1>1, CodecInvariance, PTL

(* compression.go: the first byte of each element tells its length. *)
THEOREM CutWithoutMarks == Spec => []SelfDelimiting
<1>1. CodecInv => SelfDelimiting
  <2> SUFFICES ASSUME CodecInv, NEW k \in DOMAIN out PROVE Len(out[k]) = ElementLen(out[k][1])
    BY DEF SelfDelimiting
  <2>1. StandsFor(arg, out[k], starts[k], End(k))
    BY DEF CodecInv, StreamOK, TypeOK
  <2> QED BY <2>1, FirstByteDecides
<1>2. QED
  BY <1>1, CodecInvariance, PTL

(* compression.go:56-60: the slices the resolvers take are inside the data. *)
THEOREM NoPanic == Spec => []SlicesInBounds
<1>1. CodecInv => SlicesInBounds
  <2> SUFFICES ASSUME CodecInv, pc = "search"
               PROVE  i + MaxChunk <= LData /\ (~SearchOver => scan >= 0 /\ scan + MaxChunk <= LData)
    BY DEF SlicesInBounds
  <2>1. LData \in Nat /\ i \in Nat /\ scan \in Int /\ MaxChunk \in 3..10 /\ LData - i > MaxChunk
    BY DataFacts, ChunkAssumption DEF CodecInv, TypeOK, CompressorOK, CanSearch, MinChunk
  <2>2. WindowStart \in 0..i
    BY <2>1, WindowAssumption DEF WindowStart, MaxOffset
  <2>3. ~SearchOver => scan >= WindowStart /\ scan <= i
    BY <2>1, <2>2 DEF CodecInv, CompressorOK, TypeOK, SearchOver, LookupOver, TreeOver, MinChunk, Resolvers
  <2> QED BY <2>1, <2>2, <2>3
<1>2. QED
  BY <1>1, CodecInvariance, PTL

(* compression.go:125-127, 251: the answer of either findChunk is a        *)
(* longest match of the window, and the last one of that length.           *)
THEOREM FindsLongest == Spec => []LongestMatch
<1>1. IndInv => LongestMatch
  <2> SUFFICES ASSUME IndInv, pc = "search", SearchOver PROVE LongestMatch
    BY DEF LongestMatch
  <2> DEFINE last == IF resolver = "lookup" THEN i - MinChunk ELSE i - 1
             candidates == {j \in 0..last : i - j <= Window /\ Match(j, MinChunk)}
  <2>1. CodecInv /\ SearchOK
    BY DEF IndInv
  <2>2. /\ i \in Nat /\ MaxChunk \in 3..10 /\ WindowStart \in 0..i /\ scan \in Int /\ MinChunk = 3
        /\ best \in Int /\ foundLen \in Int /\ i > MaxChunk
        /\ best # -1 => best \in Nat /\ foundLen \in 3..MaxChunk
        /\ resolver \in {"tree", "lookup"}
    BY <2>1, SearchFacts DEF MinChunk
  <2>3. \A j \in Int : j \in candidates <=> j \in WindowStart..last /\ Match(j, 3)
    BY <2>2, WindowAssumption DEF WindowStart, MaxOffset
  <2>4. /\ best = -1 => foundLen < 3
        /\ best # -1 => best \in Compared /\ MatchLen(best, foundLen)
        /\ \A j \in Compared : Match(j, 3) => NotBetter(j)
    BY <2>1, <2>2 DEF SearchOK
  <2>5. Compared \subseteq WindowStart..last
    BY <2>1, <2>2, SearchFacts DEF Compared
  <2>6. ASSUME NEW j \in WindowStart..last, Match(j, 3) PROVE NotBetter(j)
    <3>1. CASE j \in Compared
      BY <2>4, <2>6, <3>1
    <3>2. CASE j \notin Compared
      <4>1. resolver = "lookup" /\ foundLen >= MaxChunk /\ j <= scan
        <5>1. CASE resolver = "tree"
          <6>1. scan >= i /\ scan <= i
            BY <2>1, <5>1, SearchFacts DEF SearchOver, TreeOver
          <6> QED BY <2>2, <3>2, <5>1, <6>1 DEF Compared
        <5>2. CASE resolver = "lookup"
          <6>1. j <= scan
            BY <2>2, <3>2, <5>2 DEF Compared
          <6>2. foundLen >= MaxChunk \/ scan < WindowStart
            BY <5>2 DEF SearchOver, LookupOver
          <6> QED BY <2>2, <5>2, <6>1, <6>2
        <5> QED BY <2>2, <5>1, <5>2
      <4>2. best # -1 /\ foundLen = MaxChunk
        BY <2>2, <2>4, <4>1
      <4>3. j <= best
        BY <2>2, <2>4, <4>1, <4>2 DEF Compared
      <4>4. PICK n \in 3..MaxChunk : MatchLen(j, n)
        <5>1. j \in Int
          BY <2>2
        <5> QED BY <2>2, <2>6, <5>1, MatchHasLength
      <4> QED BY <2>2, <4>2, <4>3, <4>4 DEF NotBetter
    <3> QED BY <3>1, <3>2
  <2>7. \A j \in candidates : NotBetter(j)
    BY <2>2, <2>3, <2>6
  <2>8. best # -1 => best \in candidates
    <3> SUFFICES ASSUME best # -1 PROVE best \in WindowStart..last /\ Match(best, 3)
      BY <2>2, <2>3
    <3>1. Match(best, foundLen) /\ 0..2 \subseteq 0..(foundLen - 1)
      BY <2>2, <2>4 DEF MatchLen
    <3>2. Match(best, 3)
      <4>1. \A k \in 0..2 : At(best + k) = At(i + k)
        BY <3>1 DEF Match
      <4> QED BY <4>1 DEF Match
    <3> QED BY <2>4, <2>5, <3>2
  <2>9. candidates = {} <=> best = -1
    <3>1. ASSUME NEW j \in candidates, best = -1 PROVE FALSE
      <4>1. PICK n \in 3..MaxChunk : n < foundLen \/ n = foundLen
        BY <2>2, <2>7, <3>1 DEF NotBetter
      <4> QED BY <2>2, <2>4, <3>1, <4>1
    <3> HIDE DEF candidates
    <3> QED BY <2>8, <3>1
  <2>10. \A j \in candidates :
           \E n \in MinChunk..MaxChunk : MatchLen(j, n) /\ (n < foundLen \/ (n = foundLen /\ j <= best))
    BY <2>7 DEF NotBetter
  <2> QED BY <2>4, <2>8, <2>9, <2>10 DEF LongestMatch
<1> QED BY <1>1, Invariance, PTL
=============================================================================
