------------------------------- MODULE Palmdoc ------------------------------
(***************************************************************************)
(* The palmdoc compressor of compression.go: one call of                   *)
(* palmLZ77CompressWithResolver with either resolver, and a reader that    *)
(* decodes the record afterwards.  The reader is not in the repository; it *)
(* is the PalmDoc format the compressor writes for.                        *)
(*                                                                         *)
(* Positions are those of the code, from 0: At(j) is data[j].              *)
(***************************************************************************)
EXTENDS Integers, Sequences

CONSTANTS
  Window,      \* lz77WindowSize, 0x7FF in the program
  MaxChunk,    \* lz77MaxChunkLen, 10 in the program
  Inputs       \* the records given to the compressor, trailing bytes included

Byte == 0..255
MinChunk == 3
MaxOffset == 2047    \* the distance of a back reference has eleven bits
Space == 32
Resolvers == {"tree", "lookup"}

ASSUME WindowAssumption == Window \in 1..MaxOffset
ASSUME ChunkAssumption == MaxChunk \in MinChunk..10
(* makeHTMLRecord ends a record with the number of bytes past the limit. *)
ASSUME InputAssumption ==
  \A a \in Inputs : a \in Seq(Byte) /\ Len(a) > 0 /\ a[Len(a)] < Len(a)

VARIABLES
  arg,        \* the record to compress
  resolver,   \* which findChunk serves this call
  pc,         \* where the compressor is
  i,          \* its position in the data
  scan,       \* the position the resolver compares next
  best,       \* absIdx: the best match so far, -1 if there is none
  foundLen,   \* its length, as the resolver's own loop counts it
  run,        \* len(binseq): bytes of the uncompressible run gathered so far
  out,        \* what each call of output() appended, one byte sequence per call
  tail,       \* the bytes appended after the loop
  starts,     \* history: the position i had at each of those calls
  plain,      \* the reader: the text decoded so far
  read,       \*   how many elements of out it has read
  copy        \*   the back reference it is copying, byte by byte

searchVars == <<scan, best, foundLen>>
readerVars == <<plain, read, copy>>
vars == <<arg, resolver, pc, i, searchVars, run, out, tail, starts, readerVars>>

LData == Len(arg) - 1 - arg[Len(arg)]
At(j) == arg[j + 1]

(* The bytes the format spells as themselves. *)
Single(b) == b = 0 \/ (b > 8 /\ b < 128)
Letter(b) == b >= 64 /\ b < 128

(* The n bytes at position loc are the n bytes at position i. *)
Match(loc, n) == \A k \in 0..(n - 1) : At(loc + k) = At(i + k)
(* The match at loc has length n, counting no more than MaxChunk bytes. *)
MatchLen(loc, n) == Match(loc, n) /\ (n = MaxChunk \/ At(loc + n) # At(i + n))

(* Mutant of Code: the length is coded as it is, not from MinChunk on. *)
CodeWholeLength(offset, len) == 32768 + offset * 8 + len

(* A back reference: its code, and the bytes byte(code>>8) and byte(code). *)
Code(offset, len) == 32768 + offset * 8 + (len - MinChunk)
PairCode(offset, len) ==
  <<(Code(offset, len) \div 256) % 256, Code(offset, len) % 256>>

(* The first position a match may have. *)
WindowStart == IF i > Window THEN i - Window ELSE 0

Init ==
  /\ arg \in Inputs
  /\ resolver \in Resolvers
  /\ pc = "loop" /\ i = 0 /\ run = 0
  /\ scan = 0 /\ best = -1 /\ foundLen = 0
  /\ out = <<>> /\ tail = <<>> /\ starts = <<>>
  /\ plain = <<>> /\ read = 0 /\ copy = [offset |-> 0, left |-> 0]

(* output(bytes), with the loop continued after n bytes of the data. *)
Emit(bytes, n) ==
  /\ out' = Append(out, bytes)
  /\ starts' = Append(starts, i)
  /\ i' = i + n
  /\ pc' = "loop"

-----------------------------------------------------------------------------
(* The loop of palmLZ77CompressWithResolver.                               *)

(* Mutant of CanSearch: the end of the data is not looked at. *)
SearchToTheEnd == i > MaxChunk

CanSearch == i > MaxChunk /\ LData - i > MaxChunk

(* Mutant of StartSearch: best keeps the answer of the search before. *)
StartSearchStale ==
  /\ pc = "loop" /\ i < LData
  /\ CanSearch
  /\ pc' = "search"
  /\ IF resolver = "lookup"
     THEN scan' = i - MinChunk /\ foundLen' = MinChunk - 1
     ELSE scan' = WindowStart /\ foundLen' = -1
  /\ UNCHANGED <<arg, resolver, i, best, run, out, tail, starts, readerVars>>

(* findChunk is called: the lookup resolver walks backwards from the last  *)
(* position with MinChunk bytes before i, the tree resolver forwards over  *)
(* the positions of the window.                                            *)
StartSearch ==
  /\ pc = "loop" /\ i < LData
  /\ CanSearch
  /\ pc' = "search"
  /\ best' = -1
  /\ IF resolver = "lookup"
     THEN scan' = i - MinChunk /\ foundLen' = MinChunk - 1
     ELSE scan' = WindowStart /\ foundLen' = -1
  /\ UNCHANGED <<arg, resolver, i, run, out, tail, starts, readerVars>>

NoSearch ==
  /\ pc = "loop" /\ i < LData
  /\ ~CanSearch
  /\ pc' = "literal"
  /\ UNCHANGED <<arg, resolver, i, searchVars, run, out, tail, starts, readerVars>>

(* Mutant of Finish: the length byte behind the tail is left off. *)
FinishWithoutLength ==
  /\ pc = "loop" /\ i >= LData
  /\ tail' = SubSeq(arg, LData + 1, Len(arg) - 1)
  /\ pc' = "done"
  /\ UNCHANGED <<arg, resolver, i, searchVars, run, out, starts, readerVars>>

(* The loop is over: the tail, with the length byte, is appended as it is. *)
Finish ==
  /\ pc = "loop" /\ i >= LData
  /\ tail' = SubSeq(arg, LData + 1, Len(arg))
  /\ pc' = "done"
  /\ UNCHANGED <<arg, resolver, i, searchVars, run, out, starts, readerVars>>

-----------------------------------------------------------------------------
(* The resolvers: one position compared per step.                          *)

LookupOver == foundLen >= MaxChunk \/ scan < WindowStart
TreeOver == scan >= i
SearchOver == IF resolver = "lookup" THEN LookupOver ELSE TreeOver

(* Mutant of LookupStep: a position that does not match is not left. *)
LookupStepStuck ==
  /\ pc = "search" /\ resolver = "lookup" /\ ~LookupOver
  /\ \/ /\ \E n \in (foundLen + 1)..MaxChunk :
               MatchLen(scan, n) /\ foundLen' = n /\ best' = scan
        /\ scan' = scan - 1
     \/ ~Match(scan, foundLen + 1) /\ UNCHANGED searchVars
  /\ UNCHANGED <<arg, resolver, pc, i, run, out, tail, starts, readerVars>>

(* lz77Lookup: only a strictly longer match replaces the one found. *)
LookupStep ==
  /\ pc = "search" /\ resolver = "lookup" /\ ~LookupOver
  /\ \/ \E n \in (foundLen + 1)..MaxChunk :
          MatchLen(scan, n) /\ foundLen' = n /\ best' = scan
     \/ ~Match(scan, foundLen + 1) /\ UNCHANGED <<foundLen, best>>
  /\ scan' = scan - 1
  /\ UNCHANGED <<arg, resolver, pc, i, run, out, tail, starts, readerVars>>

(* Mutant of TreeStep: an equally long match does not replace the one found. *)
TreeStepFirst ==
  /\ pc = "search" /\ resolver = "tree" /\ ~TreeOver
  /\ \/ \E n \in MinChunk..MaxChunk :
          /\ MatchLen(scan, n)
          /\ IF n > foundLen THEN foundLen' = n /\ best' = scan
                             ELSE UNCHANGED <<foundLen, best>>
     \/ ~Match(scan, MinChunk) /\ UNCHANGED <<foundLen, best>>
  /\ scan' = scan + 1
  /\ UNCHANGED <<arg, resolver, pc, i, run, out, tail, starts, readerVars>>

(* lz77TreeResolver.findChunk: a match as long as the one found replaces   *)
(* it; positions without the three-byte prefix are not in the tree's list. *)
TreeStep ==
  /\ pc = "search" /\ resolver = "tree" /\ ~TreeOver
  /\ \/ \E n \in MinChunk..MaxChunk :
          /\ MatchLen(scan, n)
          /\ IF n >= foundLen THEN foundLen' = n /\ best' = scan
                              ELSE UNCHANGED <<foundLen, best>>
     \/ ~Match(scan, MinChunk) /\ UNCHANGED <<foundLen, best>>
  /\ scan' = scan + 1
  /\ UNCHANGED <<arg, resolver, pc, i, run, out, tail, starts, readerVars>>

(* A chunk was found: a back reference stands for it. *)
EmitPair ==
  /\ pc = "search" /\ SearchOver
  /\ best > -1
  /\ Emit(PairCode(i - best, foundLen), foundLen)
  /\ UNCHANGED <<arg, resolver, searchVars, run, tail, readerVars>>

NothingFound ==
  /\ pc = "search" /\ SearchOver
  /\ best = -1
  /\ pc' = "literal"
  /\ UNCHANGED <<arg, resolver, i, searchVars, run, out, tail, starts, readerVars>>

-----------------------------------------------------------------------------
(* Bytes no back reference stands for.                                     *)

(* A space and the letter after it, in one byte. *)
EmitSpaceAndLetter ==
  /\ pc = "literal" /\ At(i) = Space
  /\ i + 1 < LData /\ Letter(At(i + 1))
  /\ Emit(<<At(i + 1) + 128>>, 2)
  /\ UNCHANGED <<arg, resolver, searchVars, run, tail, readerVars>>

EmitSingle ==
  /\ pc = "literal" /\ Single(At(i))
  /\ ~(At(i) = Space /\ i + 1 < LData /\ Letter(At(i + 1)))
  /\ Emit(<<At(i)>>, 1)
  /\ UNCHANGED <<arg, resolver, searchVars, run, tail, readerVars>>

StartRun ==
  /\ pc = "literal" /\ ~Single(At(i))
  /\ run' = 0
  /\ pc' = "run"
  /\ UNCHANGED <<arg, resolver, i, searchVars, out, tail, starts, readerVars>>

(* Mutant of RunGoesOn: a run of nine. *)
RunGoesOnToNine == i + run < LData /\ run <= 8 /\ ~Single(At(i + run))

RunGoesOn == i + run < LData /\ run < 8 /\ ~Single(At(i + run))

GrowRun ==
  /\ pc = "run" /\ RunGoesOn
  /\ run' = run + 1
  /\ UNCHANGED <<arg, resolver, pc, i, searchVars, out, tail, starts, readerVars>>

EmitRun ==
  /\ pc = "run" /\ ~RunGoesOn
  /\ Emit(<<run>> \o SubSeq(arg, i + 1, i + run), run)
  /\ UNCHANGED <<arg, resolver, searchVars, run, tail, readerVars>>

-----------------------------------------------------------------------------
(* The reader of the finished record.                                      *)

(* How many bytes of the stream an element has, from its first byte alone. *)
ElementLen(b) == IF b \in 1..8 THEN b + 1 ELSE IF b \in 128..191 THEN 2 ELSE 1

(* The two bytes of a back reference as one number. *)
PairWord(t) == (t[1] * 256) + t[2]

CanRead == pc = "done" /\ copy.left = 0 /\ read < Len(out)
Element == out[read + 1]

ReadSingle ==
  /\ CanRead /\ Single(Element[1])
  /\ plain' = Append(plain, Element[1])
  /\ read' = read + 1
  /\ UNCHANGED <<arg, resolver, pc, i, searchVars, run, out, tail, starts, copy>>

ReadRun ==
  /\ CanRead /\ Element[1] \in 1..8
  /\ plain' = plain \o SubSeq(Element, 2, Element[1] + 1)
  /\ read' = read + 1
  /\ UNCHANGED <<arg, resolver, pc, i, searchVars, run, out, tail, starts, copy>>

ReadSpaceAndLetter ==
  /\ CanRead /\ Element[1] \in 192..255
  /\ plain' = plain \o <<Space, Element[1] - 128>>
  /\ read' = read + 1
  /\ UNCHANGED <<arg, resolver, pc, i, searchVars, run, out, tail, starts, copy>>

ReadPair ==
  /\ CanRead /\ Element[1] \in 128..191
  /\ copy' = [offset |-> (PairWord(Element) \div 8) % 2048,
               left   |-> (PairWord(Element) % 8) + MinChunk]
  /\ read' = read + 1
  /\ UNCHANGED <<arg, resolver, pc, i, searchVars, run, out, tail, starts, plain>>

(* One byte at a time: a reference may overlap the text it produces. *)
CopyByte ==
  /\ copy.left > 0
  /\ plain' = Append(plain, plain[Len(plain) + 1 - copy.offset])
  /\ copy' = [copy EXCEPT !.left = @ - 1]
  /\ UNCHANGED <<arg, resolver, pc, i, searchVars, run, out, tail, starts, read>>

AllRead == pc = "done" /\ copy.left = 0 /\ read = Len(out)

Done == AllRead /\ UNCHANGED vars

-----------------------------------------------------------------------------
Compress ==
  \/ StartSearch \/ NoSearch \/ Finish
  \/ LookupStep \/ TreeStep \/ EmitPair \/ NothingFound
  \/ EmitSpaceAndLetter \/ EmitSingle \/ StartRun \/ GrowRun \/ EmitRun

Read == ReadSingle \/ ReadRun \/ ReadSpaceAndLetter \/ ReadPair \/ CopyByte

Next == Compress \/ Read \/ Done

(* A sequential program: it takes its next step. *)
Spec == Init /\ [][Next]_vars /\ WF_vars(Compress \/ Read)

-----------------------------------------------------------------------------
(* Properties                                                              *)

(* Types of the state. *)
TypeOK ==
  /\ arg \in Inputs /\ resolver \in Resolvers
  /\ pc \in {"loop", "search", "literal", "run", "done"}
  /\ i \in Nat /\ run \in 0..8
  /\ scan \in Int /\ best \in Int /\ foundLen \in Int
  /\ out \in Seq(Seq(Byte)) /\ tail \in Seq(Byte) /\ starts \in Seq(Nat)
  /\ plain \in Seq(Byte) /\ read \in Nat /\ copy \in [offset : Nat, left : Nat]

(* At every moment what the reader has decoded is the beginning of the     *)
(* compressed data: no element means another text than the one it replaces. *)
DecodesToPrefix ==
  Len(plain) <= LData /\ \A k \in 1..Len(plain) : plain[k] = At(k - 1)

(* The record comes back whole: the decoded data followed by the tail, with *)
(* its length byte, is the record makeHTMLRecord handed over.               *)
Restored == AllRead => plain \o tail = arg

(* The stream can be cut without marks: the first byte of each element     *)
(* tells its length, although elements are one to nine bytes long.         *)
SelfDelimiting == \A k \in DOMAIN out : Len(out[k]) = ElementLen(out[k][1])

(* The slices findChunk takes of the data are inside it (data[i:i+10], and *)
(* the candidate of the same length): no panic, compression.go:56-60.      *)
SlicesInBounds ==
  pc = "search" =>
    /\ i + MaxChunk <= LData
    /\ ~SearchOver => scan >= 0 /\ scan + MaxChunk <= LData

(* What findChunk answers: the longest match of the window, and the last   *)
(* one of that length (compression.go:125-127, 251).  The lookup resolver  *)
(* considers only the starts with MinChunk bytes before i.                 *)
LongestMatch ==
  pc = "search" /\ SearchOver =>
    LET last == IF resolver = "lookup" THEN i - MinChunk ELSE i - 1
        candidates == {j \in 0..last : i - j <= Window /\ Match(j, MinChunk)}
    IN  /\ candidates = {} <=> best = -1
        /\ best # -1 => best \in candidates /\ MatchLen(best, foundLen)
        /\ \A j \in candidates :
             \E n \in MinChunk..MaxChunk :
               MatchLen(j, n) /\ (n < foundLen \/ (n = foundLen /\ j <= best))

(* Every record is compressed and read back in finitely many steps. *)
Terminates == <>AllRead

-----------------------------------------------------------------------------
(* The inductive invariant behind the safety properties, in named parts.   *)

(* Element t stands for the data of record a between positions s and e.    *)
StandsForSingle(a, t, s, e) == Len(t) = 1 /\ Single(t[1]) /\ t[1] = a[s + 1] /\ e = s + 1

StandsForSpaceAndLetter(a, t, s, e) ==
  /\ Len(t) = 1 /\ t[1] \in 192..255
  /\ a[s + 1] = Space /\ a[s + 2] = t[1] - 128 /\ e = s + 2

StandsForRun(a, t, s, e) ==
  /\ t[1] \in 1..8 /\ Len(t) = t[1] + 1 /\ e = s + t[1]
  /\ \A k \in 1..t[1] : t[k + 1] = a[s + k]

(* From position s the data repeats, for len bytes, what is offset before. *)
Repeats(a, s, offset, len) ==
  offset \in 1..s /\ \A k \in 1..len : a[s - offset + k] = a[s + k]

StandsForPair(a, t, s, e) ==
  \E offset \in 1..s, len \in MinChunk..MaxChunk :
    /\ offset \in 1..MaxOffset /\ t = PairCode(offset, len)
    /\ Repeats(a, s, offset, len) /\ e = s + len

StandsFor(a, t, s, e) ==
  \/ StandsForSingle(a, t, s, e) \/ StandsForSpaceAndLetter(a, t, s, e)
  \/ StandsForRun(a, t, s, e) \/ StandsForPair(a, t, s, e)

(* Where the data of element k ends. *)
End(k) == IF k = 0 THEN 0 ELSE IF k < Len(starts) THEN starts[k + 1] ELSE i

(* The elements stand for the data up to i, without gap or overlap. *)
StreamOK ==
  /\ Len(starts) = Len(out)
  /\ out # <<>> => starts[1] = 0
  /\ out = <<>> => i = 0
  /\ \A k \in 1..Len(out) : starts[k] <= i /\ StandsFor(arg, out[k], starts[k], End(k))

(* The compressor's position, the search and the run it is in. *)
CompressorOK ==
  /\ i <= LData
  /\ pc \in {"search", "literal", "run"} => i < LData
  /\ pc = "run" => /\ i + run <= LData /\ ~Single(At(i))
                   /\ \A k \in 0..(run - 1) : ~Single(At(i + k))
  /\ pc = "search" =>
       /\ CanSearch
       /\ resolver = "lookup" => scan <= i - MinChunk
                                 /\ foundLen \in (MinChunk - 1)..MaxChunk
       /\ resolver = "tree" => scan \in WindowStart..i
       /\ best # -1 => /\ best \in WindowStart..(i - 1)
                       /\ foundLen \in MinChunk..MaxChunk
                       /\ Match(best, foundLen)
  /\ pc = "done" => i = LData /\ tail = SubSeq(arg, LData + 1, Len(arg))

(* The reader starts when the record is finished; what it has decoded and  *)
(* the reference it is copying reach to the end of the element read last.  *)
ReaderOK ==
  /\ pc # "done" => plain = <<>> /\ read = 0 /\ copy.left = 0
  /\ read <= Len(out)
  /\ Len(plain) + copy.left = End(read)
  /\ copy.left > 0 => Repeats(arg, Len(plain), copy.offset, copy.left)

CodecInv == TypeOK /\ CompressorOK /\ StreamOK /\ ReaderOK /\ DecodesToPrefix

(* The positions of the window that the search has compared. *)
Compared ==
  IF resolver = "lookup" THEN {j \in WindowStart..(i - MinChunk) : j > scan}
                         ELSE WindowStart..(scan - 1)

(* The match at j is not better than the best: shorter, or as long and not *)
(* later.                                                                  *)
NotBetter(j) ==
  \E n \in MinChunk..MaxChunk : MatchLen(j, n) /\ (n < foundLen \/ (n = foundLen /\ j <= best))

(* The search so far: what LongestMatch says, of the positions compared.   *)
SearchOK ==
  pc = "search" =>
    /\ best = -1 => foundLen < MinChunk
    /\ best # -1 => best \in Compared /\ MatchLen(best, foundLen)
    /\ \A j \in Compared : Match(j, MinChunk) => NotBetter(j)

IndInv == CodecInv /\ SearchOK
=============================================================================
