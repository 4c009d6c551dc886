---------------------------- MODULE HtmlRecords -----------------------------
(***************************************************************************)
(* convertHTMLToRecords and makeHTMLRecord of writer.go: the goroutine     *)
(* that runs WriteTo cuts the book's HTML into chunks, starts one worker   *)
(* goroutine per CPU, hands each chunk's index to some worker over an      *)
(* unbuffered channel, closes the channel, waits for the workers on a      *)
(* WaitGroup and appends the records they made in the order of the text.   *)
(*                                                                         *)
(* A character is a member of Runes, and OutLen gives the bytes WriteRune  *)
(* writes for it; SrcBytes gives the bytes of a text in the HTML buffer.   *)
(* They differ only for a byte that is not valid UTF-8: ReadRune returns   *)
(* U+FFFD for it, one byte read, three bytes written.                      *)
(***************************************************************************)
EXTENDS Integers, Sequences, FiniteSets, Sums

CONSTANTS
  Workers,          \* the worker goroutines, runtime.NumCPU() of them
  MaxRecordSize,    \* maxRecordSize of mobi.go, 4096 in the program
  Runes, OutLen,
  BookTexts,        \* the HTML documents considered
  SrcBytes,         \* the length of each in bytes
  Compressions,     \* the values of the builder's compression field
  Strategies        \* CompressFast, CompressLowMemory

ASSUME WorkersAssumption == IsFiniteSet(Workers) /\ Workers # {}
ASSUME SizeAssumption == MaxRecordSize \in Nat \ {0}
ASSUME RuneAssumption == OutLen \in [Runes -> 1..4]
ASSUME TextAssumption == BookTexts \subseteq Seq(Runes) /\ SrcBytes \in [BookTexts -> Nat]
ASSUME ModeAssumption == "plain" \notin Strategies

VARIABLES
  html,           \* w.bookHTML as WriteTo filled it
  compression,    \* w.compression
  strategy,       \* what the package variable palmLZ77Compress holds
  pc,             \* where the goroutine of WriteTo is
  textLength,     \* w.Pdh.TextLength
  pos,            \* characters of html already read
  curLen,         \* chunk.Len() in nextChunk
  chunks,         \* the chunks cut so far
  records,        \* the slice the workers write into, one slot per chunk
  wg,             \* the counter of the WaitGroup
  closed,         \* close(ch) was called
  next,           \* index of the chunk the main goroutine sends next
  wstate,         \* where each worker goroutine is
  job,            \* the index each worker received last
  held,           \* the record each worker has made and not stored yet
  out             \* the text records appended to w.records

mainVars   == <<pc, textLength, pos, curLen, chunks, next, closed, out>>
workerVars == <<records, wg, wstate, job, held>>
config     == <<html, compression>>
vars       == <<html, compression, strategy, mainVars, workerVars>>

(* The zero value of a []byte slot that no worker has filled. *)
NoRecord == [first |-> 0, last |-> 0, len |-> 0, trail |-> 0, encoding |-> "nil"]

(* makeHTMLRecord: the trailing byte counts the bytes past the limit; only *)
(* palmdoc compresses, with the strategy in force at the call.             *)
MakeHTMLRecord(chunk, strat) ==
  [first    |-> chunk.first,
   last     |-> chunk.last,
   len      |-> chunk.len,
   trail    |-> IF chunk.len > MaxRecordSize THEN chunk.len - MaxRecordSize ELSE 0,
   encoding |-> IF compression = "PalmDoc" THEN strat ELSE "plain"]

Covered == IF chunks = <<>> THEN 0 ELSE chunks[Len(chunks)].last

Init ==
  /\ html \in BookTexts
  /\ compression \in Compressions
  /\ strategy \in Strategies
  /\ pc = "measure"
  /\ textLength = 0 /\ pos = 0 /\ curLen = 0 /\ chunks = <<>>
  /\ next = 1 /\ closed = FALSE /\ out = <<>>
  /\ records = <<>> /\ wg = 0
  /\ wstate = [w \in Workers |-> "unborn"]
  /\ job = [w \in Workers |-> 0]
  /\ held = [w \in Workers |-> NoRecord]

-----------------------------------------------------------------------------
(* Wrong variants of the operations below, one for each property: bugs     *)
(* that code of this kind has.  No behaviour of Spec uses them.            *)

(* The limit is tested after the character is added: one too many is read. *)
ReadRuneLate ==
  /\ pc = "chunk"
  /\ curLen <= MaxRecordSize
  /\ pos < Len(html)
  /\ pos' = pos + 1
  /\ curLen' = curLen + OutLen[html[pos + 1]]
  /\ UNCHANGED <<config, strategy, pc, textLength, chunks, next, closed, out, workerVars>>

(* TextLength counts characters. *)
MeasureCharacters ==
  /\ pc = "measure"
  /\ textLength' = Len(html)
  /\ pc' = "chunk"
  /\ UNCHANGED <<config, strategy, pos, curLen, chunks, next, closed, out, workerVars>>

(* go func() without wg.Add(1). *)
SpawnUncounted(w) ==
  /\ pc = "spawn"
  /\ wstate[w] = "unborn"
  /\ wstate' = [wstate EXCEPT ![w] = "receive"]
  /\ UNCHANGED <<config, strategy, mainVars, records, wg, job, held>>

(* The channel is never closed. *)
ForgetClose ==
  /\ pc = "send"
  /\ next > Len(chunks)
  /\ pc' = "wait"
  /\ UNCHANGED <<config, strategy, textLength, pos, curLen, chunks, next, closed, out, workerVars>>

(* No wg.Wait(). *)
DoNotWait ==
  /\ pc = "wait"
  /\ pc' = "append"
  /\ UNCHANGED <<config, strategy, textLength, pos, curLen, chunks, next, closed, out, workerVars>>

(* The closure uses the loop variable of the sender instead of its own. *)
StoreAtSharedIndex(w) ==
  /\ wstate[w] = "store"
  /\ records' = [records EXCEPT ![next - 1] = held[w]]
  /\ wstate' = [wstate EXCEPT ![w] = "receive"]
  /\ UNCHANGED <<config, strategy, mainVars, wg, job, held>>

(* The records are appended from the last to the first. *)
AppendLastFirst ==
  /\ pc = "append"
  /\ Len(out) < Len(records)
  /\ out' = Append(out, records[Len(records) - Len(out)])
  /\ UNCHANGED <<config, strategy, pc, textLength, pos, curLen, chunks, next, closed, workerVars>>

-----------------------------------------------------------------------------
(* The goroutine that runs WriteTo.                                        *)

(* w.Pdh.TextLength = bookHTML.Len(), before the buffer is drained. *)
MeasureText ==
  /\ pc = "measure"
  /\ textLength' = SrcBytes[html]
  /\ pc' = "chunk"
  /\ UNCHANGED <<config, strategy, pos, curLen, chunks, next, closed, out, workerVars>>

(* nextChunk: one character at a time while the chunk is below the limit. *)
ReadRune ==
  /\ pc = "chunk"
  /\ curLen < MaxRecordSize
  /\ pos < Len(html)
  /\ pos' = pos + 1
  /\ curLen' = curLen + OutLen[html[pos + 1]]
  /\ UNCHANGED <<config, strategy, pc, textLength, chunks, next, closed, out, workerVars>>

(* nextChunk returns a non-empty chunk: it is full, or the text is over. *)
EndChunk ==
  /\ pc = "chunk"
  /\ curLen > 0
  /\ curLen >= MaxRecordSize \/ pos = Len(html)
  /\ chunks' = Append(chunks, [first |-> Covered + 1, last |-> pos, len |-> curLen])
  /\ curLen' = 0
  /\ UNCHANGED <<config, strategy, pc, textLength, pos, next, closed, out, workerVars>>

(* nextChunk returns an empty chunk: records and the channel are made. *)
NoMoreChunks ==
  /\ pc = "chunk"
  /\ curLen = 0 /\ pos = Len(html)
  /\ records' = [i \in 1..Len(chunks) |-> NoRecord]
  /\ pc' = "spawn"
  /\ UNCHANGED <<config, strategy, textLength, pos, curLen, chunks, next, closed, out,
                 wg, wstate, job, held>>

(* wg.Add(1); go func() ... *)
Spawn(w) ==
  /\ pc = "spawn"
  /\ wstate[w] = "unborn"
  /\ wg' = wg + 1
  /\ wstate' = [wstate EXCEPT ![w] = "receive"]
  /\ UNCHANGED <<config, strategy, mainVars, records, job, held>>

AllSpawned ==
  /\ pc = "spawn"
  /\ \A w \in Workers : wstate[w] # "unborn"
  /\ pc' = "send"
  /\ UNCHANGED <<config, strategy, textLength, pos, curLen, chunks, next, closed, out, workerVars>>

(* ch <- i: the channel has no buffer, so the send and the receive of some *)
(* worker that waits for an index are one step.                            *)
Send(w) ==
  /\ pc = "send"
  /\ next <= Len(chunks)
  /\ wstate[w] = "receive"
  /\ job' = [job EXCEPT ![w] = next]
  /\ wstate' = [wstate EXCEPT ![w] = "encode"]
  /\ next' = next + 1
  /\ UNCHANGED <<config, strategy, pc, textLength, pos, curLen, chunks, closed, out,
                 records, wg, held>>

CloseChannel ==
  /\ pc = "send"
  /\ next > Len(chunks)
  /\ closed' = TRUE
  /\ pc' = "wait"
  /\ UNCHANGED <<config, strategy, textLength, pos, curLen, chunks, next, out, workerVars>>

WaitReturns ==
  /\ pc = "wait"
  /\ wg = 0
  /\ pc' = "append"
  /\ UNCHANGED <<config, strategy, textLength, pos, curLen, chunks, next, closed, out, workerVars>>

AppendRecord ==
  /\ pc = "append"
  /\ Len(out) < Len(records)
  /\ out' = Append(out, records[Len(out) + 1])
  /\ UNCHANGED <<config, strategy, pc, textLength, pos, curLen, chunks, next, closed, workerVars>>

Return ==
  /\ pc = "append"
  /\ Len(out) = Len(records)
  /\ pc' = "done"
  /\ UNCHANGED <<config, strategy, textLength, pos, curLen, chunks, next, closed, out, workerVars>>

-----------------------------------------------------------------------------
(* A worker goroutine.                                                     *)

Encode(w) ==
  /\ wstate[w] = "encode"
  /\ held' = [held EXCEPT ![w] = MakeHTMLRecord(chunks[job[w]], strategy)]
  /\ wstate' = [wstate EXCEPT ![w] = "store"]
  /\ UNCHANGED <<config, strategy, mainVars, records, wg, job>>

(* records[i] = ..., then back to the channel. *)
Store(w) ==
  /\ wstate[w] = "store"
  /\ records' = [records EXCEPT ![job[w]] = held[w]]
  /\ wstate' = [wstate EXCEPT ![w] = "receive"]
  /\ UNCHANGED <<config, strategy, mainVars, wg, job, held>>

(* The range over a closed channel ends; the deferred wg.Done() runs. *)
Exit(w) ==
  /\ wstate[w] = "receive"
  /\ closed
  /\ wg' = wg - 1
  /\ wstate' = [wstate EXCEPT ![w] = "exited"]
  /\ UNCHANGED <<config, strategy, mainVars, records, job, held>>

(* Another goroutine of the program picks a strategy for the whole package, *)
(* at any time: the variable is read without a lock.                        *)
SetCompressionStrategy(s) ==
  /\ strategy # s
  /\ strategy' = s
  /\ UNCHANGED <<config, mainVars, workerVars>>

-----------------------------------------------------------------------------
Main ==
  \/ MeasureText \/ ReadRune \/ EndChunk \/ NoMoreChunks \/ AllSpawned
  \/ CloseChannel \/ WaitReturns \/ AppendRecord \/ Return
  \/ \E w \in Workers : Spawn(w) \/ Send(w)

Worker(w) == Encode(w) \/ Store(w) \/ Exit(w)

(* The conversion has returned: nothing more happens, and that is no deadlock. *)
Done == pc = "done" /\ UNCHANGED vars

Next ==
  \/ Main
  \/ \E w \in Workers : Worker(w)
  \/ \E s \in Strategies : SetCompressionStrategy(s)
  \/ Done

(* The Go scheduler runs every goroutine that can run; nothing makes       *)
(* another part of the program call SetCompressionStrategy.                *)
Fairness == WF_vars(Main) /\ \A w \in Workers : WF_vars(Worker(w))

Spec == Init /\ [][Next]_vars /\ Fairness

-----------------------------------------------------------------------------
(* Properties                                                              *)

Chunk == [first : Nat, last : Nat, len : Nat]

Record == [first : Nat, last : Nat, len : Nat, trail : Nat,
           encoding : Strategies \cup {"plain", "nil"}]

(* Types of the state; chunks and records hold runs of characters. *)
TypeOK ==
  /\ html \in BookTexts /\ compression \in Compressions /\ strategy \in Strategies
  /\ pc \in {"measure", "chunk", "spawn", "send", "wait", "append", "done"}
  /\ textLength \in Nat /\ pos \in 0..Len(html) /\ curLen \in Nat
  /\ chunks \in Seq(Chunk)
  /\ next \in 1..(Len(chunks) + 1) /\ closed \in BOOLEAN
  /\ records \in Seq(Record) /\ out \in Seq(Record)
  /\ wg \in Nat
  /\ wstate \in [Workers -> {"unborn", "receive", "encode", "store", "exited"}]
  /\ job \in [Workers -> Nat] /\ held \in [Workers -> Record]

(* The slots are read only when every worker is gone and every slot is     *)
(* filled, each with the record of its own chunk: wg.Wait() and the close  *)
(* of the channel are enough, writer.go:282-288.                           *)
WaitedForAll ==
  pc \in {"append", "done"} =>
    /\ \A w \in Workers : wstate[w] = "exited"
    /\ \A i \in DOMAIN records : /\ records[i] # NoRecord
                                  /\ records[i].first = chunks[i].first
                                  /\ records[i].last = chunks[i].last

(* No index is handed to two workers and none is dropped: an index that    *)
(* left the main goroutine is with exactly one worker or its slot is set.  *)
EachChunkOnce ==
  \A i \in 1..(next - 1) :
    LET holders == {w \in Workers : wstate[w] \in {"encode", "store"} /\ job[w] = i}
    IN  IF i \in DOMAIN records /\ records[i] # NoRecord
        THEN holders = {}
        ELSE Cardinality(holders) = 1

(* A filled slot is never written again, by any worker, writer.go:272. *)
WrittenOnce ==
  [][\A i \in DOMAIN records : records[i] # NoRecord => records'[i] = records[i]]_vars

(* Once its trailing bytes are taken off, every text record but the last   *)
(* holds exactly maxRecordSize bytes, so a reader can compute the record   *)
(* of a text position; the trailing count is at most 3 (one character).    *)
RecordSizes ==
  \A k \in DOMAIN out :
    LET size == out[k].len - out[k].trail
    IN  /\ out[k].trail <= 3
        /\ size \in 1..MaxRecordSize
        /\ k < Len(chunks) => size = MaxRecordSize

(* pdh.go:19: TextLength is the uncompressed length of the entire text of  *)
(* the book, that is of the text the records hold.                         *)
TextLengthExact ==
  pc = "done" => textLength = Total([k \in DOMAIN out |-> out[k].len])

(* The conversion returns: no worker and no send waits forever. *)
Terminates == <>(pc = "done")

(* The detailed protocol implements the abstract one: the records appended *)
(* are the consecutive pieces of the text, in order, and all of them.      *)
Ordered == INSTANCE OrderedRecords WITH
  text   <- html,
  out    <- [k \in DOMAIN out |-> [first |-> out[k].first, last |-> out[k].last]],
  sealed <- (pc = "done")

ImplementsOrdered == Ordered!Spec

-----------------------------------------------------------------------------
(* The inductive invariant behind the safety properties, in named parts.   *)

Busy(w) == wstate[w] \in {"encode", "store"}

(* Record r was made from chunk c. *)
MadeFrom(r, c) ==
  /\ r.first = c.first /\ r.last = c.last /\ r.len = c.len
  /\ r.trail = IF c.len > MaxRecordSize THEN c.len - MaxRecordSize ELSE 0

(* The chunks follow each other without gap; only the last may be short. *)
ChunksTile ==
  /\ \A k \in DOMAIN chunks :
       /\ chunks[k].first = (IF k = 1 THEN 1 ELSE chunks[k-1].last + 1)
       /\ chunks[k].first <= chunks[k].last
       /\ chunks[k].last <= Covered
       /\ chunks[k].len \in 1..(MaxRecordSize + 3)
       /\ chunks[k].len >= MaxRecordSize \/ chunks[k].last = Len(html)
  /\ Covered <= pos
  /\ curLen <= MaxRecordSize + 3
  /\ curLen = 0 <=> pos = Covered

(* What each place of the main goroutine says of its own variables. *)
MainAt ==
  /\ pc \notin {"measure", "chunk"} => /\ pos = Len(html) /\ curLen = 0
                                       /\ Len(records) = Len(chunks)
                                       /\ next \in 1..(Len(records) + 1)
  /\ pc \in {"measure", "chunk"} => /\ records = <<>>
                                    /\ \A w \in Workers : wstate[w] = "unborn"
  /\ pc \in {"measure", "chunk", "spawn"} => next = 1
  /\ pc \notin {"measure", "chunk", "spawn"} => \A w \in Workers : wstate[w] # "unborn"
  /\ closed <=> pc \in {"wait", "append", "done"}
  /\ closed => next = Len(records) + 1
  /\ pc \notin {"append", "done"} => out = <<>>
  /\ pc \in {"append", "done"} => \A w \in Workers : wstate[w] = "exited"
  /\ Len(out) <= Len(records)
  /\ \A k \in DOMAIN out : out[k] = records[k]
  /\ pc = "done" => Len(out) = Len(records)

(* The wait group counts the goroutines that run. *)
Running == {w \in Workers : wstate[w] \notin {"unborn", "exited"}}
WaitGroup == wg = Cardinality(Running) /\ \A w \in Workers : wstate[w] = "exited" => closed

(* Every index below next is stored or with one worker. *)
Handover ==
  /\ \A w \in Workers : Busy(w) => job[w] \in 1..(next - 1) /\ records[job[w]] = NoRecord
  /\ \A w, v \in Workers : Busy(w) /\ Busy(v) /\ job[w] = job[v] => w = v
  /\ \A w \in Workers : wstate[w] = "store" => MadeFrom(held[w], chunks[job[w]])
  /\ \A i \in DOMAIN records :
       IF records[i] = NoRecord
       THEN i < next => \E w \in Workers : Busy(w) /\ job[w] = i
       ELSE i < next /\ MadeFrom(records[i], chunks[i])

ControlInv == TypeOK /\ ChunksTile /\ MainAt /\ WaitGroup /\ Handover

(* The bytes that WriteRune writes for the first k characters. *)
RuneLens == [k \in DOMAIN html |-> OutLen[html[k]]]
BytesTo(k) == SumOfFirst(RuneLens)[k]

(* A chunk has the bytes of its characters, none lost and none twice.      *)
BytesInv ==
  /\ pc # "measure" => textLength = SrcBytes[html]
  /\ curLen = BytesTo(pos) - BytesTo(Covered)
  /\ \A k \in DOMAIN chunks : chunks[k].len = BytesTo(chunks[k].last) - BytesTo(chunks[k].first - 1)

IndInv == ControlInv /\ BytesInv
=============================================================================
