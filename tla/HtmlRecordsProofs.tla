------------------------- MODULE HtmlRecordsProofs --------------------------
(***************************************************************************)
(* Proofs about HtmlRecords, for every number of workers, every record     *)
(* size and every set of texts.                                            *)
(***************************************************************************)
EXTENDS HtmlRecords, FiniteSetTheorems, SequenceLemmas

(* The wait group counts a finite set, and one goroutine more or less      *)
(* changes the count by one (wg.Add(1), wg.Done()).                        *)
LEMMA CountChanges ==
  ASSUME NEW S \in SUBSET Workers, NEW w \in Workers
  PROVE  /\ Cardinality(S) \in Nat
         /\ w \notin S => Cardinality(S \cup {w}) = Cardinality(S) + 1
         /\ w \in S => Cardinality(S \ {w}) = Cardinality(S) - 1
         /\ Cardinality(S) = 0 <=> S = {}
<1>1. IsFiniteSet(S)
  BY WorkersAssumption, FS_Subset
<1>2. QED
  BY <1>1, FS_CardinalityType, FS_AddElement, FS_RemoveElement, FS_EmptySet

(* The invariant holds when convertHTMLToRecords is entered. *)
LEMMA InitControl == Init => ControlInv
<1> SUFFICES ASSUME Init PROVE ControlInv
  OBVIOUS
<1>1. Running = {}
  BY DEF Init, Running
<1>2. html \in Seq(Runes)
  BY TextAssumption DEF Init
<1>3. TypeOK
  <2>1. NoRecord \in Record
    BY DEF Record, NoRecord
  <2>2. chunks \in Seq(Chunk) /\ records \in Seq(Record) /\ out \in Seq(Record)
    BY DEF Init
  <2>3. /\ wstate \in [Workers -> {"unborn", "receive", "encode", "store", "exited"}]
        /\ job \in [Workers -> Nat] /\ held \in [Workers -> Record]
    BY <2>1 DEF Init
  <2>4. pos \in 0..Len(html) /\ next \in 1..(Len(chunks) + 1)
    BY <1>2 DEF Init
  <2> QED BY <1>2, <2>2, <2>3, <2>4 DEF Init, TypeOK
<1>4. ChunksTile
  BY SizeAssumption DEF Init, ChunksTile, Covered
<1>5. MainAt
  BY DEF Init, MainAt
<1>6. WaitGroup
  BY <1>1, FS_EmptySet DEF Init, WaitGroup
<1>7. Handover
  BY DEF Init, Handover, Busy
<1>8. QED
  BY <1>3, <1>4, <1>5, <1>6, <1>7 DEF ControlInv

(* A chunk is made into its record, never into the zero value of a slot. *)
LEMMA MakeHTMLRecordCorrect ==
  ASSUME TypeOK, NEW c \in Chunk, c.first # 0
  PROVE  LET r == MakeHTMLRecord(c, strategy)
         IN  r \in Record /\ r # NoRecord /\ MadeFrom(r, c)
BY SizeAssumption DEF TypeOK, Chunk, Record, MakeHTMLRecord, NoRecord, MadeFrom

(* A chunk is one, and it starts after character 0. *)
LEMMA ChunkAt ==
  ASSUME TypeOK, ChunksTile, NEW k \in DOMAIN chunks
  PROVE  chunks[k] \in Chunk /\ chunks[k].first # 0
<1>0. \A c \in Chunk : c.last \in Nat
  BY DEF Chunk
<1>1. \A j \in DOMAIN chunks : chunks[j] \in Chunk /\ chunks[j].last \in Nat
  BY <1>0 DEF TypeOK
<1>2. k # 1 => k - 1 \in DOMAIN chunks
  BY DEF TypeOK
<1>3. chunks[k].first = IF k = 1 THEN 1 ELSE chunks[k-1].last + 1
  BY DEF ChunksTile
<1>4. QED
  BY <1>1, <1>2, <1>3

(* The chunks cut so far end at a character that was read. *)
LEMMA CoveredNat == TypeOK => Covered \in Nat
<1> SUFFICES ASSUME TypeOK PROVE Covered \in Nat
  OBVIOUS
<1>1. CASE chunks = <<>>
  BY <1>1 DEF Covered
<1>2. CASE chunks # <<>>
  <2>1. chunks[Len(chunks)] \in Chunk
    BY <1>2 DEF TypeOK
  <2> QED BY <1>2, <2>1 DEF Covered, Chunk
<1>3. QED BY <1>1, <1>2

(* Every step preserves the invariant: one case per action. *)
LEMMA StepControl == ControlInv /\ [Next]_vars => ControlInv'
<1> SUFFICES ASSUME ControlInv, [Next]_vars PROVE ControlInv'
  OBVIOUS
<1> USE DEF ControlInv
<1>1. CASE MeasureText
  <2>1. TypeOK'
    BY <1>1, TextAssumption DEF MeasureText, TypeOK, config, workerVars
  <2>2. ChunksTile'
    BY <1>1 DEF MeasureText, ChunksTile, Covered, config, workerVars
  <2>3. MainAt'
    BY <1>1 DEF MeasureText, MainAt, config, workerVars
  <2>4. WaitGroup' /\ Handover'
    BY <1>1 DEF MeasureText, WaitGroup, Running, Handover, Busy, MadeFrom, config, workerVars
  <2> QED BY <2>1, <2>2, <2>3, <2>4
<1>2. CASE ReadRune
  <2>0. OutLen[html[pos + 1]] \in 1..4
    BY <1>2, RuneAssumption, TextAssumption DEF ReadRune, TypeOK
  <2>1. TypeOK'
    <3>1. pos' \in 0..Len(html)
      BY <1>2 DEF ReadRune, TypeOK
    <3>2. curLen' \in Nat
      <4>1. PICK o \in 1..4 : curLen' = curLen + o
        BY <1>2, <2>0 DEF ReadRune
      <4> QED BY <4>1 DEF TypeOK
    <3>3. UNCHANGED <<config, strategy, pc, textLength, chunks, next, closed, out, workerVars>>
      BY <1>2 DEF ReadRune
    <3> QED BY <3>1, <3>2, <3>3 DEF TypeOK, config, workerVars
  <2>2. ChunksTile'
    <3>1. Covered' = Covered /\ Covered \in Nat
      BY <1>2, CoveredNat DEF ReadRune, Covered
    <3>2. chunks' = chunks /\ html' = html
      BY <1>2 DEF ReadRune, config
    <3>3. Covered' <= pos' /\ curLen' <= MaxRecordSize + 3 /\ (curLen' = 0 <=> pos' = Covered')
      <4>1. PICK o \in 1..4 : curLen' = curLen + o
        BY <1>2, <2>0 DEF ReadRune
      <4>2. curLen \in Nat /\ curLen < MaxRecordSize /\ pos \in Int /\ pos' = pos + 1 /\ Covered <= pos
        BY <1>2 DEF ReadRune, TypeOK, ChunksTile
      <4> QED BY <4>1, <4>2, <3>1, SizeAssumption
    <3> QED BY <3>1, <3>2, <3>3 DEF ChunksTile
  <2>3. MainAt'
    BY <1>2 DEF ReadRune, MainAt, config, workerVars
  <2>4. WaitGroup' /\ Handover'
    BY <1>2 DEF ReadRune, WaitGroup, Running, Handover, Busy, MadeFrom, config, workerVars
  <2> QED BY <2>1, <2>2, <2>3, <2>4
<1>3. CASE EndChunk
  <2> DEFINE c == [first |-> Covered + 1, last |-> pos, len |-> curLen]
  <2>0. Covered \in Nat /\ c \in Chunk /\ pos > Covered
    BY <1>3, CoveredNat DEF EndChunk, ChunksTile, TypeOK, Chunk
  <2>1. TypeOK'
    BY <1>3, <2>0 DEF EndChunk, TypeOK, config, workerVars
  <2>2. ChunksTile'
    <3>1. chunks' = Append(chunks, c) /\ Len(chunks') = Len(chunks) + 1
          /\ DOMAIN chunks' = DOMAIN chunks \cup {Len(chunks) + 1}
      BY <1>3 DEF EndChunk, TypeOK
    <3>2. /\ \A k \in DOMAIN chunks : chunks'[k] = chunks[k]
          /\ chunks'[Len(chunks) + 1] = c
      BY <1>3 DEF EndChunk, TypeOK
    <3>3. Covered' = pos
      BY <3>1, <3>2 DEF Covered, TypeOK
    <3>4. c.first = IF Len(chunks) + 1 = 1 THEN 1 ELSE chunks[Len(chunks)].last + 1
      BY DEF Covered, TypeOK
    <3>5. c.len \in 1..(MaxRecordSize + 3) /\ (c.len >= MaxRecordSize \/ c.last = Len(html))
      BY <1>3, SizeAssumption DEF EndChunk, ChunksTile, TypeOK
    <3>6. ASSUME NEW k \in DOMAIN chunks
          PROVE  /\ chunks'[k].first = (IF k = 1 THEN 1 ELSE chunks'[k-1].last + 1)
                 /\ chunks'[k].first <= chunks'[k].last
                 /\ chunks'[k].last <= pos
                 /\ chunks'[k].len \in 1..(MaxRecordSize + 3)
                 /\ chunks'[k].len >= MaxRecordSize \/ chunks'[k].last = Len(html)
      <4>1. k # 1 => k - 1 \in DOMAIN chunks
        BY DEF TypeOK
      <4>2. chunks[k].last \in Nat /\ pos \in Int
        <5>1. chunks[k] \in Chunk
          BY ChunkAt
        <5>2. pos \in Int
          BY DEF TypeOK
        <5> QED BY <5>1, <5>2 DEF Chunk
      <4>3. chunks'[k] = chunks[k] /\ (k # 1 => chunks'[k-1] = chunks[k-1])
        BY <3>2, <4>1
      <4>4. chunks[k].last <= Covered
        BY DEF ChunksTile
      <4>5. chunks[k].last <= pos
        BY <2>0, <4>2, <4>4
      <4> QED BY <4>3, <4>5 DEF ChunksTile
    <3>7. html' = html /\ pos' = pos /\ curLen' = 0
      BY <1>3 DEF EndChunk, config
    <3> HIDE DEF c
    <3>8. ASSUME NEW k \in DOMAIN chunks'
          PROVE  /\ chunks'[k].first = (IF k = 1 THEN 1 ELSE chunks'[k-1].last + 1)
                 /\ chunks'[k].first <= chunks'[k].last
                 /\ chunks'[k].last <= pos
                 /\ chunks'[k].len \in 1..(MaxRecordSize + 3)
                 /\ chunks'[k].len >= MaxRecordSize \/ chunks'[k].last = Len(html)
      <4>1. CASE k \in DOMAIN chunks
        BY <3>6, <4>1
      <4>2. CASE k = Len(chunks) + 1
        <5>1. k # 1 => k - 1 = Len(chunks) /\ k - 1 \in DOMAIN chunks
          BY <4>2 DEF TypeOK
        <5>2. c.first <= c.last /\ c.last = pos /\ pos <= pos
          BY <2>0 DEF c, TypeOK
        <5> QED BY <4>2, <5>1, <5>2, <3>2, <3>4, <3>5
      <4> QED BY <3>1, <4>1, <4>2
    <3> QED
      BY <2>0, <3>3, <3>7, <3>8, SizeAssumption DEF ChunksTile, TypeOK
  <2>3. MainAt'
    BY <1>3 DEF EndChunk, MainAt, config, workerVars
  <2>4. WaitGroup' /\ Handover'
    BY <1>3 DEF EndChunk, WaitGroup, Running, Handover, Busy, MainAt, config, workerVars
  <2> QED BY <2>1, <2>2, <2>3, <2>4
<1>4. CASE NoMoreChunks
  <2>1. TypeOK'
    BY <1>4 DEF NoMoreChunks, TypeOK, Record, NoRecord, config
  <2>2. ChunksTile'
    BY <1>4 DEF NoMoreChunks, ChunksTile, Covered, config
  <2>3. MainAt'
    BY <1>4 DEF NoMoreChunks, MainAt, TypeOK, config
  <2>4. WaitGroup' /\ Handover'
    BY <1>4 DEF NoMoreChunks, WaitGroup, Running, Handover, Busy, MainAt, TypeOK, config
  <2> QED BY <2>1, <2>2, <2>3, <2>4
<1>5. ASSUME NEW w \in Workers, Spawn(w) PROVE ControlInv'
  <2>1. TypeOK'
    BY <1>5 DEF Spawn, TypeOK, config, mainVars
  <2>2. ChunksTile' /\ MainAt'
    BY <1>5 DEF Spawn, ChunksTile, Covered, MainAt, TypeOK, config, mainVars
  <2>3. WaitGroup'
    <3>1. Running' = Running \cup {w} /\ w \notin Running
      BY <1>5 DEF Spawn, Running, TypeOK
    <3>2. Cardinality(Running \cup {w}) = Cardinality(Running) + 1
      BY <3>1, CountChanges DEF Running
    <3> QED BY <1>5, <3>1, <3>2 DEF Spawn, WaitGroup, TypeOK, mainVars
  <2>4. Handover'
    BY <1>5, ZenonT(40) DEF Spawn, Handover, Busy, MadeFrom, TypeOK, config, mainVars
  <2> QED BY <2>1, <2>2, <2>3, <2>4
<1>6. CASE AllSpawned
  <2>1. TypeOK' /\ ChunksTile' /\ MainAt'
    BY <1>6 DEF AllSpawned, TypeOK, ChunksTile, Covered, MainAt, config, workerVars
  <2>2. WaitGroup' /\ Handover'
    BY <1>6 DEF AllSpawned, WaitGroup, Running, Handover, Busy, MadeFrom, config, workerVars
  <2> QED BY <2>1, <2>2
<1>7. ASSUME NEW w \in Workers, Send(w) PROVE ControlInv'
  <2>1. TypeOK'
    BY <1>7 DEF Send, TypeOK, config
  <2>2. ChunksTile' /\ MainAt'
    BY <1>7 DEF Send, ChunksTile, Covered, MainAt, TypeOK, config
  <2>3. WaitGroup'
    <3>1. Running' = Running
      BY <1>7 DEF Send, Running, TypeOK
    <3> QED BY <1>7, <3>1 DEF Send, WaitGroup, TypeOK
  <2>4. Handover'
    <3>1. /\ job' = [job EXCEPT ![w] = next] /\ wstate' = [wstate EXCEPT ![w] = "encode"] /\ next' = next + 1
          /\ wstate[w] = "receive" /\ UNCHANGED <<records, held, chunks>>
      BY <1>7 DEF Send
    <3>2. /\ job \in [Workers -> Nat] /\ DOMAIN wstate = Workers /\ DOMAIN records \subseteq Nat /\ next \in Nat \ {0}
      BY DEF TypeOK
    <3>3. next \in DOMAIN records /\ records[next] = NoRecord
      BY <1>7 DEF Send, Handover, MainAt, TypeOK
    <3>4. \A v \in Workers \ {w} : job'[v] = job[v] /\ wstate'[v] = wstate[v]
      BY <3>1, <3>2
    <3>5. job'[w] = next /\ wstate'[w] = "encode" /\ ~Busy(w) /\ Busy(w)'
      BY <3>1, <3>2 DEF Busy
    <3>6. \A v \in Workers \ {w} : Busy(v)' <=> Busy(v)
      BY <3>4 DEF Busy
    <3>7. (\A v \in Workers : Busy(v) => job[v] \in 1..(next - 1) /\ records[job[v]] = NoRecord)'
      BY <3>1, <3>2, <3>3, <3>4, <3>5, <3>6 DEF Handover
    <3>8. (\A u, v \in Workers : Busy(u) /\ Busy(v) /\ job[u] = job[v] => u = v)'
      <4>1. \A v \in Workers \ {w} : Busy(v) => job[v] < next
        BY <3>2 DEF Handover
      <4> QED BY <3>2, <3>4, <3>5, <3>6, <4>1 DEF Handover
    <3>9. (\A v \in Workers : wstate[v] = "store" => MadeFrom(held[v], chunks[job[v]]))'
      BY <3>1, <3>4, <3>5 DEF Handover, MadeFrom
    <3>10. (\A i \in DOMAIN records :
              IF records[i] = NoRecord
              THEN i < next => \E v \in Workers : Busy(v) /\ job[v] = i
              ELSE i < next /\ MadeFrom(records[i], chunks[i]))'
      BY <3>1, <3>2, <3>4, <3>5, <3>6 DEF Handover, MadeFrom
    <3> QED BY <3>7, <3>8, <3>9, <3>10 DEF Handover
  <2> QED BY <2>1, <2>2, <2>3, <2>4
<1>8. CASE CloseChannel
  <2>1. TypeOK' /\ ChunksTile' /\ MainAt'
    BY <1>8 DEF CloseChannel, TypeOK, ChunksTile, Covered, MainAt, config, workerVars
  <2>2. WaitGroup' /\ Handover'
    BY <1>8 DEF CloseChannel, WaitGroup, Running, Handover, Busy, MadeFrom, config, workerVars
  <2> QED BY <2>1, <2>2
<1>9. CASE WaitReturns
  <2>1. TypeOK' /\ ChunksTile'
    BY <1>9 DEF WaitReturns, TypeOK, ChunksTile, Covered, config, workerVars
  <2>2. \A w \in Workers : wstate[w] = "exited"
    <3>1. Running = {}
      BY <1>9, CountChanges, WorkersAssumption DEF WaitReturns, WaitGroup, Running
    <3> QED BY <1>9, <3>1 DEF WaitReturns, Running, MainAt
  <2>3. MainAt'
    BY <1>9, <2>2 DEF WaitReturns, MainAt, config, workerVars
  <2>4. WaitGroup' /\ Handover'
    BY <1>9 DEF WaitReturns, WaitGroup, Running, Handover, Busy, MadeFrom, config, workerVars
  <2> QED BY <2>1, <2>3, <2>4
<1>10. CASE AppendRecord
  <2>1. TypeOK' /\ ChunksTile'
    BY <1>10 DEF AppendRecord, TypeOK, ChunksTile, Covered, config, workerVars
  <2>2. MainAt'
    BY <1>10 DEF AppendRecord, MainAt, TypeOK, config, workerVars
  <2>3. WaitGroup' /\ Handover'
    BY <1>10 DEF AppendRecord, WaitGroup, Running, Handover, Busy, MadeFrom, config, workerVars
  <2> QED BY <2>1, <2>2, <2>3
<1>11. CASE Return
  <2>1. TypeOK' /\ ChunksTile' /\ MainAt'
    BY <1>11 DEF Return, TypeOK, ChunksTile, Covered, MainAt, config, workerVars
  <2>2. WaitGroup' /\ Handover'
    BY <1>11 DEF Return, WaitGroup, Running, Handover, Busy, MadeFrom, config, workerVars
  <2> QED BY <2>1, <2>2
<1>12. ASSUME NEW w \in Workers, Encode(w) PROVE ControlInv'
  <2> DEFINE c == chunks[job[w]]
             r == MakeHTMLRecord(c, strategy)
  <2>1. Busy(w) /\ pc \notin {"measure", "chunk"} /\ job[w] \in DOMAIN chunks
    BY <1>12 DEF Encode, Busy, Handover, MainAt, TypeOK
  <2>2. c \in Chunk /\ c.first # 0
    BY <2>1, ChunkAt
  <2>3. r \in Record /\ MadeFrom(r, c)
    BY <2>2, MakeHTMLRecordCorrect
  <2>4. TypeOK'
    BY <1>12, <2>3 DEF Encode, TypeOK, config, mainVars
  <2>5. ChunksTile' /\ MainAt'
    BY <1>12, <2>1 DEF Encode, ChunksTile, Covered, MainAt, TypeOK, config, mainVars
  <2>6. WaitGroup'
    <3>1. Running' = Running
      BY <1>12 DEF Encode, Running, TypeOK
    <3> QED BY <1>12, <3>1 DEF Encode, WaitGroup, TypeOK, mainVars
  <2>7. Handover'
    <3>1. \A v \in Workers : Busy(v)' <=> Busy(v)
      BY <1>12 DEF Encode, Busy, TypeOK
    <3>2. \A v \in Workers : wstate'[v] = "store" => MadeFrom(held'[v], chunks[job[v]])
      BY <1>12, <2>3 DEF Encode, Handover, TypeOK
    <3> QED BY <1>12, <3>1, <3>2 DEF Encode, Handover, MadeFrom, mainVars
  <2> QED BY <2>4, <2>5, <2>6, <2>7
<1>13. ASSUME NEW w \in Workers, Store(w) PROVE ControlInv'
  <2>1. Busy(w) /\ pc \notin {"measure", "chunk", "append", "done"} /\ job[w] \in DOMAIN chunks
        /\ job[w] \in DOMAIN records /\ job[w] < next
    BY <1>13 DEF Store, Busy, Handover, MainAt, TypeOK
  <2>2. MadeFrom(held[w], chunks[job[w]]) /\ held[w] # NoRecord /\ held[w] \in Record
    <3>1. MadeFrom(held[w], chunks[job[w]]) /\ held[w] \in Record
      BY <1>13 DEF Store, Handover, TypeOK
    <3>2. chunks[job[w]].first # 0
      BY <2>1, ChunkAt
    <3> QED BY <3>1, <3>2 DEF MadeFrom, NoRecord
  <2>3. TypeOK'
    BY <1>13, <2>1, <2>2 DEF Store, TypeOK, config, mainVars
  <2>4. ChunksTile' /\ MainAt'
    BY <1>13, <2>1 DEF Store, ChunksTile, Covered, MainAt, TypeOK, config, mainVars
  <2>5. WaitGroup'
    <3>1. Running' = Running
      BY <1>13 DEF Store, Running, TypeOK
    <3> QED BY <1>13, <3>1 DEF Store, WaitGroup, TypeOK, mainVars
  <2>6. Handover'
    <3>1. \A v \in Workers : Busy(v)' <=> Busy(v) /\ v # w
      BY <1>13 DEF Store, Busy, TypeOK
    <3>2. records' = [records EXCEPT ![job[w]] = held[w]] /\ DOMAIN records' = DOMAIN records
      BY <1>13, <2>1 DEF Store, TypeOK
    <3>3. \A v \in Workers : Busy(v)' => job[v] \in 1..(next - 1) /\ records'[job[v]] = NoRecord
      BY <3>1, <3>2, <2>1 DEF Handover, TypeOK
    <3>4. \A v \in Workers : wstate'[v] = "store" => MadeFrom(held[v], chunks[job[v]])
      BY <1>13 DEF Store, Handover, TypeOK
    <3>5. \A i \in DOMAIN records' :
            IF records'[i] = NoRecord
            THEN i < next => \E v \in Workers : Busy(v)' /\ job[v] = i
            ELSE i < next /\ MadeFrom(records'[i], chunks[i])
      BY <3>1, <3>2, <2>1, <2>2 DEF Handover, TypeOK
    <3> QED BY <1>13, <3>1, <3>3, <3>4, <3>5 DEF Store, Handover, MadeFrom, mainVars
  <2> QED BY <2>3, <2>4, <2>5, <2>6
<1>14. ASSUME NEW w \in Workers, Exit(w) PROVE ControlInv'
  <2>1. w \in Running /\ wg \in Nat \ {0} /\ Running' = Running \ {w}
        /\ Cardinality(Running \ {w}) = Cardinality(Running) - 1
    <3>1. w \in Running /\ Running' = Running \ {w}
      BY <1>14 DEF Exit, Running, TypeOK
    <3> QED BY <3>1, CountChanges DEF Running, WaitGroup, TypeOK
  <2>2. TypeOK'
    BY <1>14, <2>1 DEF Exit, TypeOK, config, mainVars
  <2>3. ChunksTile' /\ MainAt'
    BY <1>14 DEF Exit, ChunksTile, Covered, MainAt, TypeOK, config, mainVars
  <2>4. WaitGroup'
    BY <1>14, <2>1 DEF Exit, WaitGroup, TypeOK, mainVars
  <2>5. Handover'
    BY <1>14 DEF Exit, Handover, Busy, MadeFrom, TypeOK, config, mainVars
  <2> QED BY <2>2, <2>3, <2>4, <2>5
<1>15. ASSUME NEW s \in Strategies, SetCompressionStrategy(s) PROVE ControlInv'
  <2>1. TypeOK' /\ ChunksTile' /\ MainAt'
    BY <1>15 DEF SetCompressionStrategy, TypeOK, ChunksTile, Covered, MainAt, config, mainVars, workerVars
  <2>2. WaitGroup' /\ Handover'
    BY <1>15 DEF SetCompressionStrategy, WaitGroup, Running, Handover, Busy, MadeFrom, config, mainVars, workerVars
  <2> QED BY <2>1, <2>2
<1>16. CASE Done \/ UNCHANGED vars
  <2>1. UNCHANGED <<config, strategy, pc, textLength, pos, curLen, chunks, next, closed, out,
                    records, wg, wstate, job, held>>
    BY <1>16 DEF Done, vars, config, mainVars, workerVars
  <2>2. TypeOK' /\ ChunksTile' /\ MainAt'
    BY <2>1 DEF TypeOK, ChunksTile, Covered, MainAt, config
  <2>3. WaitGroup' /\ Handover'
    BY <2>1 DEF WaitGroup, Running, Handover, Busy, MadeFrom, config
  <2> QED BY <2>2, <2>3
<1>17. QED
  BY <1>1, <1>2, <1>3, <1>4, <1>5, <1>6, <1>7, <1>8, <1>9, <1>10, <1>11, <1>12, <1>13,
     <1>14, <1>15, <1>16 DEF Next, Main, Worker

-----------------------------------------------------------------------------
(* The part of the invariant about the goroutines. *)
LEMMA ControlInvariance == Spec => []ControlInv
<1>1. Init => ControlInv
  BY InitControl
<1>2. ControlInv /\ [Next]_vars => ControlInv'
  BY StepControl
<1>3. QED
  BY <1>1, <1>2, PTL DEF Spec

(* The bytes up to a character: one character more, its bytes more. *)
LEMMA BytesSteps ==
  ASSUME TypeOK
  PROVE  /\ \A k \in 0..Len(html) : BytesTo(k) \in Nat
         /\ BytesTo(0) = 0 /\ Len(html) \in Nat
         /\ \A k \in 1..Len(html) : BytesTo(k) = BytesTo(k - 1) + OutLen[html[k]]
<1>1. html \in Seq(Runes) /\ Len(html) \in Nat /\ DOMAIN html = 1..Len(html)
  BY TextAssumption DEF TypeOK
<1>2. ASSUME NEW k \in DOMAIN html PROVE OutLen[html[k]] \in Nat
  <2>1. html[k] \in Runes
    BY <1>1
  <2>2. OutLen[html[k]] \in 1..4
    BY <2>1, RuneAssumption
  <2> QED BY <2>2
<1>3. RuneLens \in Seq(Nat) /\ Len(RuneLens) = Len(html) /\ \A k \in 1..Len(html) : RuneLens[k] = OutLen[html[k]]
  BY <1>1, <1>2 DEF RuneLens
<1>4. /\ SumOfFirst(RuneLens) \in [0..Len(html) -> Nat] /\ SumOfFirst(RuneLens)[0] = 0
      /\ \A k \in 1..Len(html) : SumOfFirst(RuneLens)[k] = SumOfFirst(RuneLens)[k - 1] + RuneLens[k]
  BY <1>3, SumSteps
<1>5. \A k \in 0..Len(html) : SumOfFirst(RuneLens)[k] \in Nat
  BY <1>4
<1> QED BY <1>1, <1>3, <1>4, <1>5 DEF BytesTo

(* Where chunk k begins and ends, among the characters read. *)
LEMMA ChunkEnds ==
  ASSUME TypeOK, ChunksTile, NEW k \in DOMAIN chunks
  PROVE  /\ chunks[k].first \in 1..Len(html) /\ chunks[k].last \in 0..Len(html)
         /\ chunks[k].first - 1 \in 0..Len(html)
<1>1. chunks[k] \in Chunk /\ chunks[k].first # 0
  BY ChunkAt
<1>2. chunks[k].first \in Nat /\ chunks[k].last \in Nat
  BY <1>1 DEF Chunk
<1>3. Covered \in Nat /\ pos \in 0..Len(html) /\ Len(html) \in Nat
  BY CoveredNat, BytesSteps DEF TypeOK
<1>4. chunks[k].first <= chunks[k].last /\ chunks[k].last <= Covered /\ Covered <= pos
  BY DEF ChunksTile
<1> QED BY <1>1, <1>2, <1>3, <1>4

(* Nothing is read and nothing is measured at first. *)
LEMMA InitBytes == Init => BytesInv
<1> SUFFICES ASSUME Init PROVE BytesInv
  OBVIOUS
<1>1. TypeOK
  BY InitControl DEF ControlInv
<1>2. BytesTo(0) = 0 /\ Covered = 0
  BY <1>1, BytesSteps DEF Init, Covered
<1> QED BY <1>2 DEF Init, BytesInv

(* Of the steps only ReadRune and EndChunk touch what BytesInv counts. *)
LEMMA StepBytes ==
  ASSUME ControlInv, ControlInv', BytesInv, [Next]_vars
  PROVE  BytesInv'
<1> USE DEF ControlInv
<1>1. CASE ReadRune
  <2>1. /\ pc = "chunk" /\ pos < Len(html) /\ pos' = pos + 1 /\ curLen' = curLen + OutLen[html[pos + 1]]
        /\ UNCHANGED <<html, pc, textLength, chunks>>
    BY <1>1 DEF ReadRune, config
  <2>2. pos + 1 \in 1..Len(html) /\ (pos + 1) - 1 = pos /\ pos \in 0..Len(html)
    BY <2>1, BytesSteps DEF TypeOK
  <2>3. BytesTo(pos + 1) = BytesTo(pos) + OutLen[html[pos + 1]]
    BY <2>2, BytesSteps
  <2>4. BytesTo(pos + 1) \in Nat /\ BytesTo(pos) \in Nat /\ BytesTo(Covered) \in Nat
    BY <2>2, BytesSteps, CoveredNat DEF ChunksTile
  <2>5. Covered' = Covered /\ RuneLens' = RuneLens
    BY <2>1 DEF Covered, RuneLens
  <2>6. curLen' = BytesTo(pos + 1) - BytesTo(Covered)
    <3>1. curLen = BytesTo(pos) - BytesTo(Covered)
      BY DEF BytesInv
    <3>2. OutLen[html[pos + 1]] \in 1..4
      <4>1. html \in Seq(Runes)
        BY TextAssumption DEF TypeOK
      <4>2. html[pos + 1] \in Runes
        BY <2>2, <4>1
      <4> QED BY <4>2, RuneAssumption
    <3>3. ASSUME NEW a \in Nat, NEW b \in Nat, NEW c \in Nat, NEW o \in 1..4, b = a + o PROVE (a - c) + o = b - c
      BY <3>3
    <3> QED BY <2>1, <2>3, <2>4, <3>1, <3>2, <3>3
  <2>7. curLen' = BytesTo(pos)' - BytesTo(Covered)'
    BY <2>1, <2>5, <2>6 DEF BytesTo
  <2>8. \A k \in DOMAIN chunks : chunks[k].len = BytesTo(chunks[k].last) - BytesTo(chunks[k].first - 1)
    BY DEF BytesInv
  <2>9. (\A k \in DOMAIN chunks : chunks[k].len = BytesTo(chunks[k].last) - BytesTo(chunks[k].first - 1))'
    BY <2>1, <2>5, <2>8 DEF BytesTo
  <2>10. (pc # "measure" => textLength = SrcBytes[html])'
    BY <2>1 DEF BytesInv
  <2> QED BY <2>7, <2>9, <2>10 DEF BytesInv
<1>2. CASE EndChunk
  <2> PICK c : c = [first |-> Covered + 1, last |-> pos, len |-> curLen]
    OBVIOUS
  <2>1. /\ pc = "chunk" /\ chunks' = Append(chunks, c) /\ curLen' = 0
        /\ UNCHANGED <<html, pc, textLength, pos>>
    BY <1>2 DEF EndChunk, config
  <2>2. chunks \in Seq(Chunk) /\ c \in Chunk /\ Covered \in Nat /\ pos \in 0..Len(html) /\ Len(html) \in Nat
    <3>1. chunks \in Seq(Chunk) /\ pos \in 0..Len(html) /\ curLen \in Nat
      BY DEF TypeOK
    <3>2. Covered \in Nat /\ Len(html) \in Nat
      BY CoveredNat, BytesSteps
    <3>3. c \in Chunk
      BY <3>1, <3>2 DEF Chunk
    <3> QED BY <3>1, <3>2, <3>3
  <2>3. /\ Len(chunks') = Len(chunks) + 1 /\ DOMAIN chunks' = DOMAIN chunks \cup {Len(chunks) + 1}
        /\ \A k \in DOMAIN chunks : chunks'[k] = chunks[k]
        /\ chunks'[Len(chunks) + 1] = c
    BY <2>1, <2>2
  <2>4. Covered' = pos
    <3>1. chunks' # <<>>
      BY <2>2, <2>3
    <3> QED BY <2>3, <3>1 DEF Covered
  <2>5. RuneLens' = RuneLens
    BY <2>1 DEF RuneLens
  <2>6. BytesTo(pos) \in Nat
    BY <2>2, BytesSteps
  <2>7. curLen' = BytesTo(pos)' - BytesTo(Covered)'
    BY <2>1, <2>4, <2>5, <2>6 DEF BytesTo
  <2>8. ASSUME NEW k \in DOMAIN chunks' PROVE chunks'[k].len = BytesTo(chunks'[k].last) - BytesTo(chunks'[k].first - 1)
    <3>1. CASE k \in DOMAIN chunks
      BY <2>3, <3>1 DEF BytesInv
    <3>2. CASE k = Len(chunks) + 1
      <4>1. c.first - 1 = Covered /\ c.last = pos /\ c.len = curLen
        BY <2>2
      <4> QED BY <2>3, <3>2, <4>1 DEF BytesInv
    <3> QED BY <2>3, <3>1, <3>2
  <2>9. (\A k \in DOMAIN chunks : chunks[k].len = BytesTo(chunks[k].last) - BytesTo(chunks[k].first - 1))'
    BY <2>5, <2>8 DEF BytesTo
  <2>10. (pc # "measure" => textLength = SrcBytes[html])'
    BY <2>1 DEF BytesInv
  <2> QED BY <2>7, <2>9, <2>10 DEF BytesInv
<1>3. ASSUME UNCHANGED <<html, pos, curLen, chunks>>, pc' # "measure" => textLength' = SrcBytes[html]
      PROVE  BytesInv'
  <2>1. Covered' = Covered /\ RuneLens' = RuneLens
    BY <1>3 DEF Covered, RuneLens
  <2> QED BY <1>3, <2>1 DEF BytesInv, BytesTo
<1>4. CASE MeasureText
  BY <1>3, <1>4 DEF MeasureText, config
<1>5. CASE \/ NoMoreChunks \/ AllSpawned \/ CloseChannel \/ WaitReturns \/ AppendRecord \/ Return \/ Done \/ UNCHANGED vars
           \/ \E w \in Workers : Spawn(w) \/ Send(w) \/ Encode(w) \/ Store(w) \/ Exit(w)
           \/ \E s \in Strategies : SetCompressionStrategy(s)
  <2>1. UNCHANGED <<html, pos, curLen, chunks, textLength>> /\ (pc' # "measure" => pc # "measure")
    BY <1>5 DEF NoMoreChunks, AllSpawned, CloseChannel, WaitReturns, AppendRecord, Return, Done, vars, config,
                mainVars, Spawn, Send, Encode, Store, Exit, SetCompressionStrategy
  <2> QED BY <1>3, <2>1 DEF BytesInv
<1> QED BY <1>1, <1>2, <1>4, <1>5 DEF Next, Main, Worker

(* The invariant holds throughout the conversion. *)
THEOREM Invariance == Spec => []IndInv
<1>1. Init => BytesInv
  BY InitBytes
<1>2. ControlInv /\ ControlInv' /\ BytesInv /\ [Next]_vars => BytesInv'
  BY StepBytes
<1>3. ControlInv /\ BytesInv => IndInv
  BY DEF IndInv
<1> QED BY <1>1, <1>2, <1>3, ControlInvariance, PTL DEF Spec

(* Type correctness of the conversion's state. *)
THEOREM TypeCorrect == Spec => []TypeOK
<1>1. ControlInv => TypeOK
  BY DEF ControlInv
<1>2. QED
  BY <1>1, ControlInvariance, PTL

(* When the records are appended every worker has returned and every slot  *)
(* holds the record of its own chunk: nothing is appended too early.       *)
THEOREM NothingAppendedEarly == Spec => []WaitedForAll
<1>1. ControlInv => WaitedForAll
  <2> SUFFICES ASSUME ControlInv, pc \in {"append", "done"} PROVE WaitedForAll
    BY DEF WaitedForAll
  <2> USE DEF ControlInv
  <2>1. \A w \in Workers : wstate[w] = "exited" /\ ~Busy(w)
    BY DEF MainAt, Busy
  <2>2. next = Len(records) + 1 /\ DOMAIN records = DOMAIN chunks
    BY DEF MainAt, TypeOK
  <2>3. ASSUME NEW i \in DOMAIN records
        PROVE  records[i] # NoRecord /\ MadeFrom(records[i], chunks[i])
    <3>1. i < next
      BY <2>2 DEF TypeOK
    <3> QED BY <2>1, <3>1 DEF Handover
  <2> QED BY <2>1, <2>3 DEF WaitedForAll, MadeFrom
<1>2. QED
  BY <1>1, ControlInvariance, PTL

(* No index is dropped and none is handed to two workers. *)
THEOREM NoChunkLostOrShared == Spec => []EachChunkOnce
<1>1. ControlInv => EachChunkOnce
  <2> SUFFICES ASSUME ControlInv, NEW i \in 1..(next - 1)
               PROVE  LET holders == {w \in Workers : Busy(w) /\ job[w] = i}
                      IN  IF i \in DOMAIN records /\ records[i] # NoRecord
                          THEN holders = {}
                          ELSE Cardinality(holders) = 1
    BY DEF EachChunkOnce, Busy
  <2> USE DEF ControlInv
  <2> DEFINE holders == {w \in Workers : Busy(w) /\ job[w] = i}
  <2>1. i \in DOMAIN records /\ i < next
    BY DEF MainAt, TypeOK
  <2>2. CASE records[i] # NoRecord
    BY <2>1, <2>2 DEF Handover
  <2>3. CASE records[i] = NoRecord
    <3>1. PICK w \in Workers : Busy(w) /\ job[w] = i
      BY <2>1, <2>3 DEF Handover
    <3>2. holders = {w}
      BY <3>1 DEF Handover
    <3>3. Cardinality(holders) = 1
      BY <3>2, FS_EmptySet, FS_AddElement, FS_Singleton
    <3> QED BY <2>3, <3>3
  <2> QED BY <2>1, <2>2, <2>3
<1>2. QED
  BY <1>1, ControlInvariance, PTL

(* A slot of the shared slice is written once: the workers do not race. *)
THEOREM SlotsWrittenOnce == Spec => WrittenOnce
<1>1. ControlInv /\ [Next]_vars =>
        \A i \in DOMAIN records : records[i] # NoRecord => records'[i] = records[i]
  <2> SUFFICES ASSUME ControlInv, [Next]_vars, NEW i \in DOMAIN records, records[i] # NoRecord
               PROVE  records'[i] = records[i]
    OBVIOUS
  <2> USE DEF ControlInv
  <2>1. CASE NoMoreChunks
    BY <2>1 DEF NoMoreChunks, MainAt
  <2>2. ASSUME NEW w \in Workers, Store(w) PROVE records'[i] = records[i]
    BY <2>2 DEF Store, Busy, Handover, TypeOK
  <2>3. CASE \/ MeasureText \/ ReadRune \/ EndChunk \/ AllSpawned \/ CloseChannel
             \/ WaitReturns \/ AppendRecord \/ Return \/ Done \/ UNCHANGED vars
    BY <2>3 DEF MeasureText, ReadRune, EndChunk, AllSpawned, CloseChannel, WaitReturns,
                AppendRecord, Return, Done, vars, workerVars
  <2>4. ASSUME NEW w \in Workers, Spawn(w) \/ Send(w) \/ Encode(w) \/ Exit(w)
        PROVE  records'[i] = records[i]
    BY <2>4 DEF Spawn, Send, Encode, Exit
  <2>5. ASSUME NEW s \in Strategies, SetCompressionStrategy(s)
        PROVE  records'[i] = records[i]
    BY <2>5 DEF SetCompressionStrategy, workerVars
  <2>6. QED
    BY <2>1, <2>2, <2>3, <2>4, <2>5 DEF Next, Main, Worker
<1>2. QED
  BY <1>1, ControlInvariance, PTL DEF Spec, WrittenOnce

(* Every text record but the last holds maxRecordSize bytes of text, and   *)
(* the trailing byte never counts more than three.                         *)
THEOREM RecordsHaveTheirSize == Spec => []RecordSizes
<1>1. ControlInv => RecordSizes
  <2> SUFFICES ASSUME ControlInv, NEW k \in DOMAIN out
               PROVE  LET size == out[k].len - out[k].trail
                      IN  /\ out[k].trail <= 3
                          /\ size \in 1..MaxRecordSize
                          /\ k < Len(chunks) => size = MaxRecordSize
    BY DEF RecordSizes
  <2> USE DEF ControlInv
  <2>1. pc \notin {"measure", "chunk"} /\ pc \in {"append", "done"}
    BY DEF MainAt, TypeOK
  <2>2. k \in DOMAIN records /\ k \in DOMAIN chunks /\ k \in Nat
        /\ out[k] = records[k] /\ k < next
    BY <2>1 DEF MainAt, TypeOK
  <2>3. MadeFrom(out[k], chunks[k])
    BY <2>1, <2>2 DEF Handover, MainAt, Busy
  <2>4. chunks[k].len \in 1..(MaxRecordSize + 3)
        /\ (chunks[k].len >= MaxRecordSize \/ chunks[k].last = Len(html))
    BY <2>2 DEF ChunksTile
  <2>5. k < Len(chunks) => chunks[k].len >= MaxRecordSize
    <3> SUFFICES ASSUME k < Len(chunks) PROVE chunks[k].last # Len(html)
      BY <2>4
    <3>1. k + 1 \in DOMAIN chunks /\ k + 1 # 1 /\ (k + 1) - 1 = k
      BY <2>2 DEF TypeOK
    <3>2. /\ chunks[k+1].first = chunks[k].last + 1
          /\ chunks[k+1].first <= chunks[k+1].last
          /\ chunks[k+1].last <= Covered
      BY <3>1 DEF ChunksTile
    <3>3. chunks[k].last \in Nat /\ chunks[k+1].last \in Nat
      BY <2>2, <3>1, ChunkAt DEF Chunk
    <3>4. Covered <= pos /\ pos <= Len(html) /\ Len(html) \in Nat /\ pos \in Int
          /\ Covered \in Nat
      BY CoveredNat, TextAssumption DEF ChunksTile, TypeOK
    <3> QED BY <3>2, <3>3, <3>4, SMTT(30)
  <2>6. QED
    BY <2>3, <2>4, <2>5, SizeAssumption DEF MadeFrom
<1>2. QED
  BY <1>1, ControlInvariance, PTL

-----------------------------------------------------------------------------
(* The records appended, as OrderedRecords sees them. *)
Pieces == [k \in DOMAIN out |-> [first |-> out[k].first, last |-> out[k].last]]

(* A record appended covers the characters of its own chunk. *)
LEMMA PieceOfChunk ==
  ASSUME ControlInv, pc \in {"append", "done"}, NEW k \in DOMAIN records
  PROVE  /\ k \in DOMAIN chunks
         /\ records[k].first = chunks[k].first
         /\ records[k].last = chunks[k].last
<1>1. k < next /\ k \in DOMAIN chunks
  BY DEF ControlInv, MainAt, TypeOK
<1>2. MadeFrom(records[k], chunks[k])
  BY <1>1 DEF ControlInv, Handover, MainAt, Busy
<1>3. QED
  BY <1>1, <1>2 DEF MadeFrom

(* What the abstract specification counts as covered. *)
LEMMA CoveredByPieces ==
  ASSUME ControlInv, pc \in {"append", "done"}
  PROVE  /\ Len(out) \in Nat /\ DOMAIN out = 1..Len(out) /\ Pieces \in Seq([first : Nat, last : Nat])
         /\ Len(Pieces) = Len(out)
         /\ Ordered!Covered = IF Len(out) = 0 THEN 0 ELSE chunks[Len(out)].last
<1>1. Len(out) \in Nat /\ DOMAIN out = 1..Len(out)
  BY DEF ControlInv, TypeOK
<1>2. \A k \in DOMAIN out : out[k] \in Record /\ out[k].first \in Nat /\ out[k].last \in Nat
  <2>1. \A r \in Record : r.first \in Nat /\ r.last \in Nat
    BY DEF Record
  <2> QED BY <2>1 DEF ControlInv, TypeOK
<1>3. Pieces \in Seq([first : Nat, last : Nat]) /\ Len(Pieces) = Len(out)
  BY <1>1, <1>2 DEF Pieces
<1>4. Pieces = <<>> <=> Len(out) = 0
  BY <1>3
<1>5. Len(out) # 0 => Pieces[Len(Pieces)].last = chunks[Len(out)].last
  <2> SUFFICES ASSUME Len(out) # 0 PROVE Pieces[Len(Pieces)].last = chunks[Len(out)].last
    OBVIOUS
  <2>1. Len(out) \in DOMAIN out /\ Len(out) \in DOMAIN records /\ out[Len(out)] = records[Len(out)]
    <3>1. Len(out) \in DOMAIN out
      BY <1>1
    <3>2. Len(out) <= Len(records) /\ records \in Seq(Record) /\ out[Len(out)] = records[Len(out)]
      BY <3>1 DEF ControlInv, MainAt, TypeOK
    <3>3. Len(records) \in Nat /\ DOMAIN records = 1..Len(records)
      BY <3>2
    <3> QED BY <1>1, <3>1, <3>2, <3>3
  <2> QED BY <1>3, <2>1, PieceOfChunk DEF Pieces
<1>6. QED
  BY <1>1, <1>3, <1>4, <1>5 DEF Ordered!Covered, Pieces

(* The conversion implements OrderedRecords (its safety part): whatever    *)
(* the goroutines do, the record list grows by the next piece of the text, *)
(* and the conversion returns only when no piece is missing.               *)
THEOREM Refinement == Spec => Ordered!Init /\ [][Ordered!Next]_(Ordered!vars)
<1>1. Init => Ordered!Init
  BY DEF Init, Ordered!Init
<1>2. ControlInv /\ [Next]_vars => [Ordered!Next]_(Ordered!vars)
  <2> SUFFICES ASSUME ControlInv, [Next]_vars PROVE [Ordered!Next]_(Ordered!vars)
    OBVIOUS
  <2>1. CASE AppendRecord
    <3> DEFINE k == Len(out) + 1
               end == chunks[k].last
    <3>1. pc = "append" /\ k \in DOMAIN records /\ out' = Append(out, records[k])
          /\ html' = html /\ pc' = pc
      BY <2>1 DEF AppendRecord, ControlInv, TypeOK, config
    <3>2. k \in DOMAIN chunks /\ records[k].first = chunks[k].first /\ records[k].last = end
      BY <3>1, PieceOfChunk
    <3>3. chunks[k] \in Chunk /\ end \in Nat
      BY <3>2, ChunkAt DEF ControlInv, Chunk
    <3>4. Len(out) \in Nat /\ Len(Pieces) = Len(out) /\ Pieces \in Seq([first : Nat, last : Nat])
          /\ Ordered!Covered = IF Len(out) = 0 THEN 0 ELSE chunks[Len(out)].last
      BY <3>1, CoveredByPieces
    <3>5. chunks[k].first = Ordered!Covered + 1
      BY <3>2, <3>4 DEF ControlInv, ChunksTile
    <3>6. Ordered!Covered \in Nat
      <4>1. Len(out) # 0 => Len(out) \in DOMAIN chunks
        BY <3>2, <3>4 DEF ControlInv, TypeOK
      <4> QED BY <3>4, <4>1, ChunkAt DEF ControlInv, Chunk
    <3>7. Ordered!Covered < end
      BY <3>2, <3>3, <3>5, <3>6 DEF ControlInv, ChunksTile
    <3>8. end \in 1..Len(html)
      <4>1. end <= Covered /\ Covered <= pos /\ pos <= Len(html) /\ Len(html) \in Nat /\ pos \in Int
        BY <3>2, TextAssumption DEF ControlInv, ChunksTile, TypeOK
      <4> QED BY <3>3, <3>6, <3>7, <4>1, CoveredNat DEF ControlInv
    <3>9. Pieces' = Append(Pieces, [first |-> Ordered!Covered + 1, last |-> end])
      <4>1. out \in Seq(Record) /\ records[k] \in Record
        BY <3>1 DEF ControlInv, TypeOK
      <4>2. /\ DOMAIN out' = 1..k
            /\ \A j \in 1..Len(out) : out'[j] = out[j]
            /\ out'[k] = records[k]
        BY <3>1, <4>1
      <4> QED BY <3>2, <3>4, <3>5, <4>1, <4>2 DEF Pieces
    <3>10. Ordered!AddPiece(end)
      BY <3>1, <3>7, <3>9 DEF Ordered!AddPiece, Pieces
    <3> HIDE DEF end
    <3> QED BY <3>8, <3>10 DEF Ordered!Next, Ordered!AddPiece
  <2>2. CASE Return
    <3>1. pc = "append" /\ pc' = "done" /\ Len(out) = Len(records) /\ UNCHANGED <<html, out>>
      BY <2>2 DEF Return, config
    <3>2. Ordered!Covered = IF Len(out) = 0 THEN 0 ELSE chunks[Len(out)].last
      BY <3>1, CoveredByPieces
    <3>3. Len(out) = Len(chunks) /\ pos = Len(html) /\ curLen = 0 /\ pos = Covered
      BY <3>1 DEF ControlInv, MainAt, ChunksTile
    <3>4. chunks = <<>> <=> Len(chunks) = 0
      BY DEF ControlInv, TypeOK
    <3>5. Ordered!Covered = Len(html)
      BY <3>2, <3>3, <3>4 DEF Covered
    <3>6. Ordered!Seal
      BY <3>1, <3>5 DEF Ordered!Seal
    <3> QED BY <3>6 DEF Ordered!Next
  <2>3. CASE \/ MeasureText \/ ReadRune \/ EndChunk \/ NoMoreChunks \/ AllSpawned
             \/ CloseChannel \/ WaitReturns \/ Done \/ UNCHANGED vars
    <3>1. UNCHANGED <<html, out, pc = "done">>
      BY <2>3 DEF MeasureText, ReadRune, EndChunk, NoMoreChunks, AllSpawned, CloseChannel,
                  WaitReturns, Done, vars, config, mainVars
    <3> QED BY <3>1 DEF Ordered!vars
  <2>4. ASSUME NEW w \in Workers, Spawn(w) \/ Send(w) \/ Worker(w)
        PROVE  [Ordered!Next]_(Ordered!vars)
    <3>1. UNCHANGED <<html, out, pc>>
      BY <2>4 DEF Spawn, Send, Worker, Encode, Store, Exit, config, mainVars
    <3> QED BY <3>1 DEF Ordered!vars
  <2>5. ASSUME NEW s \in Strategies, SetCompressionStrategy(s)
        PROVE  [Ordered!Next]_(Ordered!vars)
    <3>1. UNCHANGED <<html, out, pc>>
      BY <2>5 DEF SetCompressionStrategy, config, mainVars
    <3> QED BY <3>1 DEF Ordered!vars
  <2>6. QED
    BY <2>1, <2>2, <2>3, <2>4, <2>5 DEF Next, Main
<1>3. QED
  BY <1>1, <1>2, ControlInvariance, PTL DEF Spec

-----------------------------------------------------------------------------
(* The records that are there when the conversion returns hold the bytes   *)
(* of the whole text, however it was cut.                                  *)
LEMMA RecordsHoldText ==
  ASSUME ControlInv, BytesInv, pc = "done"
  PROVE  Total([k \in DOMAIN out |-> out[k].len]) = BytesTo(Len(html))
<1> USE DEF ControlInv
<1> DEFINE lens == [k \in DOMAIN out |-> out[k].len]
           n == Len(out)
           end(j) == IF j = 0 THEN 0 ELSE chunks[j].last
           I == {j \in Nat : j <= n => SumOfFirst(lens)[j] = BytesTo(end(j))}
<1>1. n \in Nat /\ DOMAIN out = 1..n /\ DOMAIN chunks = 1..n /\ Len(chunks) = n
  BY DEF MainAt, TypeOK
<1>2. ASSUME NEW k \in 1..n PROVE out[k].len = chunks[k].len /\ out[k].len \in Nat
  <2>1. k \in DOMAIN records /\ k < next /\ out[k] = records[k]
    BY <1>1, SMTT(30) DEF MainAt, TypeOK
  <2>2. MadeFrom(records[k], chunks[k])
    BY <2>1 DEF Handover, MainAt, Busy
  <2>3. chunks[k] \in Chunk
    BY <1>1, ChunkAt
  <2> QED BY <2>1, <2>2, <2>3 DEF MadeFrom, Chunk
<1>3. lens \in Seq(Nat) /\ Len(lens) = n /\ \A k \in 1..n : lens[k] = chunks[k].len
  BY <1>1, <1>2
<1> HIDE DEF lens
<1>4. /\ SumOfFirst(lens)[0] = 0
      /\ \A k \in 1..n : SumOfFirst(lens)[k] = SumOfFirst(lens)[k - 1] + lens[k]
  BY <1>3, SumSteps
<1>5. 0 \in I
  BY <1>4, BytesSteps
<1>6. ASSUME NEW j \in Nat, j \in I PROVE j + 1 \in I
  <2> SUFFICES ASSUME j + 1 <= n PROVE SumOfFirst(lens)[j + 1] = BytesTo(end(j + 1))
    OBVIOUS
  <2>1. j + 1 \in 1..n /\ (j + 1) - 1 = j /\ j <= n /\ j + 1 # 0
    BY <1>1
  <2>2. SumOfFirst(lens)[j + 1] = SumOfFirst(lens)[j] + chunks[j + 1].len
    BY <1>3, <1>4, <2>1
  <2>3. chunks[j + 1].len = BytesTo(chunks[j + 1].last) - BytesTo(chunks[j + 1].first - 1)
    BY <1>1, <2>1 DEF BytesInv
  <2>4. chunks[j + 1].first - 1 = end(j)
    <3>1. chunks[j + 1].first = IF j + 1 = 1 THEN 1 ELSE chunks[j].last + 1
      BY <1>1, <2>1 DEF ChunksTile
    <3>2. j # 0 => chunks[j].last \in Nat
      <4>1. j # 0 => j \in DOMAIN chunks
        BY <1>1, <2>1
      <4>2. j # 0 => chunks[j].last \in 0..Len(html)
        BY <4>1, ChunkEnds
      <4> QED BY <4>2
    <3> QED BY <2>1, <3>1, <3>2
  <2>5. BytesTo(chunks[j + 1].last) \in Nat /\ BytesTo(end(j)) \in Nat
    <3>1. chunks[j + 1].last \in 0..Len(html) /\ chunks[j + 1].first - 1 \in 0..Len(html)
      BY <1>1, <2>1, ChunkEnds
    <3> QED BY <2>4, <3>1, BytesSteps
  <2>6. SumOfFirst(lens)[j] = BytesTo(end(j)) /\ end(j + 1) = chunks[j + 1].last
    BY <1>6, <2>1
  <2> HIDE DEF end
  <2> QED BY <2>2, <2>3, <2>4, <2>5, <2>6
<1>7. n \in I
  BY <1>1, <1>5, <1>6, Induction
<1>8. end(n) = Len(html)
  <2>1. pos = Len(html) /\ curLen = 0 /\ pos = Covered
    BY DEF MainAt, ChunksTile
  <2>2. chunks = <<>> <=> n = 0
    BY <1>1 DEF TypeOK
  <2> QED BY <1>1, <2>1, <2>2 DEF Covered
<1> QED BY <1>3, <1>7, <1>8 DEF Total, lens

(* TextLength is the length of the text in the records (pdh.go:19) exactly *)
(* when WriteRune writes as many bytes as the HTML had, as for every text  *)
(* that is valid UTF-8.                                                    *)
THEOREM TextIsMeasured ==
  Spec => [](pc = "done" => (TextLengthExact <=> SrcBytes[html] = BytesTo(Len(html))))
<1>1. IndInv => (pc = "done" => (TextLengthExact <=> SrcBytes[html] = BytesTo(Len(html))))
  BY RecordsHoldText DEF IndInv, BytesInv, TextLengthExact
<1> QED BY <1>1, Invariance, PTL
=============================================================================
