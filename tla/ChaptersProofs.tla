--------------------------- MODULE ChaptersProofs ---------------------------
(***************************************************************************)
(* Proofs about Chapters, for every number of chapters, sub-chapters and   *)
(* calls of WriteTo: what the steps do to the book, that each of them      *)
(* keeps the inductive invariant, and the properties that follow from it.  *)
(***************************************************************************)
EXTENDS Chapters, SequenceLemmas

(* The chapters and sub-chapters of the book, counted, and its pieces and  *)
(* children chapter by chapter.                                            *)
BookLen == Len(Book)
Count(c) == Len(Book[c].subs)
NodeBlocks == [c \in DOMAIN Book |-> NodesOf(c)]
ChildBlocks == [c \in DOMAIN Book |-> ChildrenOf(c)]

(* The types of the parts of the book. *)
LEMMA BookFacts ==
  ASSUME TypeOK
  PROVE  /\ Book \in Seq(ChapterType) /\ BookLen \in Nat /\ DOMAIN Book = 1..BookLen
         /\ \A c \in 1..BookLen :
              /\ Book[c] \in ChapterType /\ Book[c].subs \in Seq(SubType) /\ Count(c) \in Nat
              /\ Book[c].ID \in Nat /\ Book[c].links \in Seq(Nat)
              /\ Book[c].offset \in Nat /\ Book[c].len \in Nat /\ Book[c].size \in Nat
              /\ DOMAIN Book[c].subs = 1..Count(c) /\ DOMAIN Book[c].links = 1..Len(Book[c].links)
              /\ Len(Book[c].links) \in Nat
<1>1. Book \in Seq(ChapterType)
  BY DEF TypeOK, Book
<1>2. BookLen \in Nat /\ DOMAIN Book = 1..BookLen
  BY <1>1 DEF BookLen
<1>3. ASSUME NEW c \in 1..BookLen
      PROVE  /\ Book[c] \in ChapterType /\ Book[c].subs \in Seq(SubType) /\ Book[c].ID \in Nat
             /\ Book[c].links \in Seq(Nat) /\ Book[c].offset \in Nat /\ Book[c].len \in Nat
             /\ Book[c].size \in Nat
  <2>1. Book[c] \in ChapterType
    BY <1>1 DEF BookLen
  <2> QED BY <2>1 DEF ChapterType
<1>4. ASSUME NEW c \in 1..BookLen
      PROVE  /\ Count(c) \in Nat /\ DOMAIN Book[c].subs = 1..Count(c)
             /\ DOMAIN Book[c].links = 1..Len(Book[c].links) /\ Len(Book[c].links) \in Nat
  BY <1>3 DEF Count
<1> QED BY <1>1, <1>2, <1>3, <1>4

(* The pieces of each chapter. *)
LEMMA BlockFacts ==
  ASSUME TypeOK
  PROVE  /\ NodeBlocks \in Seq(Seq(NodeType)) /\ Len(NodeBlocks) = BookLen
         /\ ChildBlocks \in Seq(Seq(NodeType)) /\ Len(ChildBlocks) = BookLen
         /\ \A c \in 1..BookLen :
              /\ NodeBlocks[c] = NodesOf(c) /\ Len(NodesOf(c)) = 1 + Count(c)
              /\ ChildBlocks[c] = ChildrenOf(c) /\ Len(ChildrenOf(c)) = Count(c)
              /\ \A s \in 1..(1 + Count(c)) : NodesOf(c)[s] = [chapter |-> c, sub |-> s - 1]
              /\ \A s \in 1..Count(c) : ChildrenOf(c)[s] = [chapter |-> c, sub |-> s]
<1>1. BookLen \in Nat /\ DOMAIN Book = 1..BookLen /\ \A c \in 1..BookLen : Count(c) \in Nat
  BY BookFacts
<1>2. ASSUME NEW c \in 1..BookLen
      PROVE  /\ NodesOf(c) \in Seq(NodeType) /\ Len(NodesOf(c)) = 1 + Count(c)
             /\ ChildrenOf(c) \in Seq(NodeType) /\ Len(ChildrenOf(c)) = Count(c)
             /\ \A s \in 1..(1 + Count(c)) : NodesOf(c)[s] = [chapter |-> c, sub |-> s - 1]
             /\ \A s \in 1..Count(c) : ChildrenOf(c)[s] = [chapter |-> c, sub |-> s]
  <2>1. NodesOf(c) = [s \in 1..(1 + Count(c)) |-> [chapter |-> c, sub |-> s - 1]]
    BY DEF NodesOf, Count
  <2>2. ChildrenOf(c) = [s \in 1..Count(c) |-> [chapter |-> c, sub |-> s]]
    BY DEF ChildrenOf, Count
  <2>3. Count(c) \in Nat /\ c \in Nat
    BY <1>1
  <2>4. \A s \in 1..(1 + Count(c)) : [chapter |-> c, sub |-> s - 1] \in NodeType
    BY <2>3 DEF NodeType
  <2>5. \A s \in 1..Count(c) : [chapter |-> c, sub |-> s] \in NodeType
    BY <2>3 DEF NodeType
  <2>6. NodesOf(c) \in Seq(NodeType) /\ Len(NodesOf(c)) = 1 + Count(c)
    BY <2>1, <2>3, <2>4
  <2>7. ChildrenOf(c) \in Seq(NodeType) /\ Len(ChildrenOf(c)) = Count(c)
    BY <2>2, <2>3, <2>5
  <2> QED BY <2>1, <2>2, <2>6, <2>7
<1>3. NodeBlocks \in Seq(Seq(NodeType)) /\ Len(NodeBlocks) = BookLen
  BY <1>1, <1>2 DEF NodeBlocks
<1>4. ChildBlocks \in Seq(Seq(NodeType)) /\ Len(ChildBlocks) = BookLen
  BY <1>1, <1>2 DEF ChildBlocks
<1>5. \A c \in 1..BookLen : NodeBlocks[c] = NodesOf(c) /\ ChildBlocks[c] = ChildrenOf(c)
  BY <1>1 DEF NodeBlocks, ChildBlocks
<1> QED BY <1>2, <1>3, <1>4, <1>5

(* The children follow each other chapter by chapter. *)
LEMMA ChildrenFacts ==
  ASSUME TypeOK
  PROVE  /\ Children \in Seq(NodeType) /\ ChildrenBefore(1) = 0 /\ ChildrenBefore(BookLen + 1) = Len(Children)
         /\ \A c \in 1..(BookLen + 1) : ChildrenBefore(c) \in Nat
         /\ \A c \in 1..BookLen : ChildrenBefore(c + 1) = ChildrenBefore(c) + Count(c)
         /\ \A b, c \in 1..(BookLen + 1) : b <= c => ChildrenBefore(b) <= ChildrenBefore(c)
         /\ \A c \in 1..BookLen : \A s \in 1..Count(c) :
              /\ ChildrenBefore(c) + s \in 1..Len(Children)
              /\ Children[ChildrenBefore(c) + s] = [chapter |-> c, sub |-> s]
         /\ \A i \in 1..Len(Children) : \E c \in 1..BookLen : \E s \in 1..Count(c) : i = ChildrenBefore(c) + s
<1>1. BookLen \in Nat /\ DOMAIN Book = 1..BookLen /\ \A c \in 1..BookLen : Count(c) \in Nat
  BY BookFacts
<1>2. /\ ChildBlocks \in Seq(Seq(NodeType)) /\ Len(ChildBlocks) = BookLen
      /\ \A c \in 1..BookLen : /\ ChildBlocks[c] = ChildrenOf(c) /\ Len(ChildrenOf(c)) = Count(c)
                         /\ \A s \in 1..Count(c) : ChildrenOf(c)[s] = [chapter |-> c, sub |-> s]
  BY BlockFacts
<1>3. Children = FlattenSeq(ChildBlocks)
  BY DEF Children, ChildBlocks
<1>4. ASSUME NEW c \in 1..(BookLen + 1) PROVE ChildrenBefore(c) = Before(ChildBlocks, c - 1)
  <2>1. c - 1 \in 0..BookLen /\ \A d \in 1..(c - 1) : d \in 1..BookLen
    BY <1>1
  <2>2. SubSeq(ChildBlocks, 1, c - 1) = [d \in 1..(c - 1) |-> ChildBlocks[d]]
    BY <1>2, <2>1
  <2>3. [d \in 1..(c - 1) |-> ChildBlocks[d]] = [d \in 1..(c - 1) |-> ChildrenOf(d)]
    BY <1>2, <2>1
  <2> QED BY <2>2, <2>3 DEF ChildrenBefore, Before, FlatPrefix
<1>5. /\ Children \in Seq(NodeType) /\ Len(Children) = Before(ChildBlocks, BookLen)
      /\ Before(ChildBlocks, 0) = 0 /\ \A k \in 0..BookLen : Before(ChildBlocks, k) \in Nat
      /\ \A k \in 1..BookLen : Before(ChildBlocks, k) = Before(ChildBlocks, k - 1) + Len(ChildBlocks[k])
      /\ \A j, k \in 0..BookLen : j <= k => Before(ChildBlocks, j) <= Before(ChildBlocks, k)
      /\ \A k \in 1..BookLen : \A j \in 1..Len(ChildBlocks[k]) :
              /\ Before(ChildBlocks, k - 1) + j \in 1..Len(Children)
              /\ Children[Before(ChildBlocks, k - 1) + j] = ChildBlocks[k][j]
      /\ \A i \in 1..Len(Children) :
              \E k \in 1..BookLen : \E j \in 1..Len(ChildBlocks[k]) : i = Before(ChildBlocks, k - 1) + j
  <2>1. Placed(NodeType, ChildBlocks, Children)
    BY <1>2, <1>3, FlattenPlaces
  <2> QED BY <1>2, <2>1 DEF Placed
<1>6. 1 \in 1..(BookLen + 1) /\ 1 - 1 = 0 /\ BookLen + 1 \in 1..(BookLen + 1) /\ (BookLen + 1) - 1 = BookLen
  BY <1>1
<1>7. ChildrenBefore(1) = 0 /\ ChildrenBefore(BookLen + 1) = Len(Children)
  BY <1>4, <1>5, <1>6
<1>8. \A c \in 1..(BookLen + 1) : ChildrenBefore(c) \in Nat
  <2> TAKE c \in 1..(BookLen + 1)
  <2>1. c - 1 \in 0..BookLen
    BY <1>1
  <2> QED BY <1>4, <1>5, <2>1
<1>9. \A c \in 1..BookLen : ChildrenBefore(c + 1) = ChildrenBefore(c) + Count(c)
  <2> TAKE c \in 1..BookLen
  <2>1. c \in 1..(BookLen + 1) /\ c + 1 \in 1..(BookLen + 1) /\ (c + 1) - 1 = c
    BY <1>1
  <2> QED BY <1>2, <1>4, <1>5, <2>1
<1>10. \A b, c \in 1..(BookLen + 1) : b <= c => ChildrenBefore(b) <= ChildrenBefore(c)
  <2> TAKE b, c \in 1..(BookLen + 1)
  <2>1. b - 1 \in 0..BookLen /\ c - 1 \in 0..BookLen /\ (b <= c => b - 1 <= c - 1)
    BY <1>1
  <2> QED BY <1>4, <1>5, <2>1
<1>11. ASSUME NEW c \in 1..BookLen
       PROVE  /\ ChildrenBefore(c) = Before(ChildBlocks, c - 1)
              /\ ChildBlocks[c] = ChildrenOf(c) /\ Len(ChildBlocks[c]) = Count(c)
  <2>1. c \in 1..(BookLen + 1)
    BY <1>1
  <2> QED BY <1>2, <1>4, <2>1
<1>12. ASSUME NEW c \in 1..BookLen, NEW s \in 1..Count(c)
       PROVE  /\ ChildrenBefore(c) + s \in 1..Len(Children)
              /\ Children[ChildrenBefore(c) + s] = [chapter |-> c, sub |-> s]
  <2>1. s \in 1..Len(ChildBlocks[c])
    BY <1>11
  <2>2. Children[Before(ChildBlocks, c - 1) + s] = ChildBlocks[c][s]
        /\ Before(ChildBlocks, c - 1) + s \in 1..Len(Children)
    BY <1>5, <2>1
  <2>3. ChildBlocks[c][s] = [chapter |-> c, sub |-> s]
    BY <1>2, <1>11
  <2> QED BY <1>11, <2>2, <2>3
<1>13. ASSUME NEW i \in 1..Len(Children)
       PROVE  \E c \in 1..BookLen : \E s \in 1..Count(c) : i = ChildrenBefore(c) + s
  <2>1. PICK c \in 1..BookLen : \E s \in 1..Len(ChildBlocks[c]) : i = Before(ChildBlocks, c - 1) + s
    BY <1>5
  <2> QED BY <1>11, <2>1
<1> QED BY <1>5, <1>7, <1>8, <1>9, <1>10, <1>12, <1>13

(* The nodes are the chapters and their children, each once. *)
LEMMA NodesFacts ==
  ASSUME TypeOK
  PROVE  /\ Nodes \in Seq(NodeType) /\ Len(Nodes) = BookLen + Len(Children)
         /\ \A i \in 1..Len(Nodes) : Nodes[i].chapter \in 1..BookLen /\ Nodes[i].sub \in 0..Count(Nodes[i].chapter)
         /\ \A i, j \in 1..Len(Nodes) : Nodes[i] = Nodes[j] => i = j
<1>1. BookLen \in Nat /\ DOMAIN Book = 1..BookLen /\ \A c \in 1..BookLen : Count(c) \in Nat
  BY BookFacts
<1>2. /\ NodeBlocks \in Seq(Seq(NodeType)) /\ Len(NodeBlocks) = BookLen
      /\ ChildBlocks \in Seq(Seq(NodeType)) /\ Len(ChildBlocks) = BookLen
      /\ \A c \in 1..BookLen : /\ Len(NodeBlocks[c]) = 1 + Count(c) /\ Len(ChildBlocks[c]) = Count(c)
                         /\ \A s \in 1..(1 + Count(c)) : NodeBlocks[c][s] = [chapter |-> c, sub |-> s - 1]
  BY BlockFacts
<1>3. Nodes = FlattenSeq(NodeBlocks) /\ Children = FlattenSeq(ChildBlocks)
  BY DEF Nodes, NodeBlocks, Children, ChildBlocks
<1>4. Len(Nodes) = BookLen + Len(Children)
  <2>1. Len(NodeBlocks) = Len(ChildBlocks)
        /\ \A c \in 1..Len(NodeBlocks) : Len(NodeBlocks[c]) = 1 + Len(ChildBlocks[c])
    BY <1>2
  <2>2. Len(FlattenSeq(NodeBlocks)) = Len(NodeBlocks) + Len(FlattenSeq(ChildBlocks))
    BY <1>2, <2>1, FlattenOneMore
  <2> QED BY <1>2, <1>3, <2>2
<1>5. /\ Nodes \in Seq(NodeType)
      /\ \A k \in 1..BookLen : \A j \in 1..Len(NodeBlocks[k]) :
           Nodes[Before(NodeBlocks, k - 1) + j] = NodeBlocks[k][j]
      /\ \A i \in 1..Len(Nodes) :
           \E k \in 1..BookLen : \E j \in 1..Len(NodeBlocks[k]) : i = Before(NodeBlocks, k - 1) + j
  <2>1. Placed(NodeType, NodeBlocks, Nodes)
    BY <1>2, <1>3, FlattenPlaces
  <2> QED BY <1>2, <2>1 DEF Placed
<1>6. ASSUME NEW i \in 1..Len(Nodes)
      PROVE  \E c \in 1..BookLen : \E s \in 1..(1 + Count(c)) :
               i = Before(NodeBlocks, c - 1) + s /\ Nodes[i] = [chapter |-> c, sub |-> s - 1]
  <2>1. PICK c \in 1..BookLen : \E s \in 1..Len(NodeBlocks[c]) : i = Before(NodeBlocks, c - 1) + s
    BY <1>5
  <2>2. PICK s \in 1..Len(NodeBlocks[c]) : i = Before(NodeBlocks, c - 1) + s
    BY <2>1
  <2>3. s \in 1..(1 + Count(c)) /\ NodeBlocks[c][s] = [chapter |-> c, sub |-> s - 1]
    BY <1>2
  <2>4. Nodes[i] = NodeBlocks[c][s]
    BY <1>5, <2>2
  <2> QED BY <2>2, <2>3, <2>4
<1>7. ASSUME NEW i \in 1..Len(Nodes)
      PROVE  Nodes[i].chapter \in 1..BookLen /\ Nodes[i].sub \in 0..Count(Nodes[i].chapter)
  <2>1. PICK c \in 1..BookLen : \E s \in 1..(1 + Count(c)) : Nodes[i] = [chapter |-> c, sub |-> s - 1]
    BY <1>6
  <2>2. PICK s \in 1..(1 + Count(c)) : Nodes[i] = [chapter |-> c, sub |-> s - 1]
    BY <2>1
  <2> QED BY <1>1, <2>2
<1>8. ASSUME NEW i \in 1..Len(Nodes), NEW j \in 1..Len(Nodes), Nodes[i] = Nodes[j] PROVE i = j
  <2>1. PICK c \in 1..BookLen : \E s \in 1..(1 + Count(c)) :
          i = Before(NodeBlocks, c - 1) + s /\ Nodes[i] = [chapter |-> c, sub |-> s - 1]
    BY <1>6
  <2>2. PICK s \in 1..(1 + Count(c)) :
          i = Before(NodeBlocks, c - 1) + s /\ Nodes[i] = [chapter |-> c, sub |-> s - 1]
    BY <2>1
  <2>3. PICK d \in 1..BookLen : \E t \in 1..(1 + Count(d)) :
          j = Before(NodeBlocks, d - 1) + t /\ Nodes[j] = [chapter |-> d, sub |-> t - 1]
    BY <1>6
  <2>4. PICK t \in 1..(1 + Count(d)) :
          j = Before(NodeBlocks, d - 1) + t /\ Nodes[j] = [chapter |-> d, sub |-> t - 1]
    BY <2>3
  <2>5. c = d /\ s - 1 = t - 1
    BY <1>8, <2>2, <2>4
  <2>6. s = t
    BY <1>1, <2>5
  <2> QED BY <2>2, <2>4, <2>5, <2>6
<1> QED BY <1>4, <1>5, <1>7, <1>8
-----------------------------------------------------------------------------
(* What the steps do to the book.                                          *)

(* Steps that leave the chapters alone. *)
LEMMA SameChapters ==
  ASSUME UNCHANGED <<arrays, live>>
  PROVE  /\ Book' = Book /\ BookLen' = BookLen /\ Nodes' = Nodes /\ Children' = Children
         /\ \A c : ChildrenBefore(c)' = ChildrenBefore(c) /\ Count(c)' = Count(c)
         /\ \A m : Piece(m)' = Piece(m)
         /\ \A e : \A c : EntryOfChapter(e, c)' = EntryOfChapter(e, c)
         /\ \A e : \A k : EntryOfChild(e, k)' = EntryOfChild(e, k)
<1>1. Book' = Book
  BY DEF Book
<1>2. \A c : NodesOf(c)' = NodesOf(c) /\ ChildrenOf(c)' = ChildrenOf(c) /\ Count(c)' = Count(c)
  BY <1>1 DEF NodesOf, ChildrenOf, Count
<1>3. Nodes' = Nodes /\ Children' = Children
  BY <1>1, <1>2 DEF Nodes, Children
<1>4. \A c : ChildrenBefore(c)' = ChildrenBefore(c)
  BY <1>2 DEF ChildrenBefore
<1>5. \A m : Piece(m)' = Piece(m)
  BY <1>1 DEF Piece
<1>6. \A e : \A c : EntryOfChapter(e, c)' = EntryOfChapter(e, c)
  BY <1>1, <1>4 DEF EntryOfChapter
<1>7. \A e : \A k : EntryOfChild(e, k)' = EntryOfChild(e, k)
  BY <1>1, <1>3, <1>5 DEF EntryOfChild
<1> QED BY <1>1, <1>2, <1>3, <1>4, <1>5, <1>6, <1>7 DEF BookLen

(* Steps that keep the number of chapters and of their sub-chapters. *)
LEMMA SameShape ==
  ASSUME BookLen' = BookLen, DOMAIN Book' = 1..BookLen, DOMAIN Book = 1..BookLen,
         \A c \in 1..BookLen : Len(Book'[c].subs) = Len(Book[c].subs)
  PROVE  Nodes' = Nodes /\ Children' = Children
<1>1. \A c \in 1..BookLen : NodesOf(c)' = NodesOf(c) /\ ChildrenOf(c)' = ChildrenOf(c)
  BY DEF NodesOf, ChildrenOf
<1> QED BY <1>1 DEF Nodes, Children

(* append: the book has one chapter more, and no array loses anything. *)
LEMMA AppendFacts ==
  ASSUME TypeOK, HandlesInv, NEW ch \in ChapterType, ch.subs = <<>>, AppendChapter(ch)
  PROVE  /\ arrays' \in Seq(Seq(ChapterType)) /\ live' \in DOMAIN arrays' /\ cap' \in Nat
         /\ live' = Len(arrays') /\ Len(Book') <= cap'
         /\ Book' = Append(Book, ch)
         /\ live' = live \/ live' \notin DOMAIN arrays
         /\ \A a \in DOMAIN arrays :
              /\ a \in DOMAIN arrays'
              /\ \A i \in DOMAIN arrays[a] : i \in DOMAIN arrays'[a] /\ arrays'[a][i] = arrays[a][i]
         /\ Len(Nodes') = Len(Nodes) + 1 /\ Len(Nodes) \in Nat
<1>1. /\ arrays \in Seq(Seq(ChapterType)) /\ live = Len(arrays) /\ live \in DOMAIN arrays
      /\ cap \in Nat /\ Len(Book) <= cap
  BY DEF TypeOK, HandlesInv
<1>2. Book \in Seq(ChapterType) /\ BookLen \in Nat /\ BookLen = Len(Book) /\ Book = arrays[live]
  BY BookFacts DEF BookLen, Book
<1>3. Append(Book, ch) \in Seq(ChapterType) /\ Len(Append(Book, ch)) = BookLen + 1
      /\ \A i \in 1..BookLen : Append(Book, ch)[i] = Book[i]
  BY <1>2
<1>4. /\ arrays' \in Seq(Seq(ChapterType)) /\ live' \in DOMAIN arrays' /\ cap' \in Nat
      /\ live' = Len(arrays') /\ arrays'[live'] = Append(Book, ch) /\ BookLen + 1 <= cap'
      /\ live' = live \/ live' \notin DOMAIN arrays
      /\ \A a \in DOMAIN arrays :
           /\ a \in DOMAIN arrays'
           /\ \A i \in DOMAIN arrays[a] : i \in DOMAIN arrays'[a] /\ arrays'[a][i] = arrays[a][i]
  <2>1. CASE Len(Book) < cap
    <3>1. arrays' = [arrays EXCEPT ![live] = Append(@, ch)] /\ live' = live /\ cap' = cap
      BY <2>1 DEF AppendChapter
    <3>2. arrays' \in Seq(Seq(ChapterType)) /\ Len(arrays') = Len(arrays)
          /\ DOMAIN arrays' = DOMAIN arrays /\ arrays'[live] = Append(Book, ch)
          /\ \A a \in DOMAIN arrays : a # live => arrays'[a] = arrays[a]
      BY <1>1, <1>2, <1>3, <3>1
    <3>3. ASSUME NEW a \in DOMAIN arrays, NEW i \in DOMAIN arrays[a]
          PROVE  i \in DOMAIN arrays'[a] /\ arrays'[a][i] = arrays[a][i]
      <4>1. CASE a # live
        BY <3>2, <4>1
      <4>2. CASE a = live
        <5>1. i \in 1..BookLen
          BY <1>2, <4>2
        <5>2. arrays'[a] = Append(Book, ch) /\ arrays[a] = Book
          BY <1>2, <3>2, <4>2
        <5>3. i \in DOMAIN Append(Book, ch)
          BY <1>2, <1>3, <5>1
        <5> QED BY <1>3, <5>1, <5>2, <5>3
      <4> QED BY <4>1, <4>2
    <3> QED BY <1>1, <1>2, <2>1, <3>1, <3>2, <3>3
  <2>2. CASE ~(Len(Book) < cap)
    <3>1. arrays' = Append(arrays, Append(Book, ch)) /\ live' = Len(arrays) + 1 /\ cap' = GrownCap(cap)
      BY <2>2 DEF AppendChapter
    <3>2. arrays' \in Seq(Seq(ChapterType)) /\ Len(arrays') = Len(arrays) + 1
          /\ arrays'[Len(arrays) + 1] = Append(Book, ch)
          /\ \A a \in DOMAIN arrays : a \in DOMAIN arrays' /\ arrays'[a] = arrays[a]
      BY <1>1, <1>3, <3>1
    <3>3. BookLen = cap
      BY <1>1, <1>2, <2>2
    <3>4. cap' \in Nat /\ BookLen + 1 <= cap'
      BY <1>1, <3>1, <3>3 DEF GrownCap
    <3>5. live' \in DOMAIN arrays' /\ live' \notin DOMAIN arrays
      BY <1>1, <3>1, <3>2
    <3> QED BY <3>1, <3>2, <3>4, <3>5
  <2> QED BY <2>1, <2>2
<1>5. Book' = Append(Book, ch)
  BY <1>4 DEF Book
<1>6. Len(Nodes') = Len(Nodes) + 1 /\ Len(Nodes) \in Nat
  <2> DEFINE one == <<[chapter |-> BookLen + 1, sub |-> 0]>>
  <2>1. NodeBlocks \in Seq(Seq(NodeType)) /\ Len(NodeBlocks) = BookLen
        /\ \A c \in 1..BookLen : NodeBlocks[c] = NodesOf(c)
    BY BlockFacts
  <2>2. DOMAIN Book' = 1..(BookLen + 1)
    BY <1>2, <1>3, <1>5
  <2>3. one \in Seq(NodeType) /\ Len(one) = 1
    BY <1>2 DEF NodeType
  <2>4. ASSUME NEW c \in 1..(BookLen + 1)
        PROVE  NodesOf(c)' = IF c = BookLen + 1 THEN one ELSE NodesOf(c)
    <3>1. CASE c = BookLen + 1
      <4>1. Book'[c].subs = <<>>
        BY <1>2, <1>5, <3>1
      <4>2. NodesOf(c)' = [s \in 1..1 |-> [chapter |-> c, sub |-> s - 1]]
        BY <4>1 DEF NodesOf
      <4>3. [s \in 1..1 |-> [chapter |-> c, sub |-> s - 1]] = one
        BY <3>1
      <4> QED BY <3>1, <4>2, <4>3
    <3>2. CASE c # BookLen + 1
      <4>1. Book'[c] = Book[c]
        BY <1>2, <1>3, <1>5, <3>2
      <4> QED BY <3>2, <4>1 DEF NodesOf
    <3> QED BY <3>1, <3>2
  <2>5. Nodes' = FlattenSeq([c \in 1..(BookLen + 1) |-> NodesOf(c)'])
    BY <2>2 DEF Nodes
  <2>6. [c \in 1..(BookLen + 1) |-> NodesOf(c)'] = [c \in 1..(BookLen + 1) |-> IF c = BookLen + 1 THEN one ELSE NodesOf(c)]
    BY <2>4
  <2>7. [c \in 1..(BookLen + 1) |-> IF c = BookLen + 1 THEN one ELSE NodesOf(c)] = Append(NodeBlocks, one)
    <3> DEFINE all == Append(NodeBlocks, one)
    <3> HIDE DEF one
    <3>1. all \in Seq(Seq(NodeType)) /\ Len(all) = BookLen + 1 /\ all[BookLen + 1] = one
          /\ \A c \in 1..BookLen : all[c] = NodeBlocks[c]
      BY <1>2, <2>1, <2>3
    <3>2. \A c \in 1..(BookLen + 1) : all[c] = IF c = BookLen + 1 THEN one ELSE NodesOf(c)
      BY <1>2, <2>1, <3>1
    <3> HIDE DEF all
    <3>3. all = [c \in 1..(BookLen + 1) |-> all[c]]
      BY <3>1
    <3> QED BY <3>2, <3>3 DEF all
  <2>8. FlattenSeq(NodeBlocks) \in Seq(NodeType)
        /\ FlattenSeq(Append(NodeBlocks, one)) = FlattenSeq(NodeBlocks) \o one
    <3> HIDE DEF one
    <3> QED BY <2>1, <2>3, FlattenAppend
  <2>9. Nodes' = Nodes \o one /\ Nodes \in Seq(NodeType)
    BY <2>5, <2>6, <2>7, <2>8 DEF Nodes, NodeBlocks
  <2> HIDE DEF one
  <2>10. Len(Nodes \o one) = Len(Nodes) + Len(one)
    BY <2>3, <2>9, ConcatElements
  <2> QED BY <2>3, <2>9, <2>10
<1> QED BY <1>2, <1>3, <1>4, <1>5, <1>6
-----------------------------------------------------------------------------
(* Handles.                                                                *)

(* What HandlesAttached says of one handle. *)
Attached(h) ==
  /\ h.index \in DOMAIN arrays[h.array] /\ h.index \in DOMAIN Book
  /\ Names(arrays[h.array][h.index].subs) = h.added
  /\ IsPrefix(Names(Book[h.index].subs), h.added)
  /\ h.array = live => Names(Book[h.index].subs) = h.added

(* What the invariant says of each handle. *)
LEMMA HandlesAre ==
  ASSUME HandlesInv
  PROVE  \A k \in DOMAIN handles : handles[k].array \in DOMAIN arrays /\ Attached(handles[k])
BY DEF HandlesInv, HandlesAttached, Attached

(* Attached after a step. *)
LEMMA AttachedNext ==
  ASSUME NEW h, h.index \in DOMAIN arrays'[h.array], h.index \in DOMAIN Book',
         Names(arrays'[h.array][h.index].subs) = h.added,
         IsPrefix(Names(Book'[h.index].subs), h.added),
         h.array = live' => Names(Book'[h.index].subs) = h.added
  PROVE  Attached(h)'
BY DEF Attached, Names

(* A prefix stays one when the sequence grows. *)
LEMMA PrefixFacts ==
  ASSUME NEW X, NEW s \in Seq(X), NEW t \in Seq(X), NEW e \in X
  PROVE  /\ IsPrefix(s, s) /\ IsPrefix(<<>>, s)
         /\ IsPrefix(s, t) => IsPrefix(s, Append(t, e))
<1>1. IsPrefix(s, s) /\ IsPrefix(<<>>, s)
  BY DEF IsPrefix
<1>2. ASSUME IsPrefix(s, t) PROVE IsPrefix(s, Append(t, e))
  <2>1. Len(s) <= Len(t) /\ SubSeq(s, 1, Len(s)) = SubSeq(t, 1, Len(s))
    BY <1>2 DEF IsPrefix
  <2>2. Len(Append(t, e)) = Len(t) + 1 /\ \A i \in 1..Len(t) : Append(t, e)[i] = t[i]
    OBVIOUS
  <2>3. SubSeq(Append(t, e), 1, Len(s)) = SubSeq(t, 1, Len(s))
    BY <2>1, <2>2
  <2> QED BY <2>1, <2>2, <2>3 DEF IsPrefix
<1> QED BY <1>1, <1>2

(* The names of the sub-chapters of a chapter. *)
LEMMA NamesFacts ==
  ASSUME NEW subs \in Seq(SubType), NEW sub \in SubType
  PROVE  /\ Names(subs) \in Seq(Nat) /\ Names(<<>>) = <<>>
         /\ Names(Append(subs, sub)) = Append(Names(subs), sub.name)
<1>1. \A k \in DOMAIN subs : subs[k].name \in Nat
  <2> TAKE k \in DOMAIN subs
  <2>1. subs[k] \in SubType
    OBVIOUS
  <2> QED BY <2>1 DEF SubType
<1>2. Names(subs) \in Seq(Nat) /\ Len(Names(subs)) = Len(subs)
      /\ \A k \in 1..Len(subs) : Names(subs)[k] = subs[k].name
  BY <1>1 DEF Names
<1>3. Names(<<>>) = <<>>
  BY DEF Names
<1>4. Names(Append(subs, sub)) = Append(Names(subs), sub.name)
  <2> DEFINE more == Append(subs, sub)
             named == Append(Names(subs), sub.name)
  <2>1. more \in Seq(SubType) /\ Len(more) = Len(subs) + 1 /\ more[Len(subs) + 1] = sub
        /\ \A k \in 1..Len(subs) : more[k] = subs[k]
    OBVIOUS
  <2>2. sub.name \in Nat
    BY DEF SubType
  <2>3. named \in Seq(Nat) /\ Len(named) = Len(subs) + 1 /\ named[Len(subs) + 1] = sub.name
        /\ \A k \in 1..Len(subs) : named[k] = subs[k].name
    BY <1>2, <2>2
  <2> HIDE DEF more, named
  <2>4. \A k \in 1..(Len(subs) + 1) : more[k].name = named[k]
    BY <2>1, <2>3
  <2>5. named = [k \in 1..(Len(subs) + 1) |-> named[k]]
    BY <2>3
  <2>6. Names(more) = [k \in 1..(Len(subs) + 1) |-> more[k].name]
    BY <2>1 DEF Names
  <2> QED BY <2>4, <2>5, <2>6 DEF more, named
<1> QED BY <1>2, <1>3, <1>4

(* No handle is lost when the slice grows or moves. *)
LEMMA AttachedKept ==
  ASSUME TypeOK, HandlesInv, NEW ch \in ChapterType, ch.subs = <<>>, AppendChapter(ch),
         NEW h, h.array \in DOMAIN arrays, Attached(h)
  PROVE  Attached(h)' /\ h.array \in DOMAIN arrays'
<1>1. /\ Book' = Append(Book, ch)
      /\ live' = live \/ live' \notin DOMAIN arrays
      /\ \A a \in DOMAIN arrays :
           /\ a \in DOMAIN arrays'
           /\ \A i \in DOMAIN arrays[a] : i \in DOMAIN arrays'[a] /\ arrays'[a][i] = arrays[a][i]
  BY AppendFacts
<1>2. Book \in Seq(ChapterType)
  BY BookFacts
<1>3. h.index \in DOMAIN Book' /\ Book'[h.index] = Book[h.index]
  BY <1>1, <1>2 DEF Attached
<1>4. h.array \in DOMAIN arrays' /\ h.index \in DOMAIN arrays'[h.array]
      /\ arrays'[h.array][h.index] = arrays[h.array][h.index]
  BY <1>1 DEF Attached
<1>5. h.array = live' => h.array = live
  BY <1>1
<1>6. Names(Book'[h.index].subs) = Names(Book[h.index].subs)
      /\ Names(arrays'[h.array][h.index].subs) = Names(arrays[h.array][h.index].subs)
  BY <1>3, <1>4
<1> QED BY <1>3, <1>4, <1>5, <1>6 DEF Attached, Names

(* The new handle points to the last chapter, beyond all others. *)
LEMMA NewChapterHandles ==
  ASSUME TypeOK, HandlesInv, NEW size \in Sizes, NewChapter(size)
  PROVE  HandlesInv'
<1> DEFINE ch == Chapter(chapterCount, size, <<>>)
           new == [array |-> live', index |-> BookLen + 1, added |-> <<>>]
<1>1. ch \in ChapterType /\ ch.subs = <<>>
  BY SizesAssumption DEF TypeOK, Chapter, ChapterType
<1>2. AppendChapter(ch) /\ handles' = Append(handles, new)
  BY DEF NewChapter, NewHandle, BookLen
<1> HIDE DEF ch
<1>3. /\ live' \in DOMAIN arrays' /\ live' = Len(arrays') /\ Len(Book') <= cap'
      /\ Book' = Append(Book, ch)
  BY <1>1, <1>2, AppendFacts
<1>4. Book \in Seq(ChapterType) /\ BookLen \in Nat /\ BookLen = Len(Book) /\ DOMAIN Book = 1..BookLen
  BY BookFacts DEF BookLen
<1>5. Book'[BookLen + 1] = ch /\ BookLen + 1 \in DOMAIN Book'
  BY <1>1, <1>3, <1>4
<1>6. handles \in Seq([array : Nat \ {0}, index : Nat \ {0}, added : Seq(Nat)])
  BY DEF TypeOK
<1>7. DOMAIN handles' = 1..(Len(handles) + 1) /\ DOMAIN handles = 1..Len(handles) /\ Len(handles) \in Nat
      /\ handles'[Len(handles) + 1] = new /\ \A k \in DOMAIN handles : handles'[k] = handles[k]
  BY SMTT(30), <1>2, <1>6
<1>8. ASSUME NEW k \in DOMAIN handles, NEW h, h = handles'[k]
      PROVE  h.array \in DOMAIN arrays' /\ Attached(h)' /\ h.index \in 1..BookLen
  <2>1. h.array \in DOMAIN arrays /\ Attached(h)
    BY <1>7, <1>8, HandlesAre
  <2>2. h.array \in DOMAIN arrays' /\ Attached(h)'
    BY <1>1, <1>2, <2>1, AttachedKept
  <2>3. h.index \in 1..BookLen
    BY <1>4, <2>1 DEF Attached
  <2> QED BY <2>2, <2>3
<1>9. ASSUME NEW h, h = new PROVE h.array \in DOMAIN arrays' /\ Attached(h)' /\ h.index = BookLen + 1
  <2>1. Names(<<>>) = <<>> /\ IsPrefix(<<>>, <<>>)
    BY DEF Names, IsPrefix
  <2>2. arrays'[h.array] = Book' /\ h.array = live' /\ h.index = BookLen + 1 /\ h.added = <<>>
    BY <1>9 DEF Book
  <2>3. Book'[h.index].subs = <<>>
    BY <1>1, <1>5, <2>2
  <2>4. Names(Book'[h.index].subs) = <<>>
    BY <2>1, <2>3
  <2> QED BY <1>3, <1>5, <2>1, <2>2, <2>4 DEF Attached, Names
<1>10. ASSUME NEW k \in DOMAIN handles', NEW h, h = handles'[k]
       PROVE  h.array \in DOMAIN arrays' /\ Attached(h)'
  <2>1. CASE k \in DOMAIN handles
    BY <1>8, <1>10, <2>1
  <2>2. CASE k = Len(handles) + 1
    BY <1>7, <1>9, <1>10, <2>2
  <2> QED BY <1>7, <2>1, <2>2
<1>11. \A j, k \in DOMAIN handles' : j < k => handles'[j].index < handles'[k].index
  <2>1. \A j, k \in DOMAIN handles : j < k => handles[j].index < handles[k].index
    BY DEF HandlesInv
  <2>2. \A j \in DOMAIN handles : handles'[j].index \in 1..BookLen
    BY <1>8
  <2>3. handles'[Len(handles) + 1].index = BookLen + 1
    BY <1>7
  <2> TAKE j, k \in DOMAIN handles'
  <2>4. CASE j \in DOMAIN handles /\ k \in DOMAIN handles
    BY <1>7, <2>1, <2>4
  <2>5. CASE j \in DOMAIN handles /\ k = Len(handles) + 1
    BY <1>4, <2>2, <2>3, <2>5
  <2>6. CASE j = Len(handles) + 1
    BY <1>7, <2>6
  <2> QED BY <1>7, <2>4, <2>5, <2>6
<1>12. HandlesAttached'
  BY <1>10 DEF HandlesAttached, Attached
<1> QED BY <1>3, <1>10, <1>11, <1>12 DEF HandlesInv
(* A sub-chapter is added to one chapter of one array. *)
LEMMA AddSubFacts ==
  ASSUME TypeOK, HandlesInv, NEW h \in DOMAIN handles, NEW size \in Sizes, AddSubChapter(h, size),
         NEW A, NEW I, NEW sub,
         A = handles[h].array, I = handles[h].index, sub = SubPiece(subCalls + 1, size)
  PROVE  /\ A \in DOMAIN arrays /\ I \in DOMAIN arrays[A] /\ I \in Nat /\ sub \in SubType
         /\ handles' = [handles EXCEPT ![h].added = Append(@, sub.name)]
         /\ live' = live /\ cap' = cap
         /\ arrays' \in Seq(Seq(ChapterType)) /\ DOMAIN arrays' = DOMAIN arrays /\ Len(arrays') = Len(arrays)
         /\ \A a \in DOMAIN arrays :
              /\ Len(arrays'[a]) = Len(arrays[a]) /\ DOMAIN arrays'[a] = DOMAIN arrays[a]
              /\ \A i \in DOMAIN arrays[a] :
                   IF a = A /\ i = I
                   THEN /\ arrays'[a][i].subs = Append(arrays[a][i].subs, sub)
                        /\ arrays'[a][i].ID = arrays[a][i].ID /\ arrays'[a][i].links = arrays[a][i].links
                   ELSE arrays'[a][i] = arrays[a][i]
<1>1. A \in DOMAIN arrays /\ I \in DOMAIN arrays[A] /\ I \in Nat
  <2>1. A \in DOMAIN arrays /\ Attached(handles[h])
    BY HandlesAre
  <2>2. handles \in Seq([array : Nat \ {0}, index : Nat \ {0}, added : Seq(Nat)])
    BY DEF TypeOK
  <2>3. handles[h] \in [array : Nat \ {0}, index : Nat \ {0}, added : Seq(Nat)]
    BY <2>2, ElementOf
  <2> QED BY <2>1, <2>3 DEF Attached
<1>2. sub \in SubType
  BY SizesAssumption, BoundsAssumption DEF SubPiece, SubType, TypeOK
<1>3. /\ arrays' = [arrays EXCEPT ![A][I].subs = Append(@, sub)]
      /\ handles' = [handles EXCEPT ![h].added = Append(@, sub.name)]
      /\ live' = live /\ cap' = cap
  BY DEF AddSubChapter
<1>4. arrays \in Seq(Seq(ChapterType))
  BY DEF TypeOK
<1> DEFINE new == [arrays[A][I] EXCEPT !.subs = Append(@, sub)]
           row == [arrays[A] EXCEPT ![I] = new]
<1>5. arrays[A] \in Seq(ChapterType) /\ arrays[A][I] \in ChapterType
  BY <1>1, <1>4, ElementOf
<1>6. new \in ChapterType /\ new.subs = Append(arrays[A][I].subs, sub)
      /\ new.ID = arrays[A][I].ID /\ new.links = arrays[A][I].links
  <2>1. PICK old \in ChapterType : old = arrays[A][I]
    BY <1>5
  <2>2. old.subs \in Seq(SubType)
    BY DEF ChapterType
  <2>3. Append(old.subs, sub) \in Seq(SubType)
    BY <1>2, <2>2
  <2>4. [old EXCEPT !.subs = Append(old.subs, sub)] \in ChapterType
    BY <2>3 DEF ChapterType
  <2>5. new = [old EXCEPT !.subs = Append(old.subs, sub)]
    BY <2>1
  <2>6. new.subs = Append(old.subs, sub) /\ new.ID = old.ID /\ new.links = old.links
    BY <2>5 DEF ChapterType
  <2> QED BY <2>1, <2>4, <2>5, <2>6
<1>7. arrays' = [arrays EXCEPT ![A] = row]
  BY <1>3
<1> HIDE DEF new
<1>8. row \in Seq(ChapterType) /\ Len(row) = Len(arrays[A]) /\ DOMAIN row = DOMAIN arrays[A] /\ row[I] = new
      /\ \A i \in DOMAIN arrays[A] : i # I => row[i] = arrays[A][i]
  BY <1>1, <1>5, <1>6
<1> HIDE DEF row
<1>9. arrays' \in Seq(Seq(ChapterType)) /\ DOMAIN arrays' = DOMAIN arrays /\ Len(arrays') = Len(arrays)
      /\ arrays'[A] = row /\ \A a \in DOMAIN arrays : a # A => arrays'[a] = arrays[a]
  BY <1>1, <1>4, <1>7, <1>8
<1>10. ASSUME NEW a \in DOMAIN arrays
       PROVE  /\ Len(arrays'[a]) = Len(arrays[a]) /\ DOMAIN arrays'[a] = DOMAIN arrays[a]
              /\ \A i \in DOMAIN arrays[a] :
                   IF a = A /\ i = I
                   THEN /\ arrays'[a][i].subs = Append(arrays[a][i].subs, sub)
                        /\ arrays'[a][i].ID = arrays[a][i].ID /\ arrays'[a][i].links = arrays[a][i].links
                   ELSE arrays'[a][i] = arrays[a][i]
  <2>1. CASE a = A
    BY <1>6, <1>8, <1>9, <2>1
  <2>2. CASE a # A
    BY <1>9, <2>2
  <2> QED BY <2>1, <2>2
<1>11. \A a \in DOMAIN arrays :
         /\ Len(arrays'[a]) = Len(arrays[a]) /\ DOMAIN arrays'[a] = DOMAIN arrays[a]
         /\ \A i \in DOMAIN arrays[a] :
              IF a = A /\ i = I
              THEN /\ arrays'[a][i].subs = Append(arrays[a][i].subs, sub)
                   /\ arrays'[a][i].ID = arrays[a][i].ID /\ arrays'[a][i].links = arrays[a][i].links
              ELSE arrays'[a][i] = arrays[a][i]
  BY <1>10
<1> QED BY <1>1, <1>2, <1>3, <1>9, <1>11

(* A chapter without a handle disturbs none. *)
LEMMA CreateTOCHandles ==
  ASSUME TypeOK, HandlesInv, NEW ch \in ChapterType, ch.subs = <<>>, AppendChapter(ch), handles' = handles
  PROVE  HandlesInv'
<1>1. live' = Len(arrays') /\ Len(Book') <= cap'
  BY AppendFacts
<1>2. ASSUME NEW k \in DOMAIN handles', NEW h, h = handles'[k]
      PROVE  h.array \in DOMAIN arrays' /\ Attached(h)'
  <2>1. h.array \in DOMAIN arrays /\ Attached(h)
    BY <1>2, HandlesAre
  <2> QED BY <2>1, AttachedKept
<1>3. HandlesAttached'
  BY <1>2 DEF HandlesAttached, Attached
<1>4. \A j, k \in DOMAIN handles' : j < k => handles'[j].index < handles'[k].index
  BY DEF HandlesInv
<1> QED BY <1>1, <1>2, <1>3, <1>4 DEF HandlesInv

(* A sub-chapter reaches one chapter, and no other handle points to it. *)
LEMMA AddSubHandles ==
  ASSUME TypeOK, HandlesInv, NEW h \in DOMAIN handles, NEW size \in Sizes, AddSubChapter(h, size)
  PROVE  HandlesInv'
<1>0. PICK A, I, sub : A = handles[h].array /\ I = handles[h].index /\ sub = SubPiece(subCalls + 1, size)
  OBVIOUS
<1>1. /\ A \in DOMAIN arrays /\ I \in DOMAIN arrays[A] /\ I \in Nat /\ sub \in SubType
      /\ handles' = [handles EXCEPT ![h].added = Append(@, sub.name)]
      /\ live' = live /\ cap' = cap
      /\ DOMAIN arrays' = DOMAIN arrays /\ Len(arrays') = Len(arrays)
      /\ \A a \in DOMAIN arrays :
           /\ Len(arrays'[a]) = Len(arrays[a]) /\ DOMAIN arrays'[a] = DOMAIN arrays[a]
           /\ \A i \in DOMAIN arrays[a] :
                IF a = A /\ i = I
                THEN /\ arrays'[a][i].subs = Append(arrays[a][i].subs, sub)
                     /\ arrays'[a][i].ID = arrays[a][i].ID /\ arrays'[a][i].links = arrays[a][i].links
                ELSE arrays'[a][i] = arrays[a][i]
  BY SMTT(30), <1>0, AddSubFacts
<1>2. handles \in Seq([array : Nat \ {0}, index : Nat \ {0}, added : Seq(Nat)])
      /\ arrays \in Seq(Seq(ChapterType)) /\ live \in DOMAIN arrays
  BY DEF TypeOK
<1>3. /\ live = Len(arrays) /\ Len(Book) <= cap
      /\ \A j, k \in DOMAIN handles : j < k => handles[j].index < handles[k].index
  BY DEF HandlesInv
<1>4. /\ DOMAIN handles' = DOMAIN handles
      /\ \A k \in DOMAIN handles :
           /\ handles[k] \in [array : Nat \ {0}, index : Nat \ {0}, added : Seq(Nat)]
           /\ handles'[k].array = handles[k].array /\ handles'[k].index = handles[k].index
           /\ handles'[k].added = IF k = h THEN Append(handles[k].added, sub.name) ELSE handles[k].added
  <2>1. \A k \in DOMAIN handles : handles[k] \in [array : Nat \ {0}, index : Nat \ {0}, added : Seq(Nat)]
    BY <1>2, ElementOf
  <2> QED BY <1>1, <1>2, <2>1, SMTT(60)
<1>5. Book' = arrays'[live] /\ Book = arrays[live]
  BY <1>1 DEF Book
<1>6. ASSUME NEW k \in DOMAIN handles, k # h PROVE handles[k].index # I
  <2>1. k < h \/ h < k
    BY <1>2, <1>6
  <2>2. handles[k].index \in Nat /\ handles[h].index \in Nat
    BY <1>4
  <2> QED BY <1>0, <1>3, <2>1, <2>2
<1>7. ASSUME NEW k \in DOMAIN handles, NEW old, old = handles[k], NEW g, g = handles'[k]
      PROVE  g.array \in DOMAIN arrays' /\ Attached(g)'
  <2>1. old.array \in DOMAIN arrays /\ Attached(old)
    BY <1>7, HandlesAre
  <2>2. g.array = old.array /\ g.index = old.index
        /\ g.added = IF k = h THEN Append(old.added, sub.name) ELSE old.added
    BY <1>4, <1>7
  <2>3. g.index \in DOMAIN arrays'[g.array] /\ g.index \in DOMAIN Book' /\ g.array \in DOMAIN arrays'
    BY <1>1, <1>2, <1>5, <2>1, <2>2 DEF Attached
  <2>4. CASE k # h
    <3>1. g.index # I
      BY <1>6, <1>7, <2>2, <2>4
    <3>2. arrays'[g.array][g.index] = arrays[old.array][old.index]
      BY <1>1, <2>1, <2>2, <3>1 DEF Attached
    <3>3. Book'[g.index] = Book[old.index]
      BY <1>1, <1>2, <1>5, <2>1, <2>2, <3>1 DEF Attached
    <3>4. Names(arrays'[g.array][g.index].subs) = Names(arrays[old.array][old.index].subs)
          /\ Names(Book'[g.index].subs) = Names(Book[old.index].subs) /\ g.added = old.added
      BY <2>2, <2>4, <3>2, <3>3
    <3> QED BY <1>1, <2>1, <2>2, <2>3, <3>4 DEF Attached, Names
  <2>5. CASE k = h
    <3>1. old.array = A /\ old.index = I
      BY <1>0, <1>7, <2>5
    <3>2. arrays[A][I] \in ChapterType
      <4>1. arrays[A] \in Seq(ChapterType)
        BY <1>1, <1>2, ElementOf
      <4> QED BY <1>1, <4>1, ElementOf
    <3>3. arrays[A][I].subs \in Seq(SubType)
      BY <3>2 DEF ChapterType
    <3>4. Names(arrays'[A][I].subs) = Append(old.added, sub.name)
      <4>1. arrays'[A][I].subs = Append(arrays[A][I].subs, sub)
        BY <1>1
      <4>2. Names(arrays[A][I].subs) = old.added
        BY <2>1, <3>1 DEF Attached
      <4> QED BY <1>1, <3>3, <4>1, <4>2, NamesFacts
    <3>5. old.added \in Seq(Nat) /\ sub.name \in Nat
      BY <1>1, <1>4, <1>7, <2>5 DEF SubType
    <3>6. CASE A = live
      <4>1. Names(Book'[I].subs) = g.added
        BY <1>5, <2>2, <2>5, <3>4, <3>6
      <4>2. IsPrefix(g.added, g.added)
        <5>1. g.added \in Seq(Nat)
          BY <2>2, <2>5, <3>5
        <5> QED BY <3>5, <5>1, PrefixFacts
      <4> QED BY <2>2, <2>3, <2>5, <3>1, <3>4, <4>1, <4>2, AttachedNext
    <3>7. CASE A # live
      <4>1. Book'[I] = Book[I] /\ I \in DOMAIN Book
        BY <1>1, <1>2, <1>5, <2>1, <3>1, <3>7 DEF Attached
      <4>2. Book[I] \in ChapterType
        <5>1. Book \in Seq(ChapterType)
          BY <1>2, <1>5, ElementOf
        <5> QED BY <4>1, <5>1, ElementOf
      <4>3. Names(Book[I].subs) \in Seq(Nat)
        <5>1. Book[I].subs \in Seq(SubType)
          BY <4>2 DEF ChapterType
        <5> QED BY <1>1, <5>1, NamesFacts
      <4>4. IsPrefix(Names(Book[I].subs), old.added)
        BY <2>1, <3>1 DEF Attached
      <4>5. IsPrefix(Names(Book'[I].subs), g.added)
        BY <2>2, <2>5, <3>5, <4>1, <4>3, <4>4, PrefixFacts
      <4> QED BY <1>1, <2>2, <2>3, <2>5, <3>1, <3>4, <3>7, <4>5, AttachedNext
    <3> QED BY <3>6, <3>7
  <2> QED BY <2>4, <2>5
<1>8. \A k \in DOMAIN handles' : handles'[k].array \in DOMAIN arrays'
  BY <1>4, <1>7
<1>9. HandlesAttached'
  BY <1>4, <1>7 DEF HandlesAttached, Attached
<1>10. live' = Len(arrays') /\ Len(Book') <= cap'
  BY <1>1, <1>2, <1>3, <1>5
<1>11. \A j, k \in DOMAIN handles' : j < k => handles'[j].index < handles'[k].index
  BY <1>3, <1>4
<1> QED BY <1>8, <1>9, <1>10, <1>11 DEF HandlesInv
(* The pieces of a book. *)
BlocksOf(book) == [c \in DOMAIN book |-> [s \in 1..(1 + Len(book[c].subs)) |-> [chapter |-> c, sub |-> s - 1]]]

(* Their types and lengths. *)
LEMMA BlocksOfFacts ==
  ASSUME NEW book \in Seq(ChapterType)
  PROVE  /\ BlocksOf(book) \in Seq(Seq(NodeType)) /\ Len(BlocksOf(book)) = Len(book)
         /\ \A c \in 1..Len(book) : Len(BlocksOf(book)[c]) = 1 + Len(book[c].subs)
<1>1. ASSUME NEW c \in 1..Len(book)
      PROVE  /\ BlocksOf(book)[c] \in Seq(NodeType) /\ Len(BlocksOf(book)[c]) = 1 + Len(book[c].subs)
  <2>1. book[c] \in ChapterType /\ c \in Nat
    OBVIOUS
  <2>2. Len(book[c].subs) \in Nat
    BY <2>1 DEF ChapterType
  <2>3. \A s \in 1..(1 + Len(book[c].subs)) : [chapter |-> c, sub |-> s - 1] \in NodeType
    BY <2>1, <2>2 DEF NodeType
  <2>4. BlocksOf(book)[c] = [s \in 1..(1 + Len(book[c].subs)) |-> [chapter |-> c, sub |-> s - 1]]
    <3>1. c \in DOMAIN book
      OBVIOUS
    <3> QED BY <3>1 DEF BlocksOf
  <2> QED BY <2>2, <2>3, <2>4
<1>2. DOMAIN BlocksOf(book) = 1..Len(book) /\ BlocksOf(book) = [c \in 1..Len(book) |-> BlocksOf(book)[c]]
  BY DEF BlocksOf
<1>3. BlocksOf(book) \in Seq(Seq(NodeType)) /\ Len(BlocksOf(book)) = Len(book)
  BY <1>1, <1>2
<1> QED BY <1>1, <1>3

(* A sub-chapter makes the book longer, or leaves it as it is. *)
LEMMA AddSubBook ==
  ASSUME TypeOK, HandlesInv, NEW h \in DOMAIN handles, NEW size \in Sizes, AddSubChapter(h, size)
  PROVE  /\ arrays' \in Seq(Seq(ChapterType)) /\ live' \in DOMAIN arrays'
         /\ handles' \in Seq([array : Nat \ {0}, index : Nat \ {0}, added : Seq(Nat)])
         /\ BookLen' = BookLen /\ DOMAIN Book' = DOMAIN Book
         /\ \A c \in DOMAIN Book : Book'[c].ID = Book[c].ID /\ Book'[c].links = Book[c].links
         /\ Len(Nodes) <= Len(Nodes') /\ Len(Nodes) \in Nat /\ Len(Nodes') \in Nat
<1>0. PICK A, I, sub : A = handles[h].array /\ I = handles[h].index /\ sub = SubPiece(subCalls + 1, size)
  OBVIOUS
<1>1. /\ A \in DOMAIN arrays /\ I \in DOMAIN arrays[A] /\ I \in Nat /\ sub \in SubType
      /\ handles' = [handles EXCEPT ![h].added = Append(@, sub.name)]
      /\ live' = live /\ cap' = cap
      /\ arrays' \in Seq(Seq(ChapterType)) /\ DOMAIN arrays' = DOMAIN arrays /\ Len(arrays') = Len(arrays)
      /\ \A a \in DOMAIN arrays :
           /\ Len(arrays'[a]) = Len(arrays[a]) /\ DOMAIN arrays'[a] = DOMAIN arrays[a]
           /\ \A i \in DOMAIN arrays[a] :
                IF a = A /\ i = I
                THEN /\ arrays'[a][i].subs = Append(arrays[a][i].subs, sub)
                     /\ arrays'[a][i].ID = arrays[a][i].ID /\ arrays'[a][i].links = arrays[a][i].links
                ELSE arrays'[a][i] = arrays[a][i]
  BY SMTT(30), <1>0, AddSubFacts
<1>2. live \in DOMAIN arrays /\ handles \in Seq([array : Nat \ {0}, index : Nat \ {0}, added : Seq(Nat)])
  BY DEF TypeOK
<1>3. handles' \in Seq([array : Nat \ {0}, index : Nat \ {0}, added : Seq(Nat)])
  <2>1. PICK old \in [array : Nat \ {0}, index : Nat \ {0}, added : Seq(Nat)] : old = handles[h]
    BY <1>2, ElementOf
  <2>2. sub.name \in Nat
    BY <1>1 DEF SubType
  <2>3. Append(old.added, sub.name) \in Seq(Nat)
    BY <2>2
  <2>4. [old EXCEPT !.added = Append(@, sub.name)] \in [array : Nat \ {0}, index : Nat \ {0}, added : Seq(Nat)]
    BY <2>3
  <2>5. handles' = [handles EXCEPT ![h] = [old EXCEPT !.added = Append(@, sub.name)]]
    BY <1>1, <2>1
  <2> QED BY <1>2, <2>4, <2>5, ReplaceElement
<1>4. Book' = arrays'[live] /\ Book = arrays[live] /\ Book \in Seq(ChapterType) /\ Book' \in Seq(ChapterType)
  <2>1. Book' = arrays'[live] /\ Book = arrays[live]
    BY <1>1 DEF Book
  <2> QED BY <1>1, <1>2, <2>1, BookFacts, ElementOf
<1>5. /\ BookLen' = BookLen /\ DOMAIN Book' = DOMAIN Book /\ BookLen = Len(Book) /\ Len(Book') = Len(Book)
      /\ \A c \in DOMAIN Book :
           IF live = A /\ c = I
           THEN Book'[c].subs = Append(Book[c].subs, sub) /\ Book'[c].ID = Book[c].ID /\ Book'[c].links = Book[c].links
           ELSE Book'[c] = Book[c]
  BY <1>1, <1>2, <1>4 DEF BookLen
<1>6. ASSUME NEW c \in 1..Len(Book) PROVE Len(Book[c].subs) <= Len(Book'[c].subs)
  <2>1. c \in DOMAIN Book
    BY <1>4
  <2>2. Book[c] \in ChapterType
    BY <1>4, <2>1, ElementOf
  <2>3. Book[c].subs \in Seq(SubType)
    BY <2>2 DEF ChapterType
  <2>4. CASE live = A /\ c = I
    <3>1. Book'[c].subs = Append(Book[c].subs, sub)
      BY <1>5, <2>1, <2>4
    <3> QED BY <1>1, <2>3, <3>1
  <2>5. CASE ~(live = A /\ c = I)
    <3>1. Book'[c] = Book[c]
      BY <1>5, <2>1, <2>5
    <3> QED BY <2>3, <3>1
  <2> QED BY <2>4, <2>5
<1>7. \A c \in DOMAIN Book : Book'[c].ID = Book[c].ID /\ Book'[c].links = Book[c].links
  BY <1>5
<1>8. Nodes = FlattenSeq(BlocksOf(Book)) /\ Nodes' = FlattenSeq(BlocksOf(Book'))
  BY DEF Nodes, NodesOf, BlocksOf
<1>9. PICK b \in Seq(ChapterType) : b = Book
  BY <1>4
<1>10. PICK d \in Seq(ChapterType) : d = Book'
  BY <1>4
<1>11. /\ BlocksOf(b) \in Seq(Seq(NodeType)) /\ BlocksOf(d) \in Seq(Seq(NodeType))
       /\ Len(BlocksOf(b)) = Len(b) /\ Len(BlocksOf(d)) = Len(d)
       /\ \A c \in 1..Len(b) : Len(BlocksOf(b)[c]) = 1 + Len(b[c].subs)
       /\ \A c \in 1..Len(d) : Len(BlocksOf(d)[c]) = 1 + Len(d[c].subs)
  BY BlocksOfFacts
<1>12. Len(BlocksOf(b)) = Len(BlocksOf(d))
  BY <1>5, <1>9, <1>10, <1>11
<1>13. \A c \in 1..Len(BlocksOf(b)) : Len(BlocksOf(b)[c]) <= Len(BlocksOf(d)[c])
  <2>1. Len(b) = Len(d) /\ \A c \in 1..Len(b) : Len(b[c].subs) <= Len(d[c].subs)
    BY <1>5, <1>6, <1>9, <1>10
  <2>2. \A c \in 1..Len(b) : Len(b[c].subs) \in Nat /\ Len(d[c].subs) \in Nat
    <3> TAKE c \in 1..Len(b)
    <3>1. c \in DOMAIN b /\ c \in DOMAIN d
      BY <1>5, <1>9, <1>10
    <3>2. b[c] \in ChapterType /\ d[c] \in ChapterType
      BY <3>1, ElementOf
    <3>3. b[c].subs \in Seq(SubType) /\ d[c].subs \in Seq(SubType)
      BY <3>2 DEF ChapterType
    <3> QED BY <3>3
  <2> TAKE c \in 1..Len(BlocksOf(b))
  <2>3. c \in 1..Len(b) /\ c \in 1..Len(d)
    BY <1>11, <2>1
  <2>4. Len(BlocksOf(b)[c]) = 1 + Len(b[c].subs) /\ Len(BlocksOf(d)[c]) = 1 + Len(d[c].subs)
    BY <1>11, <2>3
  <2>5. Len(b[c].subs) <= Len(d[c].subs) /\ Len(b[c].subs) \in Nat /\ Len(d[c].subs) \in Nat
    BY <2>1, <2>2, <2>3
  <2> QED BY <2>4, <2>5
<1>14. Len(FlattenSeq(BlocksOf(b))) <= Len(FlattenSeq(BlocksOf(d)))
  BY <1>11, <1>12, <1>13, FlattenLonger
<1>15. FlattenSeq(BlocksOf(b)) \in Seq(NodeType) /\ FlattenSeq(BlocksOf(d)) \in Seq(NodeType)
  BY <1>11, FlattenPlaces DEF Placed
<1>16. Len(Nodes) <= Len(Nodes') /\ Len(Nodes) \in Nat /\ Len(Nodes') \in Nat
  BY <1>8, <1>9, <1>10, <1>14, <1>15
<1> QED BY <1>1, <1>2, <1>3, <1>5, <1>7, <1>16
-----------------------------------------------------------------------------
(* Writing a piece.                                                        *)

LEMMA HtmlLenFacts ==
  ASSUME TypeOK
  PROVE  /\ HtmlLen \in Nat /\ Len(html) \in Nat /\ DOMAIN html = 1..Len(html)
         /\ \A k \in DOMAIN html : html[k].start \in Nat /\ html[k].len \in Nat
         /\ HtmlLen = IF Len(html) = 0 THEN HeadLen ELSE html[Len(html)].start + html[Len(html)].len
<1>1. html \in Seq([node : NodeType, start : Nat, len : Nat])
  BY DEF TypeOK
<1>2. ASSUME NEW k \in DOMAIN html PROVE html[k].start \in Nat /\ html[k].len \in Nat
  <2>1. html[k] \in [node : NodeType, start : Nat, len : Nat]
    BY <1>1, ElementOf
  <2> QED BY <2>1
<1>3. Len(html) \in Nat /\ DOMAIN html = 1..Len(html) /\ (html = <<>> <=> Len(html) = 0)
  BY <1>1
<1>4. HtmlLen = IF Len(html) = 0 THEN HeadLen ELSE html[Len(html)].start + html[Len(html)].len
  BY <1>3 DEF HtmlLen, Last
<1>5. HtmlLen \in Nat
  <2>1. CASE Len(html) = 0
    BY <1>4, <2>1, SizesAssumption
  <2>2. CASE Len(html) # 0
    <3>1. Len(html) \in DOMAIN html
      BY <1>3, <2>2
    <3> QED BY <1>2, <1>4, <2>2, <3>1
  <2> QED BY <2>1, <2>2
<1> QED BY <1>2, <1>3, <1>4, <1>5

(* The piece is rewritten in its chapter with its offset and length. *)
Rewritten(nd) ==
  LET chapter == Book[nd.chapter]
  IN  IF nd.sub = 0 THEN [chapter EXCEPT !.offset = HtmlLen, !.len = chapter.size]
      ELSE LET piece == chapter.subs[nd.sub]
           IN  [chapter EXCEPT !.subs =
                 [chapter.subs EXCEPT ![nd.sub] = [piece EXCEPT !.offset = HtmlLen, !.len = piece.size]]]

RewriteOf(nd, old, new) ==
  /\ new \in ChapterType /\ new.ID = old.ID /\ new.links = old.links
  /\ Len(new.subs) = Len(old.subs) /\ DOMAIN new.subs = DOMAIN old.subs
  /\ Names(new.subs) = Names(old.subs)
  /\ IF nd.sub = 0 THEN new.offset = HtmlLen /\ new.len = old.size /\ new.subs = old.subs
     ELSE /\ new.offset = old.offset /\ new.len = old.len
          /\ new.subs[nd.sub].offset = HtmlLen /\ new.subs[nd.sub].len = old.subs[nd.sub].size
          /\ \A k \in DOMAIN old.subs : k # nd.sub => new.subs[k] = old.subs[k]

(* The chapter keeps everything else. *)
LEMMA RewrittenFacts ==
  ASSUME TypeOK, NEW nd \in NodeType, nd.chapter \in 1..BookLen, nd.sub \in 0..Count(nd.chapter),
         NEW old, old = Book[nd.chapter], NEW new, new = Rewritten(nd)
  PROVE  RewriteOf(nd, old, new)
<1> USE DEF RewriteOf
<1>1. old \in ChapterType /\ old.subs \in Seq(SubType) /\ Count(nd.chapter) = Len(old.subs)
      /\ DOMAIN old.subs = 1..Len(old.subs) /\ HtmlLen \in Nat /\ old.size \in Nat
  BY BookFacts, HtmlLenFacts DEF Count
<1>2. CASE nd.sub = 0
  <2>1. new = [old EXCEPT !.offset = HtmlLen, !.len = old.size]
    BY <1>2 DEF Rewritten
  <2>2. new \in ChapterType /\ new.ID = old.ID /\ new.links = old.links /\ new.subs = old.subs
        /\ new.offset = HtmlLen /\ new.len = old.size
    BY <1>1, <2>1 DEF ChapterType
  <2> QED BY <1>2, <2>2
<1>3. CASE nd.sub # 0
  <2>1. nd.sub \in DOMAIN old.subs
    BY <1>1, <1>3
  <2>2. PICK piece \in SubType : piece = old.subs[nd.sub]
    BY <1>1, <2>1, ElementOf
  <2> DEFINE moved == [piece EXCEPT !.offset = HtmlLen, !.len = piece.size]
             subs == [old.subs EXCEPT ![nd.sub] = moved]
  <2>3. moved \in SubType /\ moved.name = piece.name /\ moved.offset = HtmlLen /\ moved.len = piece.size
    BY <1>1 DEF SubType
  <2>4. new = [old EXCEPT !.subs = subs]
    BY <1>3, <2>2 DEF Rewritten
  <2> HIDE DEF moved
  <2>5. subs \in Seq(SubType) /\ Len(subs) = Len(old.subs) /\ DOMAIN subs = DOMAIN old.subs
        /\ subs[nd.sub] = moved /\ \A k \in DOMAIN old.subs : k # nd.sub => subs[k] = old.subs[k]
    BY <1>1, <2>1, <2>3, ReplaceElement
  <2> HIDE DEF subs
  <2>6. new \in ChapterType /\ new.ID = old.ID /\ new.links = old.links /\ new.subs = subs
        /\ new.offset = old.offset /\ new.len = old.len
    BY <1>1, <2>4, <2>5 DEF ChapterType
  <2>7. \A k \in DOMAIN old.subs : subs[k].name = old.subs[k].name
    BY <2>2, <2>3, <2>5
  <2>8. Names(subs) = Names(old.subs)
    BY <2>5, <2>7 DEF Names
  <2> QED BY <1>3, <2>2, <2>3, <2>5, <2>6, <2>8
<1> QED BY <1>2, <1>3

(* generateHTML writes one piece and touches no other. *)
LEMMA GenerateFacts ==
  ASSUME TypeOK, HandlesInv, GenerateHTML, NEW nd, nd = Nodes[next]
  PROVE  /\ arrays' \in Seq(Seq(ChapterType)) /\ DOMAIN arrays' = DOMAIN arrays /\ Len(arrays') = Len(arrays)
         /\ BookLen' = BookLen /\ DOMAIN Book' = DOMAIN Book /\ Len(Book') = Len(Book)
         /\ Nodes' = Nodes /\ Children' = Children
         /\ \A c \in DOMAIN Book : /\ Book'[c].ID = Book[c].ID /\ Book'[c].links = Book[c].links
                                   /\ Names(Book'[c].subs) = Names(Book[c].subs)
         /\ \A a \in DOMAIN arrays : a # live => arrays'[a] = arrays[a]
         /\ nd \in NodeType /\ Piece(nd).size \in Nat
         /\ Piece(nd)'.offset = HtmlLen /\ Piece(nd)'.len = Piece(nd).size
         /\ \A m \in NodeType :
              m.chapter \in 1..BookLen /\ m.sub \in 0..Count(m.chapter) /\ m # nd =>
                Piece(m)'.offset = Piece(m).offset /\ Piece(m)'.len = Piece(m).len
<1>1. next \in 1..Len(Nodes) /\ Nodes \in Seq(NodeType)
      /\ \A i \in 1..Len(Nodes) : Nodes[i].chapter \in 1..BookLen /\ Nodes[i].sub \in 0..Count(Nodes[i].chapter)
  BY NodesFacts DEF TypeOK, GenerateHTML
<1>2. nd \in NodeType /\ nd.chapter \in 1..BookLen /\ nd.sub \in 0..Count(nd.chapter)
  BY <1>1, ElementOf
<1>3. PICK c, new, old : c = nd.chapter /\ new = Rewritten(nd) /\ old = Book[nd.chapter]
  OBVIOUS
<1>4. /\ new \in ChapterType /\ new.ID = old.ID /\ new.links = old.links
      /\ Len(new.subs) = Len(old.subs) /\ DOMAIN new.subs = DOMAIN old.subs
      /\ Names(new.subs) = Names(old.subs)
      /\ IF nd.sub = 0 THEN new.offset = HtmlLen /\ new.len = old.size /\ new.subs = old.subs
         ELSE /\ new.offset = old.offset /\ new.len = old.len
              /\ new.subs[nd.sub].offset = HtmlLen /\ new.subs[nd.sub].len = old.subs[nd.sub].size
              /\ \A k \in DOMAIN old.subs : k # nd.sub => new.subs[k] = old.subs[k]
  <2>1. RewriteOf(nd, old, new)
    BY <1>2, <1>3, RewrittenFacts
  <2> QED BY <2>1 DEF RewriteOf
<1>5. /\ arrays \in Seq(Seq(ChapterType)) /\ live \in DOMAIN arrays
      /\ Book \in Seq(ChapterType) /\ BookLen = Len(Book) /\ DOMAIN Book = 1..BookLen /\ Book = arrays[live]
  BY BookFacts DEF TypeOK, Book, BookLen
<1>6. arrays' = [arrays EXCEPT ![live] = [Book EXCEPT ![c] = new]] /\ live' = live
  <2>1. CASE nd.sub = 0
    <3>1. arrays' = [arrays EXCEPT ![live] = [Book EXCEPT ![c] =
                       [Book[c] EXCEPT !.offset = HtmlLen, !.len = Book[c].size]]] /\ live' = live
      BY <1>3, <2>1 DEF GenerateHTML, Piece, LenWritten, Book
    <3> QED BY <1>3, <2>1, <3>1 DEF Rewritten
  <2>2. CASE nd.sub # 0
    <3>1. PICK piece : piece = old.subs[nd.sub]
      OBVIOUS
    <3>2. Piece(nd) = piece
      BY <1>3, <2>2, <3>1 DEF Piece
    <3>3. PICK moved : moved = [piece EXCEPT !.offset = HtmlLen, !.len = piece.size]
      OBVIOUS
    <3>4. arrays' = [arrays EXCEPT ![live][c].subs[nd.sub] = moved] /\ live' = live
      BY <1>3, <2>2, <3>2, <3>3 DEF GenerateHTML, LenWritten
    <3>5. new = [old EXCEPT !.subs = [old.subs EXCEPT ![nd.sub] = moved]]
      BY <1>3, <2>2, <3>1, <3>3 DEF Rewritten
    <3> QED BY <1>3, <1>5, <3>4, <3>5
  <2> QED BY <2>1, <2>2
<1>7. PICK row : row = [Book EXCEPT ![c] = new]
  OBVIOUS
<1>8. c \in DOMAIN Book
  BY <1>2, <1>3, <1>5
<1>9. row \in Seq(ChapterType) /\ Len(row) = Len(Book) /\ DOMAIN row = DOMAIN Book /\ row[c] = new
      /\ \A k \in DOMAIN Book : k # c => row[k] = Book[k]
  BY <1>4, <1>5, <1>7, <1>8, ReplaceElement
<1>10. arrays' \in Seq(Seq(ChapterType)) /\ DOMAIN arrays' = DOMAIN arrays /\ Len(arrays') = Len(arrays)
       /\ arrays'[live] = row /\ \A a \in DOMAIN arrays : a # live => arrays'[a] = arrays[a]
  BY <1>5, <1>6, <1>7, <1>9, ReplaceElement
<1>11. Book' = row
  BY <1>6, <1>10 DEF Book
<1>12. ASSUME NEW k \in DOMAIN Book
       PROVE  /\ Book'[k].ID = Book[k].ID /\ Book'[k].links = Book[k].links
              /\ Names(Book'[k].subs) = Names(Book[k].subs) /\ Len(Book'[k].subs) = Len(Book[k].subs)
  <2>1. CASE k = c
    BY <1>3, <1>4, <1>9, <1>11, <2>1
  <2>2. CASE k # c
    BY <1>9, <1>11, <2>2
  <2> QED BY <2>1, <2>2
<1>13. BookLen' = BookLen /\ DOMAIN Book' = 1..BookLen /\ Len(Book') = Len(Book)
  BY <1>5, <1>9, <1>11 DEF BookLen
<1>14. Nodes' = Nodes /\ Children' = Children
  BY <1>5, <1>12, <1>13, SameShape
<1>15. Piece(nd).size \in Nat
  <2>1. old \in ChapterType /\ old.subs \in Seq(SubType) /\ old.size \in Nat /\ DOMAIN old.subs = 1..Count(c)
    BY <1>2, <1>3, BookFacts
  <2>2. CASE nd.sub = 0
    BY <1>3, <2>1, <2>2 DEF Piece
  <2>3. CASE nd.sub # 0
    <3>1. nd.sub \in DOMAIN old.subs
      BY <1>2, <1>3, <2>1, <2>3
    <3>2. old.subs[nd.sub] \in SubType
      BY <2>1, <3>1, ElementOf
    <3> QED BY <1>3, <2>3, <3>2 DEF Piece, SubType
  <2> QED BY <2>2, <2>3
<1>16. Piece(nd)'.offset = HtmlLen /\ Piece(nd)'.len = Piece(nd).size
  <2>1. Piece(nd)' = IF nd.sub = 0 THEN new ELSE new.subs[nd.sub]
    BY <1>3, <1>9, <1>11 DEF Piece
  <2>2. Piece(nd) = IF nd.sub = 0 THEN old ELSE old.subs[nd.sub]
    BY <1>3 DEF Piece
  <2> QED BY <1>4, <2>1, <2>2
<1>17. ASSUME NEW m \in NodeType, m.chapter \in 1..BookLen, m.sub \in 0..Count(m.chapter), m # nd
       PROVE  Piece(m)'.offset = Piece(m).offset /\ Piece(m)'.len = Piece(m).len
  <2>1. Piece(m)' = IF m.sub = 0 THEN row[m.chapter] ELSE row[m.chapter].subs[m.sub]
    BY <1>11 DEF Piece
  <2>2. Piece(m) = IF m.sub = 0 THEN Book[m.chapter] ELSE Book[m.chapter].subs[m.sub]
    BY DEF Piece
  <2>3. CASE m.chapter # c
    BY <1>5, <1>9, <1>17, <2>1, <2>2, <2>3
  <2>4. CASE m.chapter = c
    <3>1. m.sub # nd.sub
      BY <1>2, <1>3, <1>17, <2>4 DEF NodeType
    <3>2. CASE m.sub = 0
      BY <1>3, <1>4, <1>9, <2>1, <2>2, <2>4, <3>1, <3>2, SMTT(60)
    <3>3. CASE m.sub # 0
      <4>1. m.sub \in DOMAIN old.subs
        BY <1>2, <1>3, <1>17, <2>4, <3>3, BookFacts
      <4>2. new.subs[m.sub] = old.subs[m.sub]
        BY <1>4, <3>1, <4>1
      <4> QED BY <1>3, <1>9, <2>1, <2>2, <2>4, <3>3, <4>2
    <3> QED BY <3>2, <3>3
  <2> QED BY <2>3, <2>4
<1> QED BY <1>2, <1>5, <1>10, <1>12, <1>13, <1>14, <1>15, <1>16, <1>17
(* The names that handles have added are not touched. *)
LEMMA GenerateHandles ==
  ASSUME TypeOK, HandlesInv, GenerateHTML
  PROVE  HandlesInv'
<1>0. PICK nd : nd = Nodes[next]
  OBVIOUS
<1>1. /\ DOMAIN arrays' = DOMAIN arrays /\ Len(arrays') = Len(arrays)
      /\ DOMAIN Book' = DOMAIN Book /\ Len(Book') = Len(Book)
      /\ \A c \in DOMAIN Book : Names(Book'[c].subs) = Names(Book[c].subs)
      /\ \A a \in DOMAIN arrays : a # live => arrays'[a] = arrays[a]
  BY <1>0, GenerateFacts
<1>2. live' = live /\ cap' = cap /\ handles' = handles
  BY DEF GenerateHTML
<1>3. Book = arrays[live] /\ Book' = arrays'[live]
  BY <1>2 DEF Book
<1>4. ASSUME NEW k \in DOMAIN handles', NEW h, h = handles'[k]
      PROVE  h.array \in DOMAIN arrays' /\ Attached(h)'
  <2>1. h.array \in DOMAIN arrays /\ Attached(h)
    BY <1>2, <1>4, HandlesAre
  <2>2. h.index \in DOMAIN Book /\ h.index \in DOMAIN arrays[h.array]
    BY <2>1 DEF Attached
  <2>3. Names(Book'[h.index].subs) = Names(Book[h.index].subs)
    BY <1>1, <2>2
  <2>4. h.index \in DOMAIN arrays'[h.array]
        /\ Names(arrays'[h.array][h.index].subs) = Names(arrays[h.array][h.index].subs)
    <3>1. CASE h.array = live
      BY <1>1, <1>3, <2>2, <2>3, <3>1
    <3>2. CASE h.array # live
      BY <1>1, <2>1, <2>2, <3>2
    <3> QED BY <3>1, <3>2
  <2>5. /\ Names(arrays[h.array][h.index].subs) = h.added
        /\ IsPrefix(Names(Book[h.index].subs), h.added)
        /\ h.array = live => Names(Book[h.index].subs) = h.added
    BY <2>1 DEF Attached
  <2> QED BY <1>1, <1>2, <2>1, <2>2, <2>3, <2>4, <2>5, AttachedNext
<1>5. HandlesAttached'
  BY <1>4 DEF HandlesAttached, Attached
<1>6. live' = Len(arrays') /\ Len(Book') <= cap'
      /\ \A j, k \in DOMAIN handles' : j < k => handles'[j].index < handles'[k].index
  BY <1>1, <1>2 DEF HandlesInv
<1> QED BY <1>4, <1>5, <1>6 DEF HandlesInv

-----------------------------------------------------------------------------
(* The steps preserve the invariant.                                       *)

(* The finished index is not touched by the calls between two WriteTo. *)
LEMMA IndexKept ==
  ASSUME IndInv, UNCHANGED <<pc, entries, html, writes>>
  PROVE  RangesTile' /\ TreeConsistent' /\ LabelsAreNumbers'
BY DEF IndInv, RangesTile, TreeConsistent, LabelsAreNumbers, Indexed, ToSet

(* Nor is anything said of it while one runs. *)
LEMMA IndexUnfinished ==
  ASSUME pc' # "calls"
  PROVE  RangesTile' /\ TreeConsistent' /\ LabelsAreNumbers'
BY DEF RangesTile, TreeConsistent, LabelsAreNumbers, Indexed

(* The invariant holds before the first call. *)
LEMMA InitInd ==
  ASSUME Init
  PROVE  IndInv
<1>1. Book = <<>> /\ BookLen = 0 /\ DOMAIN Book = {}
  BY DEF Init, Book, BookLen
<1>2. TypeOK
  <2>1. arrays \in Seq(Seq(ChapterType)) /\ live \in DOMAIN arrays
    BY DEF Init
  <2> QED BY <2>1, BoundsAssumption DEF Init, TypeOK
<1>3. HandlesInv
  BY <1>1 DEF Init, HandlesInv, HandlesAttached
<1>4. Len(Nodes) \in Nat
  BY <1>2, NodesFacts
<1>5. IdsInv
  BY <1>1, <1>4 DEF Init, IdsInv, IdsUnique
<1>6. LinksInv
  BY <1>1 DEF LinksInv
<1>7. HtmlInv /\ EntriesInv
  BY DEF Init, HtmlInv, EntriesInv
<1>8. RangesTile /\ TreeConsistent /\ LabelsAreNumbers
  BY DEF Init, RangesTile, TreeConsistent, LabelsAreNumbers, Indexed
<1> QED BY <1>2, <1>3, <1>5, <1>6, <1>7, <1>8 DEF IndInv

(* A chapter more: its number is greater than all before it, and the links *)
(* of the others, and its own, stay right.                                 *)
LEMMA AppendIdsLinks ==
  ASSUME IndInv, pc = "calls", NEW ch \in ChapterType, AppendChapter(ch),
         ch.subs = <<>>, ch.ID = chapterCount, chapterCount' = chapterCount + 1,
         \A k \in DOMAIN ch.links : k \in DOMAIN Book /\ ch.links[k] = Book[k].ID,
         pc' \in {"calls", "html"}
  PROVE  IdsInv' /\ LinksInv'
<1>1. Book' = Append(Book, ch) /\ Len(Nodes') = Len(Nodes) + 1 /\ Len(Nodes) \in Nat
  BY AppendFacts DEF IndInv
<1>2. Book \in Seq(ChapterType) /\ BookLen \in Nat /\ BookLen = Len(Book) /\ DOMAIN Book = 1..BookLen
      /\ chapterCount \in Nat
  BY BookFacts DEF BookLen, IndInv, TypeOK
<1>3. DOMAIN Book' = 1..(BookLen + 1) /\ Book'[BookLen + 1] = ch
      /\ \A c \in 1..BookLen : Book'[c] = Book[c]
  BY <1>1, <1>2
<1>4. /\ \A c \in 1..BookLen : Book[c].ID \in Nat /\ Book[c].ID < chapterCount
      /\ chapterCount <= Len(Nodes)
      /\ \A j, k \in 1..BookLen : j < k => Book[j].ID < Book[k].ID
  BY <1>2, BookFacts DEF IndInv, IdsInv, IdsUnique
<1>5. \A c \in DOMAIN Book' : Book'[c].ID < chapterCount'
  <2> TAKE c \in DOMAIN Book'
  <2>1. CASE c \in 1..BookLen
    BY <1>2, <1>3, <1>4, <2>1
  <2>2. CASE c = BookLen + 1
    BY <1>2, <1>3, <2>2
  <2> QED BY <1>2, <1>3, <2>1, <2>2
<1>6. \A c \in DOMAIN Book' : Book'[c].ID \in Nat
  <2> TAKE c \in DOMAIN Book'
  <2>1. CASE c \in 1..BookLen
    BY <1>3, <1>4, <2>1
  <2>2. CASE c = BookLen + 1
    BY <1>2, <1>3, <2>2
  <2> QED BY <1>2, <1>3, <2>1, <2>2
<1>7. IdsUnique'
  <2> SUFFICES ASSUME NEW j \in DOMAIN Book', NEW k \in DOMAIN Book', j < k
               PROVE  Book'[j].ID < Book'[k].ID
    BY DEF IdsUnique
  <2>1. CASE k \in 1..BookLen
    <3>1. j \in 1..BookLen
      BY <1>2, <1>3, <2>1
    <3> QED BY <1>3, <1>4, <2>1, <3>1
  <2>2. CASE k = BookLen + 1
    <3>1. j \in 1..BookLen
      BY <1>2, <1>3, <2>2
    <3> QED BY <1>3, <1>4, <2>2, <3>1
  <2> QED BY <1>2, <1>3, <2>1, <2>2
<1>8. IdsInv'
  <2>1. chapterCount' <= Len(Nodes') /\ chapterCount' \in Nat /\ Len(Nodes') \in Nat
    BY <1>1, <1>2, <1>4
  <2>2. \A c \in DOMAIN Book' : Book'[c].ID < Len(Nodes')
    BY <1>5, <1>6, <2>1
  <2> QED BY <1>5, <1>7, <2>1, <2>2 DEF IdsInv
<1>9. LinksInv'
  <2> SUFFICES ASSUME NEW c \in DOMAIN Book', NEW k \in DOMAIN Book'[c].links
               PROVE  k \in DOMAIN Book' /\ Book'[c].links[k] = Book'[k].ID
    BY DEF LinksInv
  <2>1. k \in DOMAIN Book /\ Book'[c].links[k] = Book[k].ID
    <3>1. CASE c \in 1..BookLen
      BY <1>2, <1>3, <3>1 DEF IndInv, LinksInv
    <3>2. CASE c = BookLen + 1
      BY <1>3, <3>2
    <3> QED BY <1>2, <1>3, <3>1, <3>2
  <2> QED BY <1>2, <1>3, <2>1
<1> QED BY <1>8, <1>9

(* NewChapter. *)
LEMMA NewChapterInd ==
  ASSUME IndInv, NEW size \in Sizes, NewChapter(size)
  PROVE  IndInv'
<1> DEFINE ch == Chapter(chapterCount, size, <<>>)
<1>1. TypeOK /\ HandlesInv
  BY DEF IndInv
<1>2. ch \in ChapterType /\ ch.subs = <<>> /\ ch.ID = chapterCount /\ ch.links = <<>>
  BY <1>1, SizesAssumption DEF TypeOK, Chapter, ChapterType
<1>3. AppendChapter(ch) /\ chapterCount' = chapterCount + 1 /\ pc = "calls" /\ pc' = "calls"
      /\ UNCHANGED <<pc, next, id, html, entries, subCalls, writes>>
      /\ handles' = Append(handles, [array |-> live', index |-> BookLen + 1, added |-> <<>>])
  BY DEF NewChapter, NewHandle, BookLen
<1> HIDE DEF ch
<1>4. TypeOK'
  <2>1. arrays' \in Seq(Seq(ChapterType)) /\ live' \in DOMAIN arrays' /\ cap' \in Nat
    BY <1>1, <1>2, <1>3, AppendFacts
  <2>2. live' \in Nat \ {0}
    BY <2>1
  <2>3. [array |-> live', index |-> BookLen + 1, added |-> <<>>]
          \in [array : Nat \ {0}, index : Nat \ {0}, added : Seq(Nat)]
    BY <1>1, <2>2, BookFacts
  <2>4. handles' \in Seq([array : Nat \ {0}, index : Nat \ {0}, added : Seq(Nat)])
    BY <1>1, <1>3, <2>3 DEF TypeOK
  <2> QED BY <1>1, <1>3, <2>1, <2>4 DEF TypeOK
<1>5. HandlesInv'
  BY <1>1, NewChapterHandles
<1>6. IdsInv' /\ LinksInv'
  BY <1>2, <1>3, AppendIdsLinks
<1>7. HtmlInv' /\ EntriesInv'
  BY <1>3 DEF HtmlInv, EntriesInv
<1> QED BY <1>3, <1>4, <1>5, <1>6, <1>7, IndexKept DEF IndInv

(* AddSubChapter. *)
LEMMA AddSubChapterInd ==
  ASSUME IndInv, NEW h \in DOMAIN handles, NEW size \in Sizes, AddSubChapter(h, size)
  PROVE  IndInv'
<1>1. TypeOK /\ HandlesInv
  BY DEF IndInv
<1>2. /\ arrays' \in Seq(Seq(ChapterType)) /\ live' \in DOMAIN arrays'
      /\ handles' \in Seq([array : Nat \ {0}, index : Nat \ {0}, added : Seq(Nat)])
      /\ DOMAIN Book' = DOMAIN Book
      /\ \A c \in DOMAIN Book : Book'[c].ID = Book[c].ID /\ Book'[c].links = Book[c].links
      /\ Len(Nodes) <= Len(Nodes') /\ Len(Nodes) \in Nat /\ Len(Nodes') \in Nat
  BY <1>1, AddSubBook
<1>3. /\ pc = "calls" /\ subCalls < MaxSubs /\ subCalls' = subCalls + 1
      /\ UNCHANGED <<live, cap, chapterCount, pc, next, id, html, entries, writes>>
  BY DEF AddSubChapter
<1>4. TypeOK'
  BY <1>1, <1>2, <1>3, BoundsAssumption DEF TypeOK
<1>5. HandlesInv'
  BY <1>1, AddSubHandles
<1>6. IdsInv'
  <2>1. \A c \in DOMAIN Book : Book[c].ID \in Nat /\ Book[c].ID < Len(Nodes) /\ Book[c].ID < chapterCount
    BY <1>1, <1>3, BookFacts DEF IndInv, IdsInv
  <2>2. IdsUnique'
    BY <1>2 DEF IndInv, IdsInv, IdsUnique
  <2>3. ASSUME NEW c \in DOMAIN Book' PROVE Book'[c].ID < Len(Nodes') /\ Book'[c].ID < chapterCount'
    <3>1. Book'[c].ID = Book[c].ID /\ Book[c].ID \in Nat /\ Book[c].ID < Len(Nodes) /\ Book[c].ID < chapterCount
      BY <1>2, <2>1
    <3> QED BY <1>2, <1>3, <3>1
  <2>4. chapterCount' <= Len(Nodes')
    <3>1. chapterCount \in Nat /\ chapterCount <= Len(Nodes)
      BY <1>1, <1>3 DEF TypeOK, IndInv, IdsInv
    <3> QED BY <1>2, <1>3, <3>1
  <2> QED BY <1>3, <2>2, <2>3, <2>4 DEF IdsInv
<1>7. LinksInv'
  <2>1. ASSUME NEW c \in DOMAIN Book', NEW k \in DOMAIN Book'[c].links
        PROVE  k \in DOMAIN Book' /\ Book'[c].links[k] = Book'[k].ID
    <3>1. c \in DOMAIN Book /\ Book'[c].links = Book[c].links
      BY <1>2
    <3>2. k \in DOMAIN Book /\ Book[c].links[k] = Book[k].ID
      BY <3>1 DEF IndInv, LinksInv
    <3> QED BY <1>2, <3>1, <3>2
  <2> QED BY <2>1 DEF LinksInv
<1>8. HtmlInv' /\ EntriesInv'
  BY <1>3 DEF HtmlInv, EntriesInv
<1> QED BY <1>3, <1>4, <1>5, <1>6, <1>7, <1>8, IndexKept DEF IndInv

(* createTOCChapter. *)
LEMMA CreateTOCChapterInd ==
  ASSUME IndInv, CreateTOCChapter
  PROVE  IndInv'
<1> DEFINE ch == Chapter(chapterCount, 1 + LinkLen * Len(TOCLinks), TOCLinks)
<1>1. TypeOK /\ HandlesInv
  BY DEF IndInv
<1>2. /\ TOCLinks \in Seq(Nat)
      /\ \A k \in DOMAIN TOCLinks : k \in DOMAIN Book /\ TOCLinks[k] = Book[k].ID
  <2>1. BookLen \in Nat /\ DOMAIN Book = 1..BookLen /\ \A c \in 1..BookLen : Book[c].ID \in Nat
    BY <1>1, BookFacts
  <2>2. CASE chapterCount > 0
    <3>1. TOCLinks = [k \in 1..BookLen |-> Book[k].ID]
      BY <2>1, <2>2 DEF TOCLinks
    <3> QED BY <2>1, <3>1
  <2>3. CASE ~(chapterCount > 0)
    BY <2>3 DEF TOCLinks
  <2> QED BY <2>2, <2>3
<1>3. ch \in ChapterType /\ ch.subs = <<>> /\ ch.ID = chapterCount /\ ch.links = TOCLinks
  <2>1. Len(TOCLinks) \in Nat /\ LinkLen \in Nat /\ chapterCount \in Nat
    BY <1>1, <1>2, SizesAssumption DEF TypeOK
  <2>2. 1 + LinkLen * Len(TOCLinks) \in Nat
    BY <2>1
  <2> HIDE DEF TOCLinks
  <2> QED BY <1>2, <2>1, <2>2 DEF Chapter, ChapterType
<1>4. /\ AppendChapter(ch) /\ chapterCount' = chapterCount + 1 /\ pc = "calls" /\ pc' = "html"
      /\ html' = <<>> /\ next' = 1 /\ writes < MaxWrites
      /\ UNCHANGED <<handles, id, entries, subCalls, writes>>
  BY DEF CreateTOCChapter
<1> HIDE DEF ch
<1>5. TypeOK' /\ Len(Nodes') \in Nat
  <2>1. arrays' \in Seq(Seq(ChapterType)) /\ live' \in DOMAIN arrays' /\ cap' \in Nat
        /\ Len(Nodes') = Len(Nodes) + 1 /\ Len(Nodes) \in Nat
    BY <1>1, <1>3, <1>4, AppendFacts
  <2> QED BY <1>1, <1>4, <2>1 DEF TypeOK
<1>6. HandlesInv'
  BY <1>1, <1>3, <1>4, CreateTOCHandles
<1>7. IdsInv' /\ LinksInv'
  <2>1. \A k \in DOMAIN ch.links : k \in DOMAIN Book /\ ch.links[k] = Book[k].ID
    BY <1>2, <1>3
  <2>2. pc' \in {"calls", "html"}
    BY <1>4
  <2> QED BY <1>3, <1>4, <2>1, <2>2, AppendIdsLinks
<1>8. HtmlInv'
  BY <1>4, <1>5 DEF HtmlInv
<1>9. EntriesInv'
  BY <1>4 DEF EntriesInv
<1>10. RangesTile' /\ TreeConsistent' /\ LabelsAreNumbers'
  BY <1>4, IndexUnfinished
<1> QED BY <1>5, <1>6, <1>7, <1>8, <1>9, <1>10 DEF IndInv

(* generateHTML. *)
LEMMA GenerateHTMLInd ==
  ASSUME IndInv, GenerateHTML
  PROVE  IndInv'
<1>0. PICK nd : nd = Nodes[next]
  OBVIOUS
<1>1. TypeOK /\ HandlesInv
  BY DEF IndInv
<1>2. /\ arrays' \in Seq(Seq(ChapterType)) /\ DOMAIN arrays' = DOMAIN arrays
      /\ BookLen' = BookLen /\ DOMAIN Book' = DOMAIN Book
      /\ Nodes' = Nodes
      /\ \A c \in DOMAIN Book : Book'[c].ID = Book[c].ID /\ Book'[c].links = Book[c].links
      /\ nd \in NodeType /\ Piece(nd).size \in Nat
      /\ Piece(nd)'.offset = HtmlLen /\ Piece(nd)'.len = Piece(nd).size
      /\ \A m \in NodeType :
           m.chapter \in 1..BookLen /\ m.sub \in 0..Count(m.chapter) /\ m # nd =>
             Piece(m)'.offset = Piece(m).offset /\ Piece(m)'.len = Piece(m).len
  BY <1>0, <1>1, GenerateFacts
<1>3. /\ pc = "html" /\ pc' = "html" /\ next <= Len(Nodes) /\ next' = next + 1
      /\ UNCHANGED <<live, cap, chapterCount, handles, pc, id, entries, subCalls, writes>>
      /\ html' = Append(html, [node |-> nd, start |-> HtmlLen, len |-> Piece(nd).size])
  BY <1>0 DEF GenerateHTML
<1>4. HtmlLen \in Nat /\ next \in Nat \ {0} /\ html \in Seq([node : NodeType, start : Nat, len : Nat])
  BY <1>1, HtmlLenFacts DEF TypeOK
<1>5. PICK e \in [node : NodeType, start : Nat, len : Nat] :
        e = [node |-> nd, start |-> HtmlLen, len |-> Piece(nd).size]
  BY <1>2, <1>4
<1>6. html' \in Seq([node : NodeType, start : Nat, len : Nat]) /\ Len(html') = Len(html) + 1
      /\ html'[Len(html) + 1] = e /\ \A k \in 1..Len(html) : html'[k] = html[k]
  BY <1>3, <1>4, <1>5
<1>7. TypeOK'
  BY <1>1, <1>2, <1>3, <1>4, <1>6 DEF TypeOK
<1>8. HandlesInv'
  BY <1>1, GenerateHandles
<1>9. IdsInv' /\ LinksInv'
  <2>1. /\ IdsUnique /\ LinksInv /\ chapterCount <= Len(Nodes)
        /\ \A c \in DOMAIN Book : Book[c].ID < Len(Nodes) /\ Book[c].ID < chapterCount
    BY <1>3 DEF IndInv, IdsInv
  <2>2. IdsUnique'
    BY <1>2, <2>1 DEF IdsUnique
  <2>3. \A c \in DOMAIN Book' : Book'[c].ID < Len(Nodes') /\ Book'[c].ID < chapterCount'
    BY <1>2, <1>3, <2>1
  <2>4. chapterCount' <= Len(Nodes')
    BY <1>2, <1>3, <2>1
  <2>5. LinksInv'
    BY <1>2, <2>1 DEF LinksInv
  <2> QED BY <1>3, <2>2, <2>3, <2>4, <2>5 DEF IdsInv
<1>10. HtmlInv'
  <2>1. /\ next = Len(html) + 1
        /\ \A k \in DOMAIN html :
             /\ html[k].node = Nodes[k]
             /\ html[k].start = IF k = 1 THEN HeadLen ELSE html[k - 1].start + html[k - 1].len
             /\ Piece(Nodes[k]).offset = html[k].start /\ Piece(Nodes[k]).len = html[k].len
    BY <1>3 DEF IndInv, HtmlInv
  <2>2. /\ Nodes \in Seq(NodeType) /\ Len(Nodes) \in Nat
        /\ \A i \in 1..Len(Nodes) : Nodes[i].chapter \in 1..BookLen /\ Nodes[i].sub \in 0..Count(Nodes[i].chapter)
        /\ \A i, j \in 1..Len(Nodes) : Nodes[i] = Nodes[j] => i = j
    BY <1>1, NodesFacts
  <2>3. Len(html) \in Nat /\ DOMAIN html = 1..Len(html) /\ DOMAIN html' = 1..(Len(html) + 1)
    BY <1>4, <1>6
  <2>4. ASSUME NEW k \in DOMAIN html', NEW m, m = Nodes[k]
        PROVE  /\ html'[k].node = m
               /\ html'[k].start = IF k = 1 THEN HeadLen ELSE html'[k - 1].start + html'[k - 1].len
               /\ Piece(m)'.offset = html'[k].start /\ Piece(m)'.len = html'[k].len
    <3>1. CASE k \in DOMAIN html
      <4>1. k \in 1..Len(Nodes) /\ next \in 1..Len(Nodes) /\ k # next
        BY <1>3, <1>4, <2>1, <2>2, <2>3, <3>1
      <4>2. m # nd /\ m \in NodeType
        BY <1>0, <2>2, <2>4, <4>1, ElementOf
      <4>3. Piece(m)'.offset = Piece(m).offset /\ Piece(m)'.len = Piece(m).len
        BY <1>2, <2>2, <2>4, <4>1, <4>2
      <4>4. html'[k] = html[k] /\ (k # 1 => html'[k - 1] = html[k - 1])
        BY SMTT(30), <1>6, <2>3, <3>1
      <4>5. Piece(m).offset = html[k].start /\ Piece(m).len = html[k].len /\ html[k].node = m
        BY <2>1, <2>4, <3>1
      <4> QED BY <2>1, <3>1, <4>3, <4>4, <4>5
    <3>2. CASE k = Len(html) + 1
      <4>1. html'[k] = e /\ m = nd
        BY <1>0, <1>6, <2>1, <2>4, <3>2
      <4>2. Piece(m)'.offset = html'[k].start /\ Piece(m)'.len = html'[k].len /\ html'[k].node = m
        BY <1>2, <1>5, <4>1
      <4>3. HtmlLen = IF k = 1 THEN HeadLen ELSE html'[k - 1].start + html'[k - 1].len
        <5>1. HtmlLen = IF Len(html) = 0 THEN HeadLen ELSE html[Len(html)].start + html[Len(html)].len
          BY <1>1, HtmlLenFacts
        <5>2. Len(html) # 0 => html'[k - 1] = html[Len(html)]
          BY <1>6, <2>3, <3>2
        <5> QED BY <2>3, <3>2, <5>1, <5>2
      <4> QED BY <1>5, <4>1, <4>2, <4>3
    <3> QED BY <2>3, <3>1, <3>2
  <2>5. next' = Len(html') + 1 /\ next' <= Len(Nodes') + 1
    BY <1>2, <1>3, <1>4, <1>6, <2>1, <2>2
  <2>6. \A k \in DOMAIN html' :
             /\ html'[k].node = Nodes'[k]
             /\ html'[k].start = IF k = 1 THEN HeadLen ELSE html'[k - 1].start + html'[k - 1].len
             /\ Piece(Nodes[k])'.offset = html'[k].start /\ Piece(Nodes[k])'.len = html'[k].len
    <3> TAKE k \in DOMAIN html'
    <3>1. PICK m : m = Nodes[k]
      OBVIOUS
    <3>2. Nodes'[k] = m
      BY <1>2, <3>1
    <3>3. Piece(Nodes[k])' = Piece(m)'
      BY <3>2 DEF Piece
    <3> QED BY <2>4, <3>1, <3>2, <3>3
  <2> QED BY <1>3, <2>5, <2>6 DEF HtmlInv
<1>11. EntriesInv'
  BY <1>3 DEF EntriesInv
<1>12. RangesTile' /\ TreeConsistent' /\ LabelsAreNumbers'
  BY <1>3, IndexUnfinished
<1> QED BY <1>7, <1>8, <1>9, <1>10, <1>11, <1>12 DEF IndInv
(* Steps that make the index leave the chapters as they are. *)
LEMMA SameBookInd ==
  ASSUME IndInv, UNCHANGED bookVars
  PROVE  /\ arrays' \in Seq(Seq(ChapterType)) /\ live' \in DOMAIN arrays' /\ cap' \in Nat
         /\ handles' \in Seq([array : Nat \ {0}, index : Nat \ {0}, added : Seq(Nat)])
         /\ subCalls' \in 0..MaxSubs
         /\ HandlesInv' /\ LinksInv' /\ IdsUnique'
         /\ \A c \in DOMAIN Book' : Book'[c].ID < Len(Nodes')
<1>1. Book' = Book /\ Nodes' = Nodes
  BY SameChapters DEF bookVars
<1>2. /\ arrays' = arrays /\ live' = live /\ cap' = cap /\ handles' = handles /\ subCalls' = subCalls
      /\ TypeOK /\ HandlesInv /\ LinksInv /\ IdsUnique
      /\ \A c \in DOMAIN Book : Book[c].ID < Len(Nodes)
  BY DEF bookVars, IndInv, IdsInv
<1>3. /\ arrays' \in Seq(Seq(ChapterType)) /\ live' \in DOMAIN arrays' /\ cap' \in Nat
      /\ handles' \in Seq([array : Nat \ {0}, index : Nat \ {0}, added : Seq(Nat)])
      /\ subCalls' \in 0..MaxSubs
  BY <1>2 DEF TypeOK
<1>4. HandlesInv'
  <2>1. HandlesAttached'
    BY ZenonT(40), <1>1, <1>2 DEF HandlesInv, HandlesAttached, Names
  <2> QED BY <1>1, <1>2, <2>1 DEF HandlesInv
<1>5. LinksInv' /\ IdsUnique'
  BY <1>1, <1>2 DEF LinksInv, IdsUnique
<1>6. \A c \in DOMAIN Book' : Book'[c].ID < Len(Nodes')
  BY <1>1, <1>2
<1> QED BY <1>3, <1>4, <1>5, <1>6

(* The HTML that was written stays where the chapters say it is. *)
LEMMA SamePieces ==
  ASSUME IndInv, UNCHANGED <<arrays, live, html>>, pc # "calls"
  PROVE  \A k \in DOMAIN html' :
           /\ html'[k].node = Nodes'[k]
           /\ html'[k].start = IF k = 1 THEN HeadLen ELSE html'[k - 1].start + html'[k - 1].len
           /\ Piece(Nodes[k])'.offset = html'[k].start /\ Piece(Nodes[k])'.len = html'[k].len
<1>1. Book' = Book /\ Nodes' = Nodes /\ \A m : Piece(m)' = Piece(m)
  BY SameChapters
<1>2. \A k \in DOMAIN html :
         /\ html[k].node = Nodes[k]
         /\ html[k].start = IF k = 1 THEN HeadLen ELSE html[k - 1].start + html[k - 1].len
         /\ Piece(Nodes[k]).offset = html[k].start /\ Piece(Nodes[k]).len = html[k].len
  BY DEF IndInv, HtmlInv
<1>3. \A k \in DOMAIN html' : Piece(Nodes[k])' = Piece(Nodes[k])
  <2> TAKE k \in DOMAIN html'
  <2>1. PICK m : m = Nodes[k]
    OBVIOUS
  <2>2. Piece(Nodes[k])' = Piece(m)'
    BY <1>1, <2>1 DEF Piece
  <2> QED BY <1>1, <2>1, <2>2
<1> QED BY <1>1, <1>2, <1>3

(* All of it was written. *)
LEMMA SameHtml ==
  ASSUME IndInv, UNCHANGED <<arrays, live, html>>, pc # "calls", Len(html) = Len(Nodes),
         pc' \in {"headers", "children"}
  PROVE  HtmlInv'
<1>1. Nodes' = Nodes
  BY SameChapters
<1> QED BY <1>1, SamePieces DEF HtmlInv

(* And the entries that were made stay those of the first pieces. *)
LEMMA SameEntries ==
  ASSUME IndInv, UNCHANGED <<arrays, live, entries>>, pc \in {"headers", "children"}
  PROVE  \A k \in DOMAIN entries' :
           IF k <= Len(Book') THEN EntryOfChapter(entries[k], k)' ELSE EntryOfChild(entries[k], k - Len(Book))'
<1>1. /\ Book' = Book /\ Children' = Children
      /\ \A e : \A c : EntryOfChapter(e, c)' = EntryOfChapter(e, c)
      /\ \A e : \A k : EntryOfChild(e, k)' = EntryOfChild(e, k)
  BY SameChapters
<1>2. \A k \in DOMAIN entries : IF k <= Len(Book) THEN EntryOfChapter(entries[k], k)
                                ELSE EntryOfChild(entries[k], k - Len(Book))
  BY DEF IndInv, EntriesInv
<1> TAKE k \in DOMAIN entries'
<1>3. PICK f, j : f = entries[k] /\ j = k - Len(Book)
  OBVIOUS
<1>4. IF k <= Len(Book') THEN EntryOfChapter(f, k)' ELSE EntryOfChild(f, j)'
  BY <1>1, <1>2, <1>3
<1>5. EntryOfChapter(entries[k], k)' <=> EntryOfChapter(f, k)'
  BY <1>3 DEF EntryOfChapter
<1>6. EntryOfChild(entries[k], k - Len(Book))' <=> EntryOfChild(f, j)'
  BY <1>1, <1>3 DEF EntryOfChild
<1> QED BY <1>4, <1>5, <1>6

(* generateCNCX starts. *)
LEMMA StartCNCXInd ==
  ASSUME IndInv, StartCNCX
  PROVE  IndInv'
<1>1. /\ TypeOK /\ pc = "html" /\ next > Len(Nodes) /\ pc' = "headers" /\ next' = 1
      /\ entries' = <<>> /\ chapterCount' = 0 /\ id' = Len(Book)
      /\ UNCHANGED <<bookVars, html, writes>>
  BY DEF StartCNCX, IndInv
<1>2. /\ arrays' \in Seq(Seq(ChapterType)) /\ live' \in DOMAIN arrays' /\ cap' \in Nat
      /\ handles' \in Seq([array : Nat \ {0}, index : Nat \ {0}, added : Seq(Nat)])
      /\ subCalls' \in 0..MaxSubs
      /\ HandlesInv' /\ LinksInv' /\ IdsUnique'
      /\ \A c \in DOMAIN Book' : Book'[c].ID < Len(Nodes')
  BY <1>1, SameBookInd
<1>3. BookLen \in Nat /\ BookLen = Len(Book) /\ Len(Nodes) \in Nat /\ next \in Nat /\ Len(html) \in Nat
      /\ ChildrenBefore(1) = 0
  BY <1>1, BookFacts, NodesFacts, HtmlLenFacts, ChildrenFacts DEF BookLen, TypeOK
<1>4. TypeOK'
  BY <1>1, <1>2, <1>3 DEF TypeOK
<1>5. IdsInv'
  BY <1>1, <1>2 DEF IdsInv
<1>6. HtmlInv'
  <2>1. Len(html) = Len(Nodes)
    BY <1>1, <1>3 DEF IndInv, HtmlInv
  <2> QED BY <1>1, <2>1, SameHtml DEF bookVars
<1>7. EntriesInv'
  <2>1. Book' = Book /\ ChildrenBefore(1)' = 0
    BY <1>1, <1>3, SameChapters DEF bookVars
  <2>2. ChildrenBefore(next)' = 0
    BY <1>1, <2>1 DEF ChildrenBefore
  <2> QED BY <1>1, <1>3, <2>1, <2>2 DEF EntriesInv
<1>8. RangesTile' /\ TreeConsistent' /\ LabelsAreNumbers'
  BY <1>1, IndexUnfinished
<1> QED BY <1>2, <1>4, <1>5, <1>6, <1>7, <1>8 DEF IndInv

(* generateCNCX goes on to the children. *)
LEMMA StartChildrenInd ==
  ASSUME IndInv, StartChildren
  PROVE  IndInv'
<1>1. /\ TypeOK /\ pc = "headers" /\ next > Len(Book) /\ pc' = "children" /\ next' = 1
      /\ id' = Len(Book) /\ UNCHANGED <<bookVars, chapterCount, html, entries, writes>>
  BY DEF StartChildren, IndInv
<1>2. /\ arrays' \in Seq(Seq(ChapterType)) /\ live' \in DOMAIN arrays' /\ cap' \in Nat
      /\ handles' \in Seq([array : Nat \ {0}, index : Nat \ {0}, added : Seq(Nat)])
      /\ subCalls' \in 0..MaxSubs
      /\ HandlesInv' /\ LinksInv' /\ IdsUnique'
      /\ \A c \in DOMAIN Book' : Book'[c].ID < Len(Nodes')
  BY <1>1, SameBookInd
<1>3. /\ BookLen \in Nat /\ BookLen = Len(Book) /\ Len(Children) \in Nat /\ next \in Nat
      /\ entries \in Seq(EntryType) /\ Len(entries) \in Nat /\ DOMAIN entries = 1..Len(entries)
  BY <1>1, BookFacts, ChildrenFacts DEF BookLen, TypeOK
<1>4. TypeOK'
  BY <1>1, <1>2, <1>3 DEF TypeOK
<1>5. IdsInv'
  BY <1>1, <1>2 DEF IdsInv, IndInv
<1>6. HtmlInv'
  <2>1. Len(html) = Len(Nodes)
    BY <1>1 DEF IndInv, HtmlInv
  <2> QED BY <1>1, <2>1, SameHtml DEF bookVars
<1>7. EntriesInv'
  <2>1. Book' = Book /\ Children' = Children
    BY <1>1, SameChapters DEF bookVars
  <2>2. next = Len(entries) + 1 /\ next <= Len(Book) + 1
    BY <1>1 DEF IndInv, EntriesInv
  <2>3. next' = Len(entries') - Len(Book') + 1 /\ next' <= Len(Children') + 1
    BY <1>1, <1>3, <2>1, <2>2
  <2>4. UNCHANGED <<arrays, live, entries>>
    BY <1>1 DEF bookVars
  <2> QED BY <1>1, <2>3, <2>4, SameEntries DEF EntriesInv
<1>8. RangesTile' /\ TreeConsistent' /\ LabelsAreNumbers'
  BY <1>1, IndexUnfinished
<1> QED BY <1>2, <1>4, <1>5, <1>6, <1>7, <1>8 DEF IndInv

(* Nothing happens. *)
LEMMA DoneInd ==
  ASSUME IndInv, UNCHANGED vars
  PROVE  IndInv'
<1> USE DEF vars, bookVars
<1>1. TypeOK'
  BY DEF IndInv, TypeOK
<1>2. HandlesInv' /\ LinksInv' /\ IdsInv'
  <2>1. HandlesInv'
    BY SMTT(60) DEF IndInv, HandlesInv, HandlesAttached, Book, Names
  <2>2. LinksInv'
    BY DEF IndInv, LinksInv, Book
  <2>3. IdsInv'
    BY DEF IndInv, IdsInv, IdsUnique, Book, Nodes, NodesOf
  <2> QED BY <2>1, <2>2, <2>3
<1>3. /\ Book' = Book /\ Nodes' = Nodes /\ Children' = Children
      /\ ChildrenBefore(next)' = ChildrenBefore(next)
  <2>1. \A c : NodesOf(c)' = NodesOf(c) /\ ChildrenOf(c)' = ChildrenOf(c)
    BY DEF NodesOf, ChildrenOf, Book
  <2> QED BY <2>1 DEF Book, Nodes, Children, ChildrenBefore
<1>4. HtmlInv' /\ EntriesInv'
  <2>1. HtmlInv'
    BY <1>3, SamePieces DEF IndInv, HtmlInv
  <2>2. EntriesInv'
    BY <1>3, SameEntries DEF IndInv, EntriesInv
  <2> QED BY <2>1, <2>2
<1>5. RangesTile' /\ TreeConsistent' /\ LabelsAreNumbers'
  BY IndexKept
<1> QED BY <1>1, <1>2, <1>3, <1>4, <1>5 DEF IndInv
(* One more chapter in the index. *)
LEMMA HeaderEntryInd ==
  ASSUME IndInv, HeaderEntry
  PROVE  IndInv'
<1>0. PICK nd, e, count :
        /\ nd = [chapter |-> next, sub |-> 0] /\ count = Count(next)
        /\ e = IF count > 0 THEN ParentEntry(nd, count) ELSE Entry("single", chapterCount, nd)
  OBVIOUS
<1>1. /\ TypeOK /\ pc = "headers" /\ next <= Len(Book) /\ pc' = "headers" /\ next' = next + 1
      /\ entries' = Append(entries, e) /\ chapterCount' = chapterCount + 1 /\ id' = id + count
      /\ UNCHANGED <<bookVars, html, writes>>
  BY <1>0 DEF HeaderEntry, Counted, Count, IndInv
<1>2. /\ arrays' \in Seq(Seq(ChapterType)) /\ live' \in DOMAIN arrays' /\ cap' \in Nat
      /\ handles' \in Seq([array : Nat \ {0}, index : Nat \ {0}, added : Seq(Nat)])
      /\ subCalls' \in 0..MaxSubs
      /\ HandlesInv' /\ LinksInv' /\ IdsUnique'
      /\ \A c \in DOMAIN Book' : Book'[c].ID < Len(Nodes')
  BY <1>1, SameBookInd
<1>3. /\ BookLen \in Nat /\ BookLen = Len(Book) /\ next \in 1..BookLen
      /\ entries \in Seq(EntryType) /\ Len(entries) \in Nat /\ DOMAIN entries = 1..Len(entries)
      /\ count \in Nat /\ id \in Nat /\ chapterCount \in Nat
      /\ Book[next].offset \in Nat /\ Book[next].len \in Nat
  BY <1>0, <1>1, BookFacts DEF BookLen, TypeOK
<1>4. /\ next = Len(entries) + 1 /\ chapterCount = Len(entries)
      /\ id = Len(Book) + ChildrenBefore(next)
      /\ ChildrenBefore(next) \in Nat /\ ChildrenBefore(next + 1) = ChildrenBefore(next) + count
      /\ \A k \in DOMAIN entries : IF k <= Len(Book) THEN EntryOfChapter(entries[k], k)
                                   ELSE EntryOfChild(entries[k], k - Len(Book))
  <2>1. /\ next = Len(entries) + 1 /\ chapterCount = Len(entries)
        /\ id = Len(Book) + ChildrenBefore(next)
        /\ \A k \in DOMAIN entries : IF k <= Len(Book) THEN EntryOfChapter(entries[k], k)
                                     ELSE EntryOfChild(entries[k], k - Len(Book))
    BY <1>1 DEF IndInv, EntriesInv, IdsInv
  <2>2. ChildrenBefore(next) \in Nat /\ ChildrenBefore(next + 1) = ChildrenBefore(next) + count
    <3>1. next \in 1..(BookLen + 1)
      BY <1>3
    <3> QED BY <1>0, <1>1, <1>3, <3>1, ChildrenFacts
  <2> QED BY <2>1, <2>2
<1>5. e \in EntryType /\ EntryOfChapter(e, next)
  <2>1. Piece(nd) = Book[next] /\ nd \in NodeType /\ nd = [chapter |-> next, sub |-> 0]
    BY <1>0, <1>3 DEF Piece, NodeType
  <2>2. CASE count = 0
    <3>1. e = [kind |-> "single", label |-> chapterCount, title |-> nd, offset |-> Book[next].offset,
               len |-> Book[next].len, first |-> 0, last |-> 0, parent |-> 0]
      BY <1>0, <2>1, <2>2 DEF Entry
    <3>2. e \in EntryType
      BY <1>3, <2>1, <3>1 DEF EntryType
    <3> QED BY <1>0, <1>3, <1>4, <2>1, <2>2, <3>1, <3>2 DEF EntryOfChapter, Count
  <2>3. CASE count # 0
    <3>1. e = [kind |-> "parent", label |-> id + count, title |-> nd, offset |-> Book[next].offset,
               len |-> Book[next].len, first |-> id, last |-> id + count - 1, parent |-> 0]
      <4>1. e = ParentEntry(nd, count)
        BY <1>0, <1>3, <2>3
      <4>2. Entry("parent", id + count, nd) =
              [kind |-> "parent", label |-> id + count, title |-> nd, offset |-> Book[next].offset,
               len |-> Book[next].len, first |-> 0, last |-> 0, parent |-> 0]
        BY <2>1 DEF Entry
      <4>3. e = [Entry("parent", id + count, nd) EXCEPT !.first = id, !.last = id + count - 1]
        BY <4>1 DEF ParentEntry
      <4>4. PICK lab, off, len, last : /\ lab = id + count /\ last = id + count - 1
                                       /\ off = Book[next].offset /\ len = Book[next].len
        OBVIOUS
      <4>5. e = [[kind |-> "parent", label |-> lab, title |-> nd, offset |-> off, len |-> len,
                  first |-> 0, last |-> 0, parent |-> 0] EXCEPT !.first = id, !.last = last]
        BY <4>2, <4>3, <4>4
      <4>6. e = [kind |-> "parent", label |-> lab, title |-> nd, offset |-> off, len |-> len,
                 first |-> id, last |-> last, parent |-> 0]
        BY <4>5
      <4> QED BY <4>4, <4>6
    <3>2. id + count \in Nat /\ id + count - 1 \in Nat
      BY <1>3, <2>3
    <3>3. e \in EntryType
      BY <1>3, <2>1, <3>1, <3>2 DEF EntryType
    <3>4. e.title = [chapter |-> next, sub |-> 0] /\ e.offset = Book[next].offset /\ e.len = Book[next].len
          /\ e.kind = "parent" /\ e.first = id /\ e.last = id + count - 1
      BY <2>1, <3>1
    <3>5. e.first = Len(Book) + ChildrenBefore(next) /\ e.last = e.first + count - 1
      BY <1>4, <3>4
    <3>6. count = Len(Book[next].subs)
      BY <1>0 DEF Count
    <3> QED BY <2>3, <3>3, <3>4, <3>5, <3>6 DEF EntryOfChapter
  <2> QED BY <1>3, <2>2, <2>3
<1>6. /\ entries' \in Seq(EntryType) /\ Len(entries') = Len(entries) + 1
      /\ entries'[Len(entries) + 1] = e /\ \A k \in 1..Len(entries) : entries'[k] = entries[k]
      /\ DOMAIN entries' = 1..(Len(entries) + 1)
  BY <1>1, <1>3, <1>5
<1>7. TypeOK'
  <2>1. id' \in Nat /\ chapterCount' \in Nat /\ next' \in Nat \ {0}
    BY <1>1, <1>3
  <2> QED BY <1>1, <1>2, <1>6, <2>1 DEF TypeOK
<1>8. IdsInv'
  BY <1>1, <1>2, <1>4, <1>6 DEF IdsInv
<1>9. HtmlInv'
  <2>1. Len(html) = Len(Nodes)
    BY <1>1 DEF IndInv, HtmlInv
  <2> QED BY <1>1, <2>1, SameHtml DEF bookVars
<1>10. EntriesInv'
  <2>1. /\ Book' = Book /\ \A c : ChildrenBefore(c)' = ChildrenBefore(c)
        /\ \A f : \A c : EntryOfChapter(f, c)' = EntryOfChapter(f, c)
    BY <1>1, SameChapters DEF bookVars
  <2>2. PICK after : after = next + 1
    OBVIOUS
  <2>3. ChildrenBefore(next)' = ChildrenBefore(after)'
    BY <1>1, <2>1, <2>2 DEF ChildrenBefore
  <2>4. id' = Len(Book') + ChildrenBefore(next)' /\ next' = Len(entries') + 1 /\ next' <= Len(Book') + 1
    BY SMTT(30), <1>1, <1>3, <1>4, <1>6, <2>1, <2>2, <2>3
  <2>5. ASSUME NEW k \in DOMAIN entries' PROVE k <= Len(Book') /\ EntryOfChapter(entries[k], k)'
    <3>1. PICK f : f = entries'[k]
      OBVIOUS
    <3>2. k <= Len(Book') /\ EntryOfChapter(f, k)
      <4>1. CASE k \in DOMAIN entries
        BY <1>3, <1>4, <1>6, <2>1, <3>1, <4>1
      <4>2. CASE k = Len(entries) + 1
        BY <1>3, <1>4, <1>5, <1>6, <2>1, <3>1, <4>2
      <4> QED BY <1>3, <1>6, <4>1, <4>2
    <3>3. EntryOfChapter(f, k)'
      BY <2>1, <3>2
    <3> QED BY <3>1, <3>2, <3>3 DEF EntryOfChapter
  <2> QED BY <1>1, <2>4, <2>5 DEF EntriesInv
<1>11. RangesTile' /\ TreeConsistent' /\ LabelsAreNumbers'
  BY <1>1, IndexUnfinished
<1> QED BY <1>2, <1>7, <1>8, <1>9, <1>10, <1>11 DEF IndInv

(* One more sub-chapter in the index. *)
LEMMA ChildEntryInd ==
  ASSUME IndInv, ChildEntry
  PROVE  IndInv'
<1>0. PICK nd, e :
        /\ nd = Children[next]
        /\ e = [Entry("child", chapterCount, nd) EXCEPT !.parent = nd.chapter - 1]
  OBVIOUS
<1>1. /\ TypeOK /\ pc = "children" /\ next <= Len(Children) /\ pc' = "children" /\ next' = next + 1
      /\ entries' = Append(entries, e) /\ chapterCount' = chapterCount + 1 /\ id' = id + 1
      /\ UNCHANGED <<bookVars, html, writes>>
  BY <1>0 DEF ChildEntry, IndInv
<1>2. /\ arrays' \in Seq(Seq(ChapterType)) /\ live' \in DOMAIN arrays' /\ cap' \in Nat
      /\ handles' \in Seq([array : Nat \ {0}, index : Nat \ {0}, added : Seq(Nat)])
      /\ subCalls' \in 0..MaxSubs
      /\ HandlesInv' /\ LinksInv' /\ IdsUnique'
      /\ \A c \in DOMAIN Book' : Book'[c].ID < Len(Nodes')
  BY <1>1, SameBookInd
<1>3. /\ BookLen \in Nat /\ BookLen = Len(Book) /\ Len(Children) \in Nat /\ next \in 1..Len(Children)
      /\ entries \in Seq(EntryType) /\ Len(entries) \in Nat /\ DOMAIN entries = 1..Len(entries)
      /\ id \in Nat /\ chapterCount \in Nat
  BY SMTT(30), <1>1, BookFacts, ChildrenFacts DEF BookLen, TypeOK
<1>4. /\ next = Len(entries) - Len(Book) + 1 /\ chapterCount = Len(entries)
      /\ \A k \in DOMAIN entries : IF k <= Len(Book) THEN EntryOfChapter(entries[k], k)
                                   ELSE EntryOfChild(entries[k], k - Len(Book))
  BY <1>1 DEF IndInv, EntriesInv, IdsInv
<1>5. /\ nd \in NodeType /\ nd.chapter \in 1..BookLen /\ Piece(nd).offset \in Nat /\ Piece(nd).len \in Nat
  <2>1. PICK c \in 1..BookLen : \E s \in 1..Count(c) : next = ChildrenBefore(c) + s
    BY <1>1, <1>3, ChildrenFacts
  <2>2. PICK s \in 1..Count(c) : next = ChildrenBefore(c) + s
    BY <2>1
  <2>3. nd = [chapter |-> c, sub |-> s]
    BY <1>0, <1>1, <2>2, ChildrenFacts
  <2>4. Count(c) \in Nat /\ Book[c].subs \in Seq(SubType) /\ s \in DOMAIN Book[c].subs
    BY <1>1, BookFacts
  <2>5. Book[c].subs[s] \in SubType
    BY <2>4, ElementOf
  <2>6. Piece(nd) = Book[c].subs[s]
    BY <2>3, <2>4 DEF Piece
  <2>7. nd \in NodeType /\ nd.chapter \in 1..BookLen
    BY <1>3, <2>3, <2>4 DEF NodeType
  <2> QED BY <2>5, <2>6, <2>7 DEF SubType
<1>6. e \in EntryType /\ EntryOfChild(e, next)
  <2>1. e = [kind |-> "child", label |-> chapterCount, title |-> nd, offset |-> Piece(nd).offset,
             len |-> Piece(nd).len, first |-> 0, last |-> 0, parent |-> nd.chapter - 1]
    BY <1>0 DEF Entry
  <2>2. nd.chapter - 1 \in Nat
    BY <1>3, <1>5
  <2>3. e \in EntryType
    BY <1>3, <1>5, <2>1, <2>2 DEF EntryType
  <2>4. chapterCount = Len(Book) + next - 1
    BY <1>3, <1>4
  <2> QED BY <1>0, <2>1, <2>3, <2>4 DEF EntryOfChild
<1>7. /\ entries' \in Seq(EntryType) /\ Len(entries') = Len(entries) + 1
      /\ entries'[Len(entries) + 1] = e /\ \A k \in 1..Len(entries) : entries'[k] = entries[k]
      /\ DOMAIN entries' = 1..(Len(entries) + 1)
  BY <1>1, <1>3, <1>6
<1>8. TypeOK'
  BY <1>1, <1>2, <1>3, <1>7 DEF TypeOK
<1>9. IdsInv'
  BY <1>1, <1>2, <1>4, <1>7 DEF IdsInv
<1>10. HtmlInv'
  <2>1. Len(html) = Len(Nodes)
    BY <1>1 DEF IndInv, HtmlInv
  <2> QED BY <1>1, <2>1, SameHtml DEF bookVars
<1>11. EntriesInv'
  <2>1. /\ Book' = Book /\ Children' = Children
        /\ \A f : \A c : EntryOfChapter(f, c)' = EntryOfChapter(f, c)
        /\ \A f : \A k : EntryOfChild(f, k)' = EntryOfChild(f, k)
    BY <1>1, SameChapters DEF bookVars
  <2>2. next' = Len(entries') - Len(Book') + 1 /\ next' <= Len(Children') + 1
    BY <1>1, <1>3, <1>4, <1>7, <2>1
  <2>3. ASSUME NEW k \in DOMAIN entries'
        PROVE  IF k <= Len(Book') THEN EntryOfChapter(entries[k], k)' ELSE EntryOfChild(entries[k], k - Len(Book))'
    <3>1. PICK f, j : f = entries'[k] /\ j = k - Len(Book)
      OBVIOUS
    <3>2. IF k <= Len(Book) THEN EntryOfChapter(f, k) ELSE EntryOfChild(f, j)
      <4>1. CASE k \in DOMAIN entries
        BY <1>3, <1>4, <1>7, <3>1, <4>1
      <4>2. CASE k = Len(entries) + 1
        <5>1. k = Len(Book) + next /\ f = e /\ j = next /\ ~(k <= Len(Book))
          BY <1>3, <1>4, <1>7, <3>1, <4>2
        <5> QED BY <1>6, <5>1
      <4> QED BY <1>3, <1>7, <4>1, <4>2
    <3>3. IF k <= Len(Book) THEN EntryOfChapter(f, k)' ELSE EntryOfChild(f, j)'
      BY <2>1, <3>2
    <3>4. EntryOfChapter(entries[k], k)' <=> EntryOfChapter(f, k)'
      BY <3>1 DEF EntryOfChapter
    <3>5. EntryOfChild(entries[k], k - Len(Book))' <=> EntryOfChild(f, j)'
      BY <2>1, <3>1 DEF EntryOfChild
    <3> QED BY <2>1, <3>3, <3>4, <3>5
  <2> QED BY <1>1, <2>2, <2>3 DEF EntriesInv
<1>12. RangesTile' /\ TreeConsistent' /\ LabelsAreNumbers'
  BY <1>1, IndexUnfinished
<1> QED BY <1>2, <1>8, <1>9, <1>10, <1>11, <1>12 DEF IndInv
(* The last step of generateCNCX: the entries are all there.               *)

LEMMA FinishedIndex ==
  ASSUME IndInv, pc = "children", next > Len(Children)
  PROVE  /\ BookLen = Len(Book) /\ BookLen \in Nat /\ Len(Children) \in Nat
         /\ Len(entries) = BookLen + Len(Children) /\ Len(Nodes) = Len(entries) /\ Len(html) = Len(entries)
         /\ chapterCount = Len(entries)
         /\ DOMAIN entries = 1..Len(entries) /\ DOMAIN html = 1..Len(html)
         /\ \A k \in 1..BookLen : EntryOfChapter(entries[k], k)
         /\ \A k \in 1..Len(Children) : EntryOfChild(entries[BookLen + k], k)
<1>1. TypeOK
  BY DEF IndInv
<1>2. /\ BookLen = Len(Book) /\ BookLen \in Nat /\ Len(Children) \in Nat /\ Len(Nodes) = BookLen + Len(Children)
      /\ entries \in Seq(EntryType) /\ Len(entries) \in Nat /\ next \in Nat
      /\ DOMAIN entries = 1..Len(entries) /\ DOMAIN html = 1..Len(html)
  BY <1>1, BookFacts, ChildrenFacts, NodesFacts DEF TypeOK, BookLen
<1>3. /\ next = Len(entries) - Len(Book) + 1 /\ next <= Len(Children) + 1
      /\ \A k \in DOMAIN entries : IF k <= Len(Book) THEN EntryOfChapter(entries[k], k)
                                   ELSE EntryOfChild(entries[k], k - Len(Book))
      /\ Len(html) = Len(Nodes) /\ chapterCount = Len(entries)
  BY DEF IndInv, EntriesInv, HtmlInv, IdsInv
<1>4. Len(entries) = BookLen + Len(Children)
  <2>1. next = Len(entries) - BookLen + 1 /\ next <= Len(Children) + 1 /\ next > Len(Children)
    BY <1>2, <1>3
  <2>2. BookLen \in Nat /\ Len(Children) \in Nat /\ Len(entries) \in Nat /\ next \in Nat
    BY <1>2
  <2>3. PICK a, b, c : a = Len(entries) /\ b = BookLen /\ c = Len(Children)
    OBVIOUS
  <2> QED BY <2>1, <2>2, <2>3
<1>5. ASSUME NEW k \in 1..BookLen PROVE EntryOfChapter(entries[k], k)
  BY <1>2, <1>3, <1>4
<1>6. ASSUME NEW k \in 1..Len(Children) PROVE EntryOfChild(entries[BookLen + k], k)
  <2>1. BookLen + k \in DOMAIN entries /\ ~(BookLen + k <= Len(Book)) /\ (BookLen + k) - Len(Book) = k
    BY <1>2, <1>4
  <2> QED BY <1>3, <2>1
<1> QED BY <1>2, <1>3, <1>4, <1>5, <1>6

(* The entry of each piece has its range. *)
LEMMA FinishedRanges ==
  ASSUME IndInv, pc = "children", next > Len(Children)
  PROVE  /\ Len(entries) = Len(html)
         /\ \A k \in DOMAIN html :
              /\ html[k].start = IF k = 1 THEN HeadLen ELSE html[k - 1].start + html[k - 1].len
              /\ \E e \in ToSet(entries) :
                   e.title = html[k].node /\ e.offset = html[k].start /\ e.len = html[k].len
<1>1. TypeOK
  BY DEF IndInv
<1>2. /\ BookLen = Len(Book) /\ BookLen \in Nat /\ Len(Children) \in Nat
      /\ Len(entries) = BookLen + Len(Children) /\ Len(Nodes) = Len(entries) /\ Len(html) = Len(entries)
      /\ DOMAIN entries = 1..Len(entries) /\ DOMAIN html = 1..Len(html)
      /\ \A k \in 1..BookLen : EntryOfChapter(entries[k], k)
      /\ \A k \in 1..Len(Children) : EntryOfChild(entries[BookLen + k], k)
  BY FinishedIndex
<1>3. \A k \in DOMAIN html :
         /\ html[k].node = Nodes[k]
         /\ html[k].start = IF k = 1 THEN HeadLen ELSE html[k - 1].start + html[k - 1].len
         /\ Piece(Nodes[k]).offset = html[k].start /\ Piece(Nodes[k]).len = html[k].len
  BY DEF IndInv, HtmlInv
<1>4. ASSUME NEW k \in DOMAIN html
      PROVE  \E e \in ToSet(entries) :
               e.title = html[k].node /\ e.offset = html[k].start /\ e.len = html[k].len
  <2>1. PICK nd : nd = Nodes[k]
    OBVIOUS
  <2>2. nd \in NodeType /\ nd.chapter \in 1..BookLen /\ nd.sub \in 0..Count(nd.chapter)
    BY <1>1, <1>2, <2>1, NodesFacts, ElementOf
  <2>3. nd = [chapter |-> nd.chapter, sub |-> nd.sub]
    BY <2>2 DEF NodeType
  <2>4. ASSUME NEW j \in DOMAIN entries, entries[j].title = nd,
               entries[j].offset = Piece(nd).offset, entries[j].len = Piece(nd).len
        PROVE  \E e \in ToSet(entries) :
                 e.title = html[k].node /\ e.offset = html[k].start /\ e.len = html[k].len
    <3>1. entries[j] \in ToSet(entries)
      BY DEF ToSet
    <3> QED BY <1>3, <2>1, <2>4, <3>1
  <2>5. CASE nd.sub = 0
    <3>1. Piece(nd) = Book[nd.chapter] /\ nd = [chapter |-> nd.chapter, sub |-> 0]
      BY <2>3, <2>5 DEF Piece
    <3>2. nd.chapter \in DOMAIN entries
      BY <1>2, <2>2
    <3>3. EntryOfChapter(entries[nd.chapter], nd.chapter)
      BY <1>2, <2>2
    <3> QED BY <2>4, <3>1, <3>2, <3>3 DEF EntryOfChapter
  <2>6. CASE nd.sub # 0
    <3>1. PICK c, s : c = nd.chapter /\ s = nd.sub
      OBVIOUS
    <3>2. c \in 1..BookLen /\ s \in 1..Count(c)
      BY <1>1, <2>2, <2>6, <3>1, BookFacts
    <3>3. PICK i : i = ChildrenBefore(c) + s
      OBVIOUS
    <3>4. i \in 1..Len(Children) /\ Children[i] = nd
      BY <1>1, <2>3, <3>1, <3>2, <3>3, ChildrenFacts
    <3>5. EntryOfChild(entries[BookLen + i], i) /\ BookLen + i \in DOMAIN entries
      BY <1>2, <3>4
    <3> QED BY <2>4, <3>4, <3>5 DEF EntryOfChild
  <2> QED BY <2>5, <2>6
<1> QED BY <1>2, <1>3, <1>4

(* The children of a chapter are numbered without a gap. *)
LEMMA FinishedTree ==
  ASSUME IndInv, pc = "children", next > Len(Children), NEW k \in DOMAIN entries, NEW children,
         children = {j \in DOMAIN entries :
                       entries[j].kind = "child" /\ entries[j].title.chapter = entries[k].title.chapter}
  PROVE  /\ entries[k].kind = "parent" =>
              /\ children = (entries[k].first + 1)..(entries[k].last + 1)
              /\ \A j \in children : entries[j].parent = k - 1
         /\ entries[k].kind = "single" => children = {}
         /\ entries[k].kind # "parent" => entries[k].label = k - 1
<1>1. TypeOK
  BY DEF IndInv
<1>2. /\ BookLen = Len(Book) /\ BookLen \in Nat /\ Len(Children) \in Nat
      /\ Len(entries) = BookLen + Len(Children) /\ DOMAIN entries = 1..Len(entries)
      /\ \A c \in 1..BookLen : EntryOfChapter(entries[c], c)
      /\ \A i \in 1..Len(Children) : EntryOfChild(entries[BookLen + i], i)
  BY FinishedIndex
<1>3. /\ \A c \in 1..BookLen : Count(c) \in Nat /\ ChildrenBefore(c) \in Nat
      /\ \A c \in 1..BookLen : ChildrenBefore(c) + Count(c) <= Len(Children)
  <2>1. \A c \in 1..BookLen : Count(c) \in Nat
    BY <1>1, BookFacts
  <2>2. ASSUME NEW c \in 1..BookLen
        PROVE  ChildrenBefore(c) \in Nat /\ ChildrenBefore(c) + Count(c) <= Len(Children)
    <3>1. c \in 1..(BookLen + 1) /\ c + 1 \in 1..(BookLen + 1) /\ BookLen + 1 \in 1..(BookLen + 1) /\ c + 1 <= BookLen + 1
      BY <1>2
    <3>2. ChildrenBefore(c) \in Nat /\ ChildrenBefore(c + 1) = ChildrenBefore(c) + Count(c)
          /\ ChildrenBefore(c + 1) <= ChildrenBefore(BookLen + 1) /\ ChildrenBefore(BookLen + 1) = Len(Children)
      BY <1>1, <3>1, ChildrenFacts
    <3> QED BY <3>2
  <2> QED BY <2>1, <2>2
(* The chapter of a child. *)
<1>4. ASSUME NEW c \in 1..BookLen, NEW i \in 1..Len(Children)
      PROVE  Children[i].chapter = c <=> i \in (ChildrenBefore(c) + 1)..(ChildrenBefore(c) + Count(c))
  <2>1. PICK d \in 1..BookLen : \E s \in 1..Count(d) : i = ChildrenBefore(d) + s
    BY <1>1, ChildrenFacts
  <2>2. PICK s \in 1..Count(d) : i = ChildrenBefore(d) + s
    BY <2>1
  <2>3. Children[i].chapter = d
    <3>1. Children[ChildrenBefore(d) + s] = [chapter |-> d, sub |-> s]
      BY <1>1, ChildrenFacts
    <3> QED BY <2>2, <3>1
  <2>4. CASE c = d
    BY <1>3, <2>2, <2>3, <2>4
  <2>5. ASSUME NEW a \in 1..BookLen, NEW b \in 1..BookLen, a < b
        PROVE  ChildrenBefore(a) + Count(a) <= ChildrenBefore(b)
    <3>1. a \in 1..BookLen /\ a + 1 \in 1..(BookLen + 1) /\ b \in 1..(BookLen + 1) /\ a + 1 <= b
      BY <1>2, <2>5
    <3>2. ChildrenBefore(a + 1) = ChildrenBefore(a) + Count(a) /\ ChildrenBefore(a + 1) <= ChildrenBefore(b)
      BY <1>1, <3>1, ChildrenFacts
    <3> QED BY <3>2
  <2>6. CASE c < d
    BY <1>3, <2>2, <2>3, <2>5, <2>6
  <2>7. CASE d < c
    BY <1>3, <2>2, <2>3, <2>5, <2>7
  <2> QED BY <1>2, <2>4, <2>6, <2>7
<1>5. CASE k \in 1..BookLen
  <2>1. EntryOfChapter(entries[k], k) /\ entries[k].title.chapter = k
    BY <1>2, <1>5 DEF EntryOfChapter
  <2>2. children = {j \in DOMAIN entries :
                      j \in (BookLen + ChildrenBefore(k) + 1)..(BookLen + ChildrenBefore(k) + Count(k))}
    <3>1. ASSUME NEW j \in DOMAIN entries
          PROVE  (entries[j].kind = "child" /\ entries[j].title.chapter = k)
                 <=> j \in (BookLen + ChildrenBefore(k) + 1)..(BookLen + ChildrenBefore(k) + Count(k))
      <4>1. CASE j \in 1..BookLen
        <5>1. entries[j].kind # "child"
          BY <1>2, <4>1 DEF EntryOfChapter
        <5> QED BY <1>2, <1>3, <1>5, <4>1, <5>1
      <4>2. CASE j \notin 1..BookLen
        <5>1. PICK i \in 1..Len(Children) : j = BookLen + i
          <6>1. j - BookLen \in 1..Len(Children) /\ j = BookLen + (j - BookLen)
            BY <1>2, <4>2
          <6> QED BY <6>1
        <5>2. entries[j].kind = "child" /\ entries[j].title = Children[i]
          BY <1>2, <5>1 DEF EntryOfChild
        <5>3. Children[i].chapter = k <=> i \in (ChildrenBefore(k) + 1)..(ChildrenBefore(k) + Count(k))
          BY <1>4, <1>5
        <5> QED BY <1>2, <1>3, <1>5, <5>1, <5>2, <5>3
      <4> QED BY <4>1, <4>2
    <3> QED BY <2>1, <3>1
  <2>3. children = (BookLen + ChildrenBefore(k) + 1)..(BookLen + ChildrenBefore(k) + Count(k))
    BY <1>2, <1>3, <1>5, <2>2
  <2>4. CASE Count(k) = 0
    <3>1. entries[k].kind = "single" /\ entries[k].label = k - 1
      BY <2>1, <2>4 DEF EntryOfChapter, Count
    <3>2. children = {}
      BY <1>2, <1>3, <1>5, <2>3, <2>4
    <3> QED BY <3>1, <3>2
  <2>5. CASE Count(k) # 0
    <3>1. entries[k].kind = "parent" /\ entries[k].first = BookLen + ChildrenBefore(k)
          /\ entries[k].last = entries[k].first + Count(k) - 1
      BY <1>2, <2>1, <2>5 DEF EntryOfChapter, Count
    <3>2. children = (entries[k].first + 1)..(entries[k].last + 1)
      <4>1. entries[k].first + 1 = BookLen + ChildrenBefore(k) + 1
            /\ entries[k].last + 1 = BookLen + ChildrenBefore(k) + Count(k)
        BY <1>2, <1>3, <1>5, <3>1
      <4> QED BY <2>3, <4>1
    <3>3. ASSUME NEW j \in children PROVE entries[j].parent = k - 1
      <4>1. j \in DOMAIN entries /\ entries[j].title.chapter = k /\ j \in (BookLen + ChildrenBefore(k) + 1)..Len(entries)
        BY <1>2, <1>3, <1>5, <2>1, <2>3, <3>3
      <4>2. PICK i \in 1..Len(Children) : j = BookLen + i
        <5>1. j - BookLen \in 1..Len(Children) /\ j = BookLen + (j - BookLen)
          BY <1>2, <1>3, <1>5, <4>1
        <5> QED BY <5>1
      <4>3. EntryOfChild(entries[j], i)
        BY <1>2, <4>2
      <4> QED BY <4>1, <4>3 DEF EntryOfChild
    <3> QED BY <3>1, <3>2, <3>3
  <2> QED BY <2>4, <2>5
<1>6. CASE k \notin 1..BookLen
  <2>1. k - BookLen \in 1..Len(Children) /\ k = BookLen + (k - BookLen)
    BY <1>2, <1>6
  <2>2. EntryOfChild(entries[k], k - BookLen)
    BY <1>2, <2>1
  <2>3. entries[k].kind = "child" /\ entries[k].label = BookLen + (k - BookLen) - 1
    BY <1>2, <2>2 DEF EntryOfChild
  <2>4. entries[k].label = k - 1
    BY <1>2, <2>3
  <2> QED BY <2>3, <2>4
<1> QED BY <1>5, <1>6

(* generateCNCX is done. *)
LEMMA WrittenInd ==
  ASSUME IndInv, Written
  PROVE  IndInv'
<1>1. /\ TypeOK /\ pc = "children" /\ next > Len(Children) /\ pc' = "calls" /\ writes' = writes + 1
      /\ UNCHANGED <<bookVars, chapterCount, next, id, html, entries>>
  BY DEF Written, IndInv
<1>2. /\ arrays' \in Seq(Seq(ChapterType)) /\ live' \in DOMAIN arrays' /\ cap' \in Nat
      /\ handles' \in Seq([array : Nat \ {0}, index : Nat \ {0}, added : Seq(Nat)])
      /\ subCalls' \in 0..MaxSubs
      /\ HandlesInv' /\ LinksInv' /\ IdsUnique'
      /\ \A c \in DOMAIN Book' : Book'[c].ID < Len(Nodes')
  BY <1>1, SameBookInd
<1>3. chapterCount = Len(entries) /\ Len(Nodes) = Len(entries) /\ Len(entries) \in Nat
  <2>1. chapterCount \in Nat
    BY <1>1 DEF TypeOK
  <2> QED BY <1>1, <2>1, FinishedIndex
<1>4. TypeOK'
  BY <1>1, <1>2, BoundsAssumption DEF TypeOK
<1>5. IdsInv'
  <2>1. Nodes' = Nodes
    BY <1>1, SameChapters DEF bookVars
  <2> QED BY <1>1, <1>2, <1>3, <2>1 DEF IdsInv
<1>6. HtmlInv' /\ EntriesInv'
  BY <1>1 DEF HtmlInv, EntriesInv
<1>7. RangesTile'
  BY <1>1, FinishedRanges DEF RangesTile, ToSet
<1>8. TreeConsistent'
  <2>1. entries' = entries
    BY <1>1
  <2>2. ASSUME NEW k \in DOMAIN entries,
               NEW children, children = {j \in DOMAIN entries :
                 entries[j].kind = "child" /\ entries[j].title.chapter = entries[k].title.chapter}
        PROVE  /\ entries[k].kind = "parent" =>
                    /\ children = (entries[k].first + 1)..(entries[k].last + 1)
                    /\ \A j \in children : entries[j].parent = k - 1
               /\ entries[k].kind = "single" => children = {}
    BY <1>1, <2>2, FinishedTree
  <2> SUFFICES ASSUME NEW k \in DOMAIN entries'
               PROVE  LET e == entries'[k]
                          children == {j \in DOMAIN entries' :
                                         entries'[j].kind = "child" /\ entries'[j].title.chapter = e.title.chapter}
                      IN  /\ e.kind = "parent" =>
                               /\ children = (e.first + 1)..(e.last + 1)
                               /\ \A j \in children : entries'[j].parent = k - 1
                          /\ e.kind = "single" => children = {}
    BY DEF TreeConsistent
  <2> QED BY <2>1, <2>2
<1>9. LabelsAreNumbers'
  <2>1. entries' = entries
    BY <1>1
  <2>2. ASSUME NEW k \in DOMAIN entries PROVE entries[k].kind # "parent" => entries[k].label = k - 1
    BY <1>1, FinishedTree
  <2> QED BY <2>1, <2>2 DEF LabelsAreNumbers
<1> QED BY <1>2, <1>4, <1>5, <1>6, <1>7, <1>8, <1>9 DEF IndInv
-----------------------------------------------------------------------------
(* Theorems                                                                *)

LEMMA NextInd ==
  ASSUME IndInv, [Next]_vars
  PROVE  IndInv'
<1>1. ASSUME NEW size \in Sizes, NewChapter(size) PROVE IndInv'
  BY <1>1, NewChapterInd
<1>2. ASSUME NEW size \in Sizes, NEW h \in DOMAIN handles, AddSubChapter(h, size) PROVE IndInv'
  BY <1>2, AddSubChapterInd
<1>3. CASE CreateTOCChapter
  BY <1>3, CreateTOCChapterInd
<1>4. CASE GenerateHTML
  BY <1>4, GenerateHTMLInd
<1>5. CASE StartCNCX
  BY <1>5, StartCNCXInd
<1>6. CASE HeaderEntry
  BY <1>6, HeaderEntryInd
<1>7. CASE StartChildren
  BY <1>7, StartChildrenInd
<1>8. CASE ChildEntry
  BY <1>8, ChildEntryInd
<1>9. CASE Written
  BY <1>9, WrittenInd
<1>10. CASE UNCHANGED vars
  BY <1>10, DoneInd
<1> QED BY <1>1, <1>2, <1>3, <1>4, <1>5, <1>6, <1>7, <1>8, <1>9, <1>10 DEF Next, Call, WriteTo, Done

(* The inductive invariant: what handles, numbers, links, the HTML and the *)
(* entries owe each other between any two steps of chapter.go and of the   *)
(* loops of WriteTo, with any number of chapters, calls and books written. *)
THEOREM Invariance == Spec => []IndInv
<1>1. Init => IndInv
  BY InitInd
<1>2. IndInv /\ [Next]_vars => IndInv'
  BY NextInd
<1> QED BY <1>1, <1>2, PTL DEF Spec

(* The state has its types. *)
THEOREM TypeCorrect == Spec => []TypeOK
<1>1. IndInv => TypeOK
  BY DEF IndInv
<1> QED BY <1>1, Invariance, PTL

(* Through a handle nothing is lost of the array it points into, and the   *)
(* book holds what was added before its slice moved (chapter.go:27-37).    *)
THEOREM HandlesStayAttached == Spec => []HandlesAttached
<1>1. IndInv => HandlesAttached
  BY DEF IndInv, HandlesInv
<1> QED BY <1>1, Invariance, PTL

(* No two chapters share an anchor, over any number of WriteTo, although   *)
(* generateCNCX resets the counter that numbers them.                      *)
THEOREM AnchorsUnique == Spec => []IdsUnique
<1>1. IndInv => IdsUnique
  BY DEF IndInv, IdsInv
<1> QED BY <1>1, Invariance, PTL

(* The k-th link of a table of contents leads to the k-th chapter and to   *)
(* no other.                                                               *)
THEOREM LinksLead == Spec => []LinksResolve
<1>1. ASSUME IndInv PROVE LinksResolve
  <2> SUFFICES ASSUME NEW c \in DOMAIN Book, NEW k \in DOMAIN Book[c].links
               PROVE  {d \in DOMAIN Book : Book[d].ID = Book[c].links[k]} = {k}
    BY DEF LinksResolve
  <2>1. k \in DOMAIN Book /\ Book[c].links[k] = Book[k].ID
    BY <1>1 DEF IndInv, LinksInv
  <2>2. BookLen \in Nat /\ DOMAIN Book = 1..BookLen /\ \A d \in 1..BookLen : Book[d].ID \in Nat
    BY <1>1, BookFacts DEF IndInv
  <2>3. \A i, j \in DOMAIN Book : i < j => Book[i].ID < Book[j].ID
    BY <1>1 DEF IndInv, IdsInv, IdsUnique
  <2>4. ASSUME NEW d \in DOMAIN Book, Book[d].ID = Book[k].ID PROVE d = k
    <3>1. ~(d < k) /\ ~(k < d)
      BY <2>1, <2>2, <2>3, <2>4
    <3> QED BY <2>1, <2>2, <3>1
  <2> QED BY <2>1, <2>4
<1> QED BY <1>1, Invariance, PTL

(* The ranges of the index follow each other over all of the HTML.         *)
THEOREM IndexCoversText == Spec => []RangesTile
<1>1. IndInv => RangesTile
  BY DEF IndInv
<1> QED BY <1>1, Invariance, PTL

(* A parent names exactly the entries of its own sub-chapters, and they it. *)
THEOREM TreeIsConsistent == Spec => []TreeConsistent
<1>1. IndInv => TreeConsistent
  BY DEF IndInv
<1> QED BY <1>1, Invariance, PTL

(* An entry that is not a parent's is labelled with its number. *)
THEOREM LabelsCount == Spec => []LabelsAreNumbers
<1>1. IndInv => LabelsAreNumbers
  BY DEF IndInv
<1> QED BY <1>1, Invariance, PTL
=============================================================================
