------------------------------ MODULE Chapters ------------------------------
(***************************************************************************)
(* The chapters of a book, from the calls that add them to their entries   *)
(* in the table of contents and in the NCX index: chapter.go, and          *)
(* createTOCChapter, the HTML loop and generateCNCX of writer.go.          *)
(*                                                                         *)
(* NewChapter hands out a pointer into the slice of chapters, and append   *)
(* moves the slice when its array is full; the arrays it has left behind   *)
(* stay in the model, since handles still point into them.                 *)
(***************************************************************************)
EXTENDS Integers, Sequences, SequencesExt

CONSTANTS
  Sizes,        \* lengths of the HTML of a chapter
  HeadLen,      \* length of <html><head>...<body>
  LinkLen,      \* length of a line of the table of contents
  MaxChapters,  \* bound: calls of NewChapter
  MaxSubs,      \* bound: calls of AddSubChapter
  MaxWrites     \* bound: calls of WriteTo

ASSUME SizesAssumption == Sizes \subseteq Nat \ {0} /\ HeadLen \in Nat /\ LinkLen \in Nat
ASSUME BoundsAssumption == MaxChapters \in Nat /\ MaxSubs \in Nat /\ MaxWrites \in Nat

VARIABLES
  arrays,        \* every array the slice w.chapters has had, its chapters
  live,          \* the one it has now
  cap,           \* its capacity
  chapterCount,
  handles,       \* what NewChapter returned, and what was added through it
  pc,            \* "calls", or the loop of WriteTo that runs
  next,          \* that loop's index
  id,            \* generateCNCX's id
  html,          \* bookHTML: which node was written where
  entries,       \* the entries of cncxBuffer
  subCalls, writes

bookVars == <<arrays, live, cap, handles, subCalls>>
vars == <<bookVars, chapterCount, pc, next, id, html, entries, writes>>

Book == arrays[live]

SubPiece(name, size) == [name |-> name, size |-> size, offset |-> 0, len |-> 0]
Chapter(num, size, links) ==
  [ID |-> num, size |-> size, links |-> links, subs |-> <<>>, offset |-> 0, len |-> 0]

(* What append allocates for one more element than n. *)
GrownCap(n) == IF n = 0 THEN 1 ELSE 2 * n

Init ==
  /\ arrays = <<<<>>>> /\ live = 1 /\ cap = 0
  /\ chapterCount = 0 /\ handles = <<>>
  /\ pc = "calls" /\ next = 1 /\ id = 0
  /\ html = <<>> /\ entries = <<>>
  /\ subCalls = 0 /\ writes = 0

(* append(w.chapters, ch) *)
AppendChapter(ch) ==
  IF Len(Book) < cap
  THEN /\ arrays' = [arrays EXCEPT ![live] = Append(@, ch)]
       /\ UNCHANGED <<live, cap>>
  ELSE /\ arrays' = Append(arrays, Append(Book, ch))
       /\ live' = Len(arrays) + 1
       /\ cap' = GrownCap(cap)

-----------------------------------------------------------------------------
(* The caller.                                                             *)

(* Mutant of NewHandle: the pointer is taken before the append. *)
EarlyHandle == [array |-> live, index |-> Len(Book) + 1, added |-> <<>>]
(* The pointer NewChapter returns, into the array after the append. *)
NewHandle == [array |-> live', index |-> Len(Book) + 1, added |-> <<>>]

NewChapter(size) ==
  /\ pc = "calls" /\ Len(handles) < MaxChapters
  /\ AppendChapter(Chapter(chapterCount, size, <<>>))
  /\ chapterCount' = chapterCount + 1
  /\ handles' = Append(handles, NewHandle)
  /\ UNCHANGED <<pc, next, id, html, entries, subCalls, writes>>

(* The sub-chapter goes where the handle points, wherever the book is now. *)
AddSubChapter(h, size) ==
  /\ pc = "calls" /\ subCalls < MaxSubs
  /\ LET sub == SubPiece(subCalls + 1, size)
     IN  /\ arrays' = [arrays EXCEPT ![handles[h].array][handles[h].index].subs = Append(@, sub)]
         /\ handles' = [handles EXCEPT ![h].added = Append(@, sub.name)]
  /\ subCalls' = subCalls + 1
  /\ UNCHANGED <<live, cap, chapterCount, pc, next, id, html, entries, writes>>

-----------------------------------------------------------------------------
(* WriteTo.                                                                *)

(* Mutant of TOCLinks: a chapter is linked by its place in the book. *)
LinksByPlace == IF chapterCount > 0 THEN [k \in DOMAIN Book |-> k - 1] ELSE <<>>
TOCLinks == IF chapterCount > 0 THEN [k \in DOMAIN Book |-> Book[k].ID] ELSE <<>>

(* createTOCChapter: one more chapter, with a link to each of the others.  *)
(* Then the buffer of the HTML starts empty.                               *)
CreateTOCChapter ==
  /\ pc = "calls" /\ writes < MaxWrites
  /\ AppendChapter(Chapter(chapterCount, 1 + LinkLen * Len(TOCLinks), TOCLinks))
  /\ chapterCount' = chapterCount + 1
  /\ html' = <<>>
  /\ pc' = "html" /\ next' = 1
  /\ UNCHANGED <<handles, id, entries, subCalls, writes>>

(* The chapters, each followed by its sub-chapters; sub is 0 for a chapter. *)
NodesOf(c) == [s \in 1..(1 + Len(Book[c].subs)) |-> [chapter |-> c, sub |-> s - 1]]
Nodes == FlattenSeq([c \in DOMAIN Book |-> NodesOf(c)])

Piece(n) == IF n.sub = 0 THEN Book[n.chapter] ELSE Book[n.chapter].subs[n.sub]

HtmlLen == IF html = <<>> THEN HeadLen ELSE Last(html).start + Last(html).len

(* Mutant of LenWritten: the length is taken after the sub-chapters. *)
LenWithSubChapters(n) ==
  LET inside == IF n.sub = 0 THEN [k \in DOMAIN Piece(n).subs |-> Piece(n).subs[k].size] ELSE <<>>
  IN  FoldSeq(+, Piece(n).size, inside)
LenWritten(n) == Piece(n).size

(* generateHTML of a chapter, or of a sub-chapter from inside its chapter's. *)
(* The offset of a sub-chapter is seen through the arrays left behind, too,  *)
(* which share it by pointer; nothing reads it there.                        *)
GenerateHTML ==
  /\ pc = "html" /\ next <= Len(Nodes)
  /\ LET n == Nodes[next]
         written == [Piece(n) EXCEPT !.offset = HtmlLen, !.len = LenWritten(n)]
     IN  /\ html' = Append(html, [node |-> n, start |-> HtmlLen, len |-> Piece(n).size])
         /\ arrays' = IF n.sub = 0
                      THEN [arrays EXCEPT ![live][n.chapter] = written]
                      ELSE [arrays EXCEPT ![live][n.chapter].subs[n.sub] = written]
  /\ next' = next + 1
  /\ UNCHANGED <<live, cap, chapterCount, handles, pc, id, entries, subCalls, writes>>

(* Mutant of StartCNCX: chapterCount is not reset. *)
CountOn ==
  /\ pc = "html" /\ next > Len(Nodes)
  /\ entries' = <<>> /\ id' = Len(Book)
  /\ pc' = "headers" /\ next' = 1
  /\ UNCHANGED <<bookVars, chapterCount, html, writes>>

(* generateCNCX: buffer and counter start over, the chapters' entries come *)
(* first, and their children are numbered from there on.                   *)
StartCNCX ==
  /\ pc = "html" /\ next > Len(Nodes)
  /\ entries' = <<>> /\ chapterCount' = 0 /\ id' = Len(Book)
  /\ pc' = "headers" /\ next' = 1
  /\ UNCHANGED <<bookVars, html, writes>>

Entry(kind, label, n) ==
  [kind |-> kind, label |-> label, title |-> n, offset |-> Piece(n).offset, len |-> Piece(n).len,
   first |-> 0, last |-> 0, parent |-> 0]

(* Mutant of ParentEntry: the last child is the number after it. *)
LastChildPastEnd(n, count) ==
  [Entry("parent", id + count, n) EXCEPT !.first = id, !.last = id + count]
(* A parent names its children by their numbers, and is labelled with id   *)
(* after it has been advanced past them.                                   *)
ParentEntry(n, count) ==
  [Entry("parent", id + count, n) EXCEPT !.first = id, !.last = id + count - 1]

(* Mutant of Counted: only parents are counted. *)
SinglesUncounted(n) == IF Book[n.chapter].subs = <<>> THEN chapterCount ELSE chapterCount + 1
Counted(n) == chapterCount + 1

(* One chapter. *)
HeaderEntry ==
  /\ pc = "headers" /\ next <= Len(Book)
  /\ LET n == [chapter |-> next, sub |-> 0]
         count == Len(Book[next].subs)
     IN  /\ entries' = Append(entries, IF count > 0 THEN ParentEntry(n, count)
                                       ELSE Entry("single", chapterCount, n))
         /\ chapterCount' = Counted(n)
         /\ id' = id + count
  /\ next' = next + 1
  /\ UNCHANGED <<bookVars, pc, html, writes>>

StartChildren ==
  /\ pc = "headers" /\ next > Len(Book)
  /\ id' = Len(Book)
  /\ pc' = "children" /\ next' = 1
  /\ UNCHANGED <<bookVars, chapterCount, html, entries, writes>>

(* The sub-chapters, in the order of generateCNCX's two nested loops. *)
ChildrenOf(c) == [s \in 1..Len(Book[c].subs) |-> [chapter |-> c, sub |-> s]]
Children == FlattenSeq([c \in DOMAIN Book |-> ChildrenOf(c)])

(* One sub-chapter; its parent is named by the index of the loop, from 0. *)
ChildEntry ==
  /\ pc = "children" /\ next <= Len(Children)
  /\ LET n == Children[next]
     IN  entries' = Append(entries, [Entry("child", chapterCount, n) EXCEPT !.parent = n.chapter - 1])
  /\ chapterCount' = chapterCount + 1 /\ id' = id + 1
  /\ next' = next + 1
  /\ UNCHANGED <<bookVars, pc, html, writes>>

(* The rest of WriteTo leaves the chapters alone; the caller goes on. *)
Written ==
  /\ pc = "children" /\ next > Len(Children)
  /\ pc' = "calls" /\ writes' = writes + 1
  /\ UNCHANGED <<bookVars, chapterCount, next, id, html, entries>>

-----------------------------------------------------------------------------
WriteTo ==
  \/ CreateTOCChapter \/ GenerateHTML \/ StartCNCX
  \/ HeaderEntry \/ StartChildren \/ ChildEntry \/ Written

Call ==
  \/ \E size \in Sizes : NewChapter(size)
  \/ \E size \in Sizes, h \in DOMAIN handles : AddSubChapter(h, size)

(* The caller stops when it wants to; a started WriteTo goes on. *)
Done == pc = "calls" /\ UNCHANGED vars

Next == Call \/ WriteTo \/ Done

Spec == Init /\ [][Next]_vars

-----------------------------------------------------------------------------
(* Properties                                                              *)

(* Types of the state. *)
NodeType == [chapter : Nat, sub : Nat]
EntryType ==
  [kind : {"single", "parent", "child"}, label : Nat, title : NodeType, offset : Nat, len : Nat,
   first : Nat, last : Nat, parent : Nat]
SubType == [name : Nat, size : Nat, offset : Nat, len : Nat]
ChapterType ==
  [ID : Nat, size : Nat, links : Seq(Nat), subs : Seq(SubType), offset : Nat, len : Nat]
TypeOK ==
  /\ arrays \in Seq(Seq(ChapterType)) /\ live \in DOMAIN arrays /\ cap \in Nat
  /\ chapterCount \in Nat /\ id \in Nat /\ next \in Nat \ {0}
  /\ handles \in Seq([array : Nat \ {0}, index : Nat \ {0}, added : Seq(Nat)])
  /\ pc \in {"calls", "html", "headers", "children"}
  /\ html \in Seq([node : NodeType, start : Nat, len : Nat]) /\ entries \in Seq(EntryType)
  /\ subCalls \in 0..MaxSubs /\ writes \in 0..MaxWrites /\ (pc # "calls" => writes < MaxWrites)

Names(subs) == [k \in DOMAIN subs |-> subs[k].name]

(* What a handle has added is in the array it points into, and the book    *)
(* has the beginning of it: a handle loses only what is added last, once   *)
(* the slice has moved on, and all of it is in the book while it has not   *)
(* (chapter.go:27-37).                                                     *)
HandlesAttached ==
  \A k \in DOMAIN handles :
    LET h == handles[k]
        inBook == Names(Book[h.index].subs)
    IN  /\ h.index \in DOMAIN arrays[h.array] /\ h.index \in DOMAIN Book
        /\ Names(arrays[h.array][h.index].subs) = h.added
        /\ IsPrefix(inBook, h.added)
        /\ h.array = live => inBook = h.added

(* A sub-chapter that was added is in the book ("Chapter lets you add      *)
(* sub-chapters to the book", chapter.go:8).                               *)
NothingLost ==
  \A k \in DOMAIN handles : Names(Book[handles[k].index].subs) = handles[k].added

(* chapterCount numbers the chapters, is reset by generateCNCX and goes on *)
(* numbering after it: no two chapters ever share an anchor in the HTML.   *)
IdsUnique == \A j, k \in DOMAIN Book : j < k => Book[j].ID < Book[k].ID

(* Every link of every table of contents leads to the chapter it was made  *)
(* for: the k-th line to the k-th chapter, also after another WriteTo.     *)
LinksResolve ==
  \A c \in DOMAIN Book : \A k \in DOMAIN Book[c].links :
    {d \in DOMAIN Book : Book[d].ID = Book[c].links[k]} = {k}

Indexed == pc = "calls" /\ writes > 0

(* The index of the last WriteTo covers its HTML: the entries' ranges,     *)
(* taken in the order of the text, follow each other without gap or        *)
(* overlap from the head on, one for each piece that was written.          *)
RangesTile ==
  Indexed =>
    /\ Len(entries) = Len(html)
    /\ \A k \in DOMAIN html :
         /\ html[k].start = IF k = 1 THEN HeadLen ELSE html[k - 1].start + html[k - 1].len
         /\ \E e \in ToSet(entries) :
              e.title = html[k].node /\ e.offset = html[k].start /\ e.len = html[k].len

(* The tree of the index: a parent's first and last child are the numbers  *)
(* of exactly its own sub-chapters' entries, each of which names it as its *)
(* parent (the structure of writer.go:318-334).                            *)
TreeConsistent ==
  Indexed =>
    \A k \in DOMAIN entries :
      LET e == entries[k]
          children == {j \in DOMAIN entries :
                         entries[j].kind = "child" /\ entries[j].title.chapter = e.title.chapter}
      IN  /\ e.kind = "parent" =>
               /\ children = (e.first + 1)..(e.last + 1)
               /\ \A j \in children : entries[j].parent = k - 1
          /\ e.kind = "single" => children = {}

(* The entry of a chapter without children, and that of a child, is        *)
(* labelled with its number in the structure of writer.go:324-332, although *)
(* the counter was reset and parents are labelled from another one.        *)
LabelsAreNumbers ==
  Indexed => \A k \in DOMAIN entries : entries[k].kind # "parent" => entries[k].label = k - 1

-----------------------------------------------------------------------------
(* The inductive invariant.                                                *)

(* Handles point to different chapters, each in an array of its own time;  *)
(* the book is the newest array and fits its capacity.                     *)
HandlesInv ==
  /\ live = Len(arrays) /\ Len(Book) <= cap
  /\ \A k \in DOMAIN handles : handles[k].array \in DOMAIN arrays
  /\ \A j, k \in DOMAIN handles : j < k => handles[j].index < handles[k].index
  /\ HandlesAttached

(* Numbers stay below the number of pieces in the book, from which the     *)
(* counter goes on when an index has been made.                            *)
IdsInv ==
  /\ IdsUnique
  /\ \A c \in DOMAIN Book : Book[c].ID < Len(Nodes)
  /\ pc \in {"calls", "html"} =>
       chapterCount <= Len(Nodes) /\ \A c \in DOMAIN Book : Book[c].ID < chapterCount
  /\ pc \in {"headers", "children"} => chapterCount = Len(entries)

LinksInv ==
  \A c \in DOMAIN Book : \A k \in DOMAIN Book[c].links :
    k \in DOMAIN Book /\ Book[c].links[k] = Book[k].ID

(* The HTML is the pieces in their order, and each knows where it is. *)
HtmlInv ==
  pc # "calls" =>
    /\ IF pc = "html" THEN next = Len(html) + 1 /\ next <= Len(Nodes) + 1 ELSE Len(html) = Len(Nodes)
    /\ \A k \in DOMAIN html :
         /\ html[k].node = Nodes[k]
         /\ html[k].start = IF k = 1 THEN HeadLen ELSE html[k - 1].start + html[k - 1].len
         /\ Piece(Nodes[k]).offset = html[k].start /\ Piece(Nodes[k]).len = html[k].len

ChildrenBefore(c) == Len(FlattenSeq([d \in 1..(c - 1) |-> ChildrenOf(d)]))

EntryOfChapter(e, c) ==
  LET count == Len(Book[c].subs)
  IN  /\ e.title = [chapter |-> c, sub |-> 0]
      /\ e.offset = Book[c].offset /\ e.len = Book[c].len
      /\ IF count = 0 THEN e.kind = "single" /\ e.label = c - 1
         ELSE /\ e.kind = "parent"
              /\ e.first = Len(Book) + ChildrenBefore(c) /\ e.last = e.first + count - 1

EntryOfChild(e, k) ==
  /\ e.title = Children[k]
  /\ e.offset = Piece(Children[k]).offset /\ e.len = Piece(Children[k]).len
  /\ e.kind = "child" /\ e.label = Len(Book) + k - 1 /\ e.parent = Children[k].chapter - 1

(* The entries made so far are those of the first chapters, then of the    *)
(* first children; id is the number of the next parent's first child.      *)
EntriesInv ==
  /\ pc = "headers" =>
       /\ next = Len(entries) + 1 /\ next <= Len(Book) + 1
       /\ id = Len(Book) + ChildrenBefore(next)
  /\ pc = "children" =>
       /\ next = Len(entries) - Len(Book) + 1 /\ next <= Len(Children) + 1
  /\ pc \in {"headers", "children"} =>
       \A k \in DOMAIN entries :
         IF k <= Len(Book) THEN EntryOfChapter(entries[k], k)
         ELSE EntryOfChild(entries[k], k - Len(Book))

IndInv ==
  /\ TypeOK /\ HandlesInv /\ IdsInv /\ LinksInv /\ HtmlInv /\ EntriesInv
  /\ RangesTile /\ TreeConsistent /\ LabelsAreNumbers
=============================================================================
