# mobi: a TLA+ model of the book writer

The repository is a Go package that writes (and, less completely, reads) books
in the MOBI format. A program makes a builder (`NewBuilder`), sets title,
compression, images and EXTH metadata, adds chapters and sub-chapters, and
calls `WriteTo`. This directory models what `WriteTo` and the calls before it
do, and what the package's own reader makes of the file, model-checks it with
TLC and proves most of what it checks with TLAPS.

## The system's parts

| part | source | state | operations |
|---|---|---|---|
| chapters and index entries | `chapter.go`; `createTOCChapter`, `generateCNCX` of `writer.go` | slice `chapters`, `chapterCount`, `cncxBuffer` | `NewChapter`, `AddSubChapter`, `createTOCChapter`, `generateHTML`, `generateCNCX` |
| text conversion | `convertHTMLToRecords`, `makeHTMLRecord` of `writer.go` | `bookHTML`, chunks, records, channel, wait group, workers | chunking, sending, compressing in parallel, appending |
| compression | `compression.go`, constants of `util.go` | position, search, output; the package variable `palmLZ77Compress` | `palmLZ77CompressWithResolver`, two `findChunk`, `SetCompressionStrategy` |
| book file | rest of `writer.go`; `pdf.go`, `pdh.go`, `header.go`, `mobi.go`, `mint.go` | `records`, headers, `binaryWriter` | `AddCover`, `NewExthRecord`, `WriteTo`, `init*`, `Write`, `writeBinary`, `pad`, `seekForwardTo` |
| EXTH records | `exth.go`; `getExthMetaByTag` of `util.go`, `initExth` of `writer.go` | `Records`, `RecordCount`, lengths | `Add`, `GetHeaderLenght`, `initExth` |
| NCX index bytes | `generateCNCX` of `writer.go`, `writer_indx.go`, `vwiEncInt` and `controlByte` of `util.go`; `indx.go`, `tagx.go`, `ptagx.go`, `idxt.go`, `cncx.go` | `Idxt.Offset`, buffers | `generateCNCX`, `generateINDX1`, `generateINDX2` |
| FLIS, FCIS | `flis.go`, `fcis.go` | none | two constant records |
| reader | `reader.go`, `peeker.go`, `vwiDec` of `util.go` | file position, parsed headers | `Parse`, `parsePdf`, `parsePdh`, `ExthParse`, `parseIndexRecord`, `parseTagx`, `parseIdxt`, `parsePtagx` |

How they interact: `NewChapter` gives the caller a pointer into the builder's
slice; `WriteTo` first adds the contents chapter, then lets every chapter write
its HTML and remember where it is, then makes the index entries from those
positions, then cuts and compresses the HTML in several goroutines, appends the
remaining records, and writes the headers (which hold record numbers and
offsets computed earlier or computed again) and the records to an `io.Writer`
that may fail. Everything but the records' compression runs in one goroutine.
The package variable `palmLZ77Compress` is shared with whoever calls
`SetCompressionStrategy`. The reader goes the other way: table of offsets,
headers, EXTH records, then the index by the number in the header; it shares
layouts with the writer but no computation, and looks at few of its errors.

What is hard: the worker pool (order, lost or doubled work, termination); a
compressor with five kinds of elements whose two search algorithms must agree
on what a match is; numbers taken at one moment and used at another (record
numbers, offsets, chapter numbers, pointers into a slice); arithmetic in 16
bits and at the borders of fixed rooms; errors that are looked at late or never;
files that are cut; calling the builder again after `WriteTo`. `PROJECT.json` lists these as hazards, each
with its line.

What makes each part correct: every character of the text is in exactly one
record, in order, and records have the size the format computes with; a
compressed record decodes to what went in; entries of the index cover the text
and describe the chapter tree; links resolve; every number in a header names
the record it is meant for and every offset is where the record is; `WriteTo`
reports failures; the reader finds what was written, values of EXTH records and
entries of the index, or says that it does not.

## Modules

Each module that models code holds, before each operation that has them, wrong
variants of it ("mutant of ..."), such as a dropped reset or an off-by-one.
No specification uses them: put in place of the operation each one breaks a
property, which shows that the property depends on that line of the code.

**OrderedRecords** is what `convertHTMLToRecords` promises: consecutive
non-empty pieces of the text are appended in order, and all of them are there
when it returns.

**HtmlRecords** is that function in detail, one action per step of the
goroutine of `WriteTo` (`MeasureText`, `ReadRune`, `EndChunk`, `NoMoreChunks`,
`Spawn`, `Send`, `CloseChannel`, `WaitReturns`, `AppendRecord`, `Return`) and of
a worker (`Encode`, `Store`, `Exit`). A send on the unbuffered channel and its
receive are one step. `SetCompressionStrategy` may be called by another
goroutine at any time; as it writes one pointer, a worker sees the old or the
new function. A character has a length as read and a length as written, which
differ only for a byte that is not UTF-8. `Ordered` maps it to OrderedRecords.

**Palmdoc** is one call of `palmLZ77CompressWithResolver`, byte by byte, with
either resolver: `LookupStep` compares one position backwards, `TreeStep` one
position forwards. The prefix tree is not built: it serves to skip positions
whose three bytes differ, and `TreeStep` skips those by comparing them. One
element of `out` is what one round of the loop appends. The second half is a
reader of the finished record. It is not in the repository, which decodes
nothing; it is the PalmDoc format the compressor writes for and is marked
external in the map.

**PalmdocTest** makes the two calls of `TestCorrectness` in
`compression_test.go` on one record and compares the outputs.

**Chapters** follows the chapters from the calls that add them to the entries
of the index. `arrays` holds every array the slice has had, because a handle
points into the array that was in use when `NewChapter` returned it; `append`
doubles the capacity of a full array (external: the Go library). A piece of
HTML is a length. `GenerateHTML` writes one chapter or sub-chapter;
`HeaderEntry` and `ChildEntry` are one round of the loops of `generateCNCX`.

**Vwi** is `vwiEncInt` and `vwiDec`, its result in a uint32. **Bytes** is what
the code uses of `encoding/binary`: big-endian numbers, and reads of a file
that may be too short, which leave the zeros of the buffer (external).

**NcxIndex** extends Chapters with the bytes: `WriteHeaderEntry` and
`WriteChildEntry` are the rounds of `generateCNCX` with what they append to
`cncxBuffer`, `cncxLabelBuffer` and `Idxt.Offset`, and `MakeRecords` is
`generateINDX1` and `generateINDX2`, byte by byte. Of a title only its length
is kept, so of the record of labels only the places.

**IndexReader** adds `ReadIndex`: `parseIndexRecord`, with `parseTagx`,
`parseIdxt` and `parsePtagx`, over the bytes of the last `WriteTo`, whole or cut
at the end of a section or one byte before it. The record of type inflection
reads the record behind it, and the error of that is dropped, as in the code. A
panic is a result.

**BookFile** is `WriteTo` with texts and index as records of some length, and
of the index the table of offsets too (`idxt` is `Idxt.Offset`, which is never
reset): first the records are collected and numbered, then each write of the
headers, the seek and the records goes to `OutTakes` or `OutFails`. Chapters are
never taken away and every `WriteTo` adds one for the contents, so an index has
more entries than those before it (`MayFollow`). A failing write takes none of
its bytes, half of them or all but one, and after it the writer recovers
("once") or fails for ever ("for good"). `Write` counts nothing when there is an error,
`writeBinary` counts what was taken. The table of offsets is computed by the
code's formula, in `Word` for its first entry; `starts`, `nameStart` and
`accepted` are history variables that record what happened.

**MobiReader** adds `Parse` of the file that BookFile has written, or of the
beginning that reached a writer which then failed for good: `parsePdf`,
`parsePdh`, the place where `ExthParse` is cut, and `parseIndexRecord`: the way by number and offset to the index, and
behind an INDX1 to the record that follows it, whose error is dropped and whose
panic is not (`PanicBehind`). Whether a record is refused depends on its end
(`IndexWhole`), whether it panics on its offsets (`EmptyEntry`: two equal ones in
a row, as in a table that is cut and read as zeros). The values of the entries
are IndexReader's. The file is what lies at each place, cut at `accepted` bytes,
also where the table leads to a wrong one. `ParseCrashes` is the read of an EXTH record
whose length is cut off: the program allocates 2^32 - 8 bytes, which succeeds
or ends it.

**ExthRecords** is EXTH metadata from the call to the reader: `NewExthRecord`
converts by the type of the tag (`Converted`) or panics (`AddPanics`, from
which a caller may recover), `ChangeSlice` is the caller changing a `[]byte` it
has given, `WriteTo` adds the images' records and is `initExth`, byte by byte,
and `ExthParse` reads the bytes back. Every place in the header is where the
record before it ends (`Places`), as the reader finds it. Of the text of the
cover's URI only its number is kept, in four bytes.

**Sums** adds up lengths: records of a book, parts of the headers, bytes of a
text.

**MCHtmlRecords**, **MCPalmdoc**, **MCBookFile**, **MCExthRecords** give small
instances. The proofs are in **HtmlRecordsProofs**, **PalmdocProofs**,
**ChaptersProofs**, **IndexProofs**, **BookFileProofs** (which holds those of
MobiReader too) and **ExthRecordsProofs**; **SequenceLemmas** has what they all
need of sums and of flattened sequences, **BytesProofs** what those about index
and EXTH records need of numbers and their bytes.

## Runs

| run | bounds | shows |
|---|---|---|
| `html_records` | 2 workers, limit of 3 bytes, texts of up to 4 characters of 1, 2 or 4 bytes, both strategies, compressed or not | each chunk made once (`EachChunkOnce`, `WrittenOnce`), nothing appended early (`WaitedForAll`), order (`ImplementsOrdered`), exact sizes (`RecordSizes`, `TextLengthExact`), `Terminates` |
| `html_text_invalid` | 1 worker, one kind of invalid byte | **violated** `TextLengthExact` |
| `palmdoc` | all texts of 10 and of 13 bytes over two letters, chunks of at most 4, window 5, both resolvers; short texts over one byte of every range of the format, tails of 0 to 3 bytes, runs of 1 to 18 uncompressible bytes | `LongestMatch`, `SlicesInBounds`, `DecodesToPrefix`, `Restored`, `SelfDelimiting`, `Terminates`, and the inductive invariant |
| `palmdoc_test` | a letter 24 times | **violated** `SameOutput` |
| `index` | 3 chapters, 2 sub-chapters, 2 writes, two lengths; head of 2097151 bytes, titles of 60, a word of 256; files whole and cut at 18 places | `HandlesAttached`, `IdsUnique`, `LinksResolve`, `RangesTile`, `TreeConsistent`, `LabelsAreNumbers`, `EntriesRead`, `RewrittenTail`, `CutsOfIndex`, and the inductive invariants of the chapters (`IndInv`) and of the index (`IndexIndInv`) |
| `index_damaged` | a book of at most one chapter, the word of the program | **violated** `NilMeansRead` |
| `chapters_lost` | 2 chapters | **violated** `NothingLost` |
| `mobi_reader` | 2 text records, an index of 1, 2 or 4 entries, 0 or 2 images, 0 or 1 EXTH record of caller's, titles of 9769 and 10383 bytes, 2 writes, every failure of the writer, the file read at the end | `IndexFound`, `CutsOfBook`, `OffsetsTrue`, `NameFound`, `NumbersName`, `CoversFound`, `TextIsTextOnce`, `CountsWholeFile`, `FailureReported`, `NeverOverstated`, and the inductive invariant of file and reader (`ReaderIndInv`) |
| `book_rewritten` | as above, 2 writes | **violated** `TextIsText` |
| `book_exth` | one EXTH value of 1 byte | **violated** `ExthAligned` |
| `book_text_end` | one write without images | **violated** `TextEndNamed` |
| `exth_records` | 3 calls of `Add`, over tags of each type and one unknown, and integers in and out of range, strings, a slice and another type; 1 pair of images, 2 writes | `ReadBack`, `ValuesKept`, and the inductive invariant (`ExthIndInv`) |

Why the bounds are enough. With a limit of 3 bytes the chunks of `html_records`
end at the limit or one, two or three bytes past it, as they do at 4096, and
texts give no chunk, fewer chunks than workers, and up to four, so a worker
receives again while another still works. In `palmdoc` the longer texts are
searched a second time after a match, and matches are near, far, beyond the
window, overlapping, and cut at `MaxChunk`; the bytes of its short texts are the
borders of the ranges (0, 8, 9, space, 64, 127, 128). Three chapters and two
contents chapters fill arrays of 1, 2 and 4 and leave three behind. In `index`
the first position in the text is the last that takes three bytes and the later
ones take four, and the places of the labels take two from the third on; with a
word of 256 the offsets wrap in some books and not in others. In
`mobi_reader` the word is 256 instead of 65536, so that the offset of record 0
wraps in some second writes (22 records and more, as with 8182 in the program)
and not in others; the place of IDXT passes it in the index with long entries.
With a title of 9769 bytes the headers fit in some files and not in others, and
exactly in a first write with a cover; with one of 10383 they never do, and the
table of a second file leads to an index other than the one it means. Indexes of
one entry are books with nothing but their contents, and the writer's failures
cut the file at each end of a record or part, one byte before it, and inside the
table of offsets.

Fairness. `HtmlRecords` assumes that the Go scheduler runs the main goroutine
and each worker when they can run (weak fairness of each), and nothing of the
caller of `SetCompressionStrategy`. `Palmdoc` is sequential and takes its next
step. The safety properties need none, and the other modules have none.

### What the violated runs say

* `html_text_invalid`: `TextLength` is taken from the HTML buffer
  (`writer.go:156`); an invalid byte then becomes three bytes, so `pdh.go:19` is
  not met for such a text.
* `palmdoc_test`: the resolvers agree on *a* longest match only among starts
  three bytes before the position; the tree also uses nearer, overlapping ones.
  Both outputs decode to the same text (`Restored`), but are not the equal bytes
  the test compares.
* `chapters_lost`: README-style code that keeps `ch1`, calls `NewChapter` again
  and then `ch1.AddSubChapter(...)` loses the sub-chapter when the slice has
  moved. `HandlesAttached` says exactly what is kept.
* `book_rewritten`: a builder written twice counts the first file as text.
  `TextIsTextOnce` holds for one write, and the numbers of index, trailer and
  covers stay right (`NumbersName`, `CoversFound`).
* `book_exth`: the padding is the remainder, not its complement.
* `index_damaged`: `Parse` returns nil for a file that ends after `INDX1`, and
  has read no entry. `CutsOfIndex` and `CutsOfBook` say for every cut what
  happens: an error up to the end of `INDX1` (but for a cut inside the MOBI
  header, which reads as a header of zeros, without index), then nil, then, when
  the table of offsets of `INDX2` is cut and has more than one, a panic, and nil
  from its end on.
* `book_text_end`: neither number that tells where the content ends is what
  `header.go` says. `FirstNonBookIndex` is the record *after* the first that is
  not text (`FirstNotText`): the two zero bytes of `writer.go:163` come before
  it, where `header.go:20` says that it is the first. Without images
  `LastContentRecordNumber` is the record of labels behind the index
  (`LastContentNamed`), where `header.go:44` speaks of the last text record. One
  book refutes both, so the run checks their disjunction.

Further differences between code and comments that the models show without a
run of their own: parents' index entries are labelled with the number after
their last child (`writer.go:371-373`), the others with their own
(`LabelsAreNumbers`). `parseIndexRecord` skips a byte behind the label
(`reader.go:169`) that `generateINDX1` does not write (`writer_indx.go:83`), so
the `NCXCount` it keeps is the low byte of the count and the byte after it, not
the "Number of IndxEntries" of `cncx.go:6` (`CncxCount`); nothing in the package
uses it. The table of offsets is wrong, and no error is returned,
when the headers do not fit or from 8182 records on (`OffsetsTrue`). A failing
`Write` that took bytes is not counted, so the count may be too small, never
too large (`NeverOverstated`). A writer that fails once in the headers and
recovers gets a damaged file and a nil error; only lasting failures are
reported (`FailureReported`).

What a reader finds of a second `WriteTo` (`RewrittenTail`): the offsets of the
first stay in the table, so the entries of the second are the last it finds,
and those before them are read from bytes that are not theirs; when the first
book had no chapter but its contents, two equal offsets follow each other and
`parsePtagx` panics. `IndexFound` says the same of the whole file: the reader
gets to the index exactly when the headers fit, and panics there exactly for such
a book (`ContentsRewritten`), as long as no offset has wrapped. Offsets that wrap are not noticed by anyone
(`EntriesRead`). A value for a string tag that is neither string nor `[]byte`
is written as an empty record without a panic, an integer outside `uint32` as
another integer, and a `[]byte` as it is when `WriteTo` is called
(`ValuesKept`).

## Proofs

All theorems hold for every value of the constants that meets the named
assumptions of the modules; nothing else is assumed. Eight of them have a
hypothesis on the state, which is a width in the format, as said below. A
property is seldom inductive: each module has an inductive invariant in named
parts, checked by TLC in the run of the module and proved in `Invariance`, one
lemma or step per action; the properties follow from it.

What the recursive functions of the models compute is proved by the argument of
the least number for which it fails (`LeastNatural`, `Induction` of
**SequenceLemmas**): the library's induction takes an operator as a parameter,
which the provers cannot instantiate, while a set of numbers is within their
reach. So the module shows that a sum is that of the beginning plus the next
element (`SumSteps`), and where in a flattened sequence the elements of each
part are (`FlattenPlaces`). That a recursive function has the values
its definition says is `Recursion`.

**HtmlRecordsProofs**: any finite non-empty set of workers, any positive limit,
any texts over characters of 1 to 4 bytes. That the slots are full when `Wait`
returns depends on the wait group counting the workers that run (`WaitGroup`),
on the channel being closed only after the last send (`MainAt`), and on every
index sent being with one worker or stored (`Handover`); that records have their
size depends on the chunks (`ChunksTile`). These parts are `ControlInv`;
`BytesInv` says that the length counted for a chunk is that of its characters.
From `Invariance` follow `TypeCorrect`, `NothingAppendedEarly`,
`NoChunkLostOrShared`, `SlotsWrittenOnce`, `RecordsHaveTheirSize`, `Refinement`
(initial states and steps map to those of OrderedRecords) and `TextIsMeasured`:
the records hold as many bytes as the header says exactly when the HTML is as
long as what `WriteRune` makes of it. For text that is not valid UTF-8 they do
not, which `html_text_invalid` shows.

**PalmdocProofs**: any records of bytes whose last byte is less than their
length, any window from 1 to 2047 and any chunk length from 3 to 10, so the
program's 2047 and 10 are covered. `CodecInv` says that every element stands for
a stretch of the data and the stretches follow each other (`StreamOK`), that a
match found is a match within the window and the search in bounds
(`CompressorOK`), and that the reader's text plus the reference it copies reaches
to the end of the last element read (`ReaderOK`). The core is `FirstByteDecides`
(the first byte of an element tells its kind, hence its length) and `PairDecodes`
(offset and length come back from two bytes). From it follow `TypeCorrect`,
`Lossless`, `RoundTrip`, `CutWithoutMarks` and `NoPanic`. `SearchOK` says of each
resolver that no position compared so far (`Compared`) has a better match than
the best; when nothing is left to compare that is `FindsLongest`.

**BytesProofs**: `RoundTrip` says that `vwiDec` undoes `vwiEncInt` whatever bytes
follow and takes exactly its bytes, which is what lets the values of an index
entry stand side by side; for every integer that the decoder's width holds. That
`Digits` has one value for each number, and what its length is, is by strong
induction (`DigitsAre`). Of the bytes the last alone has its top bit set
(`Encoded`), so the decoder stops there (`ConsumedAll`), and after each of its
rounds it holds the digits read so far (`ReadsDigits`). `NumberBytes` says the
same of numbers of two and four bytes.

**ChaptersProofs**: any sizes, any number of chapters, sub-chapters and calls
of `WriteTo`. `HandlesInv`: each handle points into an array of its own time,
in which all that was added through it stands, and the newest array, which is
the book, has the beginning of that. `IdsInv`: numbers rise along the book and
stay below the counter, which `generateCNCX` resets and then counts up again to
the number of entries, that is, of pieces; this is why the next chapter gets a
new number. `LinksInv`, `HtmlInv`: links and positions. `EntriesInv`: the
entries made so far are those of the first chapters and then of the first
sub-chapters, and the next parent's first child is known from the chapters
before it (`ChildrenBefore`). From these follow `HandlesStayAttached`,
`AnchorsUnique`, `LinksLead`, `IndexCoversText`, `TreeIsConsistent` and
`LabelsCount`.

**IndexProofs**: any common length of the titles, any width of IDXT of one or two bytes
(`Word` from 256 to 65536), any chapters, any number of calls of `WriteTo`. Each step of
`IndexReader` is a step of Chapters or leaves its variables alone, so
`ReaderSpec` implements Chapters (`IndexImplementsChapters`) and the six
properties hold in the specification that the run `index` checks
(`ChaptersOfIndex`). `IndexInvariance` is the invariant of the bytes. That the
records are bytes (`IndexTypeOK`) is not inductive: `generateINDX1` takes a slice
of the entries at an offset it reads back from IDXT, and the slice is of bytes
only while it stays in the buffer. So `BuffersInv` says that `cncxBuffer` is the
entries one after another and the end of `Idxt.Offset` the place of each, in its
uint16; then the slice begins at the last entry,
whose first byte is the length of its label, or, where the offset has wrapped, at
least `Word` bytes before it (`PlaceAgain`), and so ends inside the buffer
(`LastLabelType`). `RecordsInv` says
that there is a chapter in every index (the contents), that INDX1 and INDX2 are
those of the entries, and that what a reader found is what `Parse` finds in the
beginning of the file it was given. Under it lie the layouts, byte by byte:
`EntryShape`, `HeaderShape`, `TagxShape`, `FirstShape`, `SecondShape`; every
section ends inside the file (`SectionsInside`).

What the reader makes of these bytes is proved from the layouts. `FirstRead` and
`SecondRead` say of each record what `parseIndexRecord` finds in it when the file
ends anywhere inside: a field that is cut reads as 0, a magic word that is cut is
none, and a record is refused exactly when the file ends before its `IDXT` does.
From them follows `CutsAreRead` (`CutsOfIndex`): an error for INDX1, nothing said
for INDX2, and a panic when the table behind its `IDXT` is cut.
Of a file that is whole `parsePtagx` goes along the tags of TAGX, and takes a
value for each that the control byte announces: `ParseWalk` follows it with a
count of the values taken so far, `TagBits` says which tags each kind of entry
announces, and `RoundTrip` that each value is taken with its own bytes and no
other (`EntryParsed`). `TruePlaces` says that the offsets of a `WriteTo` in which
none wraps are the places of its entries. So the entries of the last `WriteTo` are
the last that are found, whatever is in the table before them, unless two equal
offsets precede them (`TailIsRead`). From it follow `EntriesAreRead`, for a book
written once, and `RewrittenIsRead`, for one written twice. The latter needs to
know what the first `WriteTo` left in the table: `TableInv` says that those
offsets rise from 192, which is an invariant as long as no offset wraps in either
index (the run `index` reaches states in which one has, so it is no invariant there); so they are distinct, and the next one, 192 again, is another than the last
of them, unless that was the only one.

These three have hypotheses on the state, each of them a width of a field: the
file is shorter than 2^32 bytes (`FileFits`), an entry and the header fit in
`Word` (`EntriesFit`), a label has its length in a byte (`LabelsFit`), a value is
a uint32 (`ValuesFit`), and no offset has wrapped (`NoOffsetWrapped`; in
`RewrittenIsRead` in no state so far, as the first index is gone when the second
is read). All but the last hold in every state with entries of the run `index`;
files whose offsets have wrapped and files whose offsets have not are both read
there.

**BookFileProofs**: any lengths of the parts, any word, reserve, number of
images and of EXTH records, any calls and any pattern of failing writes.
`ImagesInv`, `RecordsInv` and `NumbersInv` follow the records and the numbers of
them that the headers hold; `OutInv` the two counts of bytes and what is known of
a failure; `HeadersInv` and `PlacesInv` where each part of the headers and each
record is in the file and what the table says of it. These are `FileInv`, which
is inductive by itself; `TablesInv` adds what is in the tables of offsets: each is
a beginning of the latest, the next index has begun with the offset 192, and
while none has wrapped two neighbours are equal only where the first table ended
with its only entry. From these follow
`CoversAreFound`, `TextStaysText`, `FailuresAreReported`, `CountIsNotOverstated`,
`NameIsFound`, `CountIsTheFile`, and `OffsetsAreTrue`, in both directions: the
table is right exactly when the headers fit and the first offset does not wrap.
`NumbersAreNames` (the index, the last image, the trailer) has the hypothesis
that there are at most `Word` records, because the number of the last content
record is a uint16.

The reader of that file is proved about in the same module. `ReaderLeavesFile`:
`MobiReader` implements `BookFile`. `ReaderCorrect`: `ReaderIndInv` holds.
`IndexIsFound`: the index is found exactly when the headers fit, and reading it
panics exactly for contents written again; `CutsAreNoticed`: what becomes of every
cut, at whatever byte. Two records of the index never begin at the same place
(`IndexPlaces`), so the table leads to one of them at most, and while the headers
fit to the one it means (`FoundOnce`, `FoundHere`); behind INDX1 a reader then
meets INDX2 and goes no further (`IndexPanics`), and `TablesInv` says which of its
offsets are equal (`EmptyEntries`). Both theorems are for fewer than `Word`
records, because `parsePdf` reads their number as a uint16.

**ExthRecordsProofs**: any calls, slices and contents of one length, any number
of images and calls of `WriteTo`, numbers up to 32 bits. `ExthIndInv`: every
record has the length it announces although the caller may change its slice
(`LengthsTrue`), every call that returned finds its record (`GivenHeld`), and the
file is the last that was written (`FileHeld`). The core is that numbers come
back from their four bytes (`NumberBytes`), that every record of `initExth` is
behind the lengths of those before it (`LaidOut`), and that the reader, going from
each length to the next, comes to the same places (`PlacesAre`). From these follow
`RecordsAreRead` and `ValuesAreKept`, for headers shorter than 2^32 bytes
(`Len(stream) < Uint32`): the length of a longer one does not fit its field.

Only model-checked: liveness (`Terminates`, and the fairness part of
`ImplementsOrdered`), which the prover does not handle; and that a reader does not
find the entries when an offset has wrapped, the converse in `EntriesRead`: it
depends on what happens to stand at the place where it reads instead.
The violated runs are counterexamples and need no proof.


## Not modelled

Bounds of the models: numbers of four bytes have their 32 bits, and `Uint32` is
a constant of at most 2^32, which the runs set to 2^24 because TLC counts in 32
bits. `ParseCrashes` looks only at
files to whose EXTH records the caller has added none since. `generateINDX1`
takes its slice of the entries at the wrapped offset, which differs from the
true place only from 65536 bytes of entries on, more than the runs write. Of a
file the reader is given it is
assumed that no text looks like a record of the index. `Parse` is called once
on a Reader: it does not go back to the start, and what a second call reads
depends on bytes that are not in the models. Files of other programs, with
tags of several values, encryption, ORDT or LIGT sections, are outside: the
reader's ways for these are taken by no file the package writes.

Left out for good: fixed fields of headers, FLIS and FCIS
(constants), the database name and the time, reading image files (`AddCover`
panics when it cannot), logging, benchmarks, and the HuffCdic mode, which the
code announces in the header and does not implement (it stores plain text, as
`MakeHTMLRecord` has it for every mode but PalmDoc).

## Plan

Done: all modules above with their runs, and the proofs above. Left is
a reader that is asked to `Parse` twice, which needs the bytes behind the index.
