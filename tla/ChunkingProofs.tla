--------------------------- MODULE ChunkingProofs ---------------------------
(***************************************************************************)
(* The chunks of a document, for documents of any length, any sizes that   *)
(* fit together, and any answers of the embedding service: no character is *)
(* lost, a chunk is what it says it is, keeps to its size and its place,   *)
(* and front matter ends.                                                  *)
(***************************************************************************)
EXTENDS Chunking, FiniteSetTheorems, SequenceTheorems, WellFoundedInduction, TLAPS

-----------------------------------------------------------------------------
(* The inductive invariant, in parts.                                      *)

CellType == [page : Nat, at : Nat, char : Chars]
PageType == [number : Nat, section : Sections, start : Nat, heading : Headings]
SpanType == [page : Nat, start : Nat, end : Nat, heading : Headings]
ChunkType == [index : Nat, content : Seq(CellType), start : Nat, end : Nat,
              pages : SUBSET Nat, section : Sections, heading : Headings]

TypeInv ==
    /\ book \in Books
    /\ pc \in {"prepare", "group", "cut", "embed", "done", "failed"}
    /\ next \in Nat \ {0} /\ front \in Nat /\ offset \in Nat
    /\ section \in Sections \cup {"unknown"} /\ heading \in Headings
    /\ pages \in Seq(PageType)
    /\ text \in Seq(CellType) /\ spans \in Seq(SpanType)
    /\ base \in Nat /\ first \in Nat /\ local \in Nat /\ start \in Nat
    /\ chunks \in Seq(ChunkType) /\ skipped \in BOOLEAN
    /\ vectors \in Seq(Nat)

Empty(n) == Blank(book.pages[n].text)
\* The pages that have been prepared.
Read == IF pc = "prepare" THEN next - 1 ELSE Len(book.pages)

\* The prepared pages are those that are not blank, in their order.
PagesInv ==
    /\ pc = "prepare" => book.pdf /\ next <= Len(book.pages) + 1
    /\ ~book.pdf => pages = <<>>
    /\ \A k \in DOMAIN pages : pages[k].number \in 1 .. Read /\ ~Empty(pages[k].number)
    /\ \A j, k \in DOMAIN pages : j < k => pages[j].number < pages[k].number
    /\ book.pdf => \A n \in 1 .. Read : ~Empty(n) => \E k \in DOMAIN pages : pages[k].number = n

\* The page was taken for front matter because the one before it was.
Implied(k) == pages[k].section \in Front /\ book.pages[pages[k].number].class \notin Front

FrontInv ==
    /\ FrontMatterBounded
    /\ pc = "prepare" =>
        /\ section \in Front => front > 0
        /\ \A i \in DOMAIN pages :
              (\A k \in i .. Len(pages) : Implied(k)) =>
                  section \in Front /\ front >= Len(pages) - i + 2

\* Where a page is, and what lies between it and the place where the next may be.
PlaceInv ==
    /\ \A k \in DOMAIN pages : pages[k].start = Place[pages[k].number]
    /\ \A k \in DOMAIN pages : k < Len(pages) =>
        /\ pages[k + 1].start >= pages[k].start + Passed(book.pages[pages[k].number])
        /\ pages[k + 1].start # pages[k].start + Passed(book.pages[pages[k].number]) =>
              \E n \in pages[k].number .. pages[k + 1].number : Empty(n)
    /\ pc = "prepare" =>
        /\ next <= Len(book.pages) => offset = Place[next]
        /\ pages # <<>> =>
            LET last == pages[Len(pages)]
            IN  /\ offset >= last.start + Passed(book.pages[last.number])
                /\ offset # last.start + Passed(book.pages[last.number]) =>
                      \E n \in last.number .. next - 1 : Empty(n)

\* The titles carried along, and those given to a page, are those last shown.
Kinds == {"chapter", "section"}
TitledPages ==
    \A k \in DOMAIN pages :
        IF pages[k].section = "body"
        THEN \A kind \in Kinds : pages[k].heading[kind] = Shown(kind, pages[k].number)
        ELSE pages[k].heading = NoHeading
HeadingInv ==
    /\ pc = "prepare" => \A kind \in Kinds : heading[kind] = Shown(kind, next - 1)
    /\ TitledPages

\* The first page of the group, less one; the page of a span.
Before == next - 1 - Len(spans)
SpanPage(k) == pages[Before + k]

\* A span is that of its page, and comes right after the one before it; it is at its
\* page's place in the document, or before it by the blank pages of the group.
SpanIsRight(k) ==
    /\ spans[k].page = SpanPage(k).number /\ spans[k].heading = SpanPage(k).heading
    /\ SpanPage(k).section = GroupSection
    /\ spans[k].end = spans[k].start + Len(book.pages[spans[k].page].text)
    /\ spans[k].end <= Len(text)
    /\ k < Len(spans) => spans[k + 1].start = spans[k].end + 2
    /\ \A j \in 1 .. k - 1 : spans[j].end + 2 <= spans[k].start
    /\ base + spans[k].start <= SpanPage(k).start
    /\ base + spans[k].start < SpanPage(k).start =>
          \E n \in SpanPage(1).number .. SpanPage(k).number : Empty(n)

\* The text of a group is that of its pages with two newlines between them.
GroupInv ==
    /\ pc = "cut" => text # <<>>
    /\ text = <<>> => spans = <<>>
    /\ pc \notin {"group", "cut"} => text = <<>>
    /\ book.pdf /\ pc \in {"group", "cut"} =>
        /\ next <= Len(pages) + 1 /\ Before >= 0
        /\ text # <<>> => /\ spans # <<>> /\ base = SpanPage(1).start
                          /\ spans[1].start = 0 /\ spans[Len(spans)].end = Len(text)
        /\ \A k \in DOMAIN spans : SpanIsRight(k)
    /\ ~book.pdf => spans = <<>> /\ base = 0 /\ (text # <<>> => text = Cells(1))

\* Every cell of the text is of the page of its span, or between two.
InSpan(k, q) == spans[k].start < q /\ q <= spans[k].end
CellIsRight(q) ==
    \/ text[q] = Cell(0, 0, "n") /\ \A k \in DOMAIN spans : ~InSpan(k, q)
    \/ \E k \in DOMAIN spans :
          InSpan(k, q) /\ text[q] = Cells(spans[k].page)[q - spans[k].start]
CellInv == book.pdf => \A q \in DOMAIN text : CellIsRight(q)

Covered(cell) == \E i \in DOMAIN chunks : cell \in Contents(chunks[i])
PageCovered(n) ==
    \A i \in DOMAIN book.pages[n].text : Cells(n)[i].char \notin Blanks => Covered(Cells(n)[i])

\* Everything before the text and before the next cut has been stored.
CoverInv ==
    /\ pc \in {"embed", "done", "failed"} => \A n \in DOMAIN book.pages : PageCovered(n)
    /\ pc \in {"group", "cut"} /\ book.pdf => \A k \in 1 .. Before : PageCovered(pages[k].number)
    /\ pc = "group" /\ ~book.pdf =>
          (IF next = 1 THEN text = <<>> ELSE next = 2 /\ text = <<>> /\ PageCovered(1))
    /\ pc = "cut" => \A q \in 1 .. start : text[q].char \notin Blanks => Covered(text[q])

\* How far a chunk has come. The end of one whose text reaches beyond the next start is
\* one of the characters that the next span holds.
LiesBehind(from, to) ==
    /\ \A q \in start + 1 .. Len(text) : text[q].char \notin Blanks => from <= base + q - 1
    /\ \/ to <= base + start
       \/ \E q \in start + 1 .. End : text[q].char \notin Blanks /\ to = base + q
IsBehind(i) ==
    IF book.pdf THEN LiesBehind(chunks[i].start, chunks[i].end)
    ELSE chunks[i].start <= start /\ chunks[i].end <= Smaller(start + PlainSize, Len(text))

\* The chunks are acceptable, and what is to come lies behind them.
ChunksInv ==
    /\ Acceptable
    /\ \A i \in DOMAIN chunks :
        chunks[i].start <= chunks[i].end /\ (~skipped => chunks[i].index = i - 1)
OrderInv ==
    /\ ChunksInv
    /\ pc = "prepare" => chunks = <<>>
    /\ pc = "group" /\ book.pdf => \A i \in DOMAIN chunks :
        IF text # <<>> THEN chunks[i].end <= base
        ELSE next <= Len(pages) => chunks[i].end <= pages[next].start
    /\ pc = "group" /\ ~book.pdf => next = 2 \/ chunks = <<>>
    /\ pc = "cut" => /\ start < Len(text) /\ (~book.pdf => next = 2)
                     /\ ~skipped => first + local = Len(chunks)
                     /\ \A i \in DOMAIN chunks : IsBehind(i)

\* SourcesAreTrue in its parts: the rows, and what a chunk of a PDF says of itself.
RowIsTrue(i) ==
    LET above == stored[i].parent IN
    /\ above # 0 => /\ above < i /\ stored[above].parent = 0
                    /\ chunks[above].heading = chunks[i].heading
                    /\ chunks[above].section = chunks[i].section
    /\ stored[i].method # "mixed" =>
          \A n \in chunks[i].pages : book.pages[n].method = stored[i].method
OffsetsAreTrue(c, head, tail) ==
    /\ c.start <= Origin(head) /\ c.end <= Origin(tail) + 1
    /\ c.start < Origin(head) => BlankBefore(head.page)
    /\ c.end = c.start + Len(c.content)
ChunkIsTrue(c) ==
    /\ c.pages = {cell.page : cell \in Contents(c)} \ {0}
    /\ \A n \in c.pages : pages[PageOf(n)].section = c.section
    /\ c.heading = IF c.section = "body" THEN Titles(c.pages) ELSE NoHeading
    /\ OffsetsAreTrue(c, c.content[1], c.content[Len(c.content)])
SourcesInv ==
    /\ \A i \in DOMAIN vectors : vectors[i] = i
    /\ pc # "done" => stored = <<>>
    /\ \A i \in DOMAIN stored : RowIsTrue(i)
    /\ \A i \in DOMAIN chunks :
          IF book.pdf THEN ChunkIsTrue(chunks[i]) /\ chunks[i].pages \subseteq DOMAIN book.pages
          ELSE chunks[i].pages = {}

IInv ==
    /\ TypeInv /\ PagesInv /\ FrontInv /\ PlaceInv /\ HeadingInv
    /\ GroupInv /\ CellInv /\ CoverInv /\ OrderInv /\ SourcesInv

-----------------------------------------------------------------------------
(* Lemmas.                                                                 *)

\* A set of numbers has a least one.
LEMMA LeastNat ==
    ASSUME NEW S \in SUBSET Nat, S # {}
    PROVE  \E x \in S : \A y \in S : x <= y
<1>1. IsWellFoundedOn(OpToRel(<, Nat), Nat)
  BY NatLessThanWellFounded
<1>2. PICK x \in S : \A y \in S : ~(<<y, x>> \in OpToRel(<, Nat))
  BY <1>1, WFMin, Zenon
<1>3. \A y \in S : ~(y < x)
  BY <1>2 DEF OpToRel
<1> QED
  BY <1>3

\* What Min and Max choose, for sets where there is something to choose.
LEMMA MinFacts ==
    ASSUME NEW S \in SUBSET Nat, S # {}
    PROVE  Min(S) \in S /\ \A y \in S : Min(S) <= y
<1>1. \E x \in S : \A y \in S : x =< y
  BY LeastNat
<1> QED
  BY <1>1 DEF Min

LEMMA MaxFacts ==
    ASSUME NEW n \in Nat, NEW S \in SUBSET (0 .. n), S # {}
    PROVE  Max(S) \in S /\ \A y \in S : y <= Max(S)
<1> DEFINE T == {n - m : m \in S}
<1>1. T \in SUBSET Nat /\ T # {}
  <2>1. \A m \in S : n - m \in Nat
    OBVIOUS
  <2> QED
    BY <2>1
<1>2. PICK x \in T : \A y \in T : x <= y
  BY <1>1, LeastNat
<1>3. PICK m \in S : x = n - m
  OBVIOUS
<1>4. \A y \in S : m >= y
  BY <1>2, <1>3
<1> QED
  BY <1>4 DEF Max

\* A page's place is where the pages before it end.
LEMMA PlaceExists ==
    ASSUME NEW N \in Nat, NEW size \in [1 .. N -> Nat]
    PROVE  \E at \in [1 .. N -> Nat] :
              at = [n \in 1 .. N |-> IF n = 1 THEN 0 ELSE at[n - 1] + size[n - 1]]
<1> DEFINE Adds(at, m) ==
             \A n \in 1 .. m : at[n] = IF n = 1 THEN 0 ELSE at[n - 1] + size[n - 1]
           Has(m) == \E at \in [1 .. m -> Nat] : Adds(at, m)
           Bad == {m \in 0 .. N : ~Has(m)}
<1>1. Has(0)
  <2> DEFINE at == [n \in 1 .. 0 |-> 0]
  <2>1. at \in [1 .. 0 -> Nat]
    OBVIOUS
  <2>2. Adds(at, 0)
    OBVIOUS
  <2> HIDE DEF at
  <2> QED
    BY <2>1, <2>2
<1>2. ASSUME NEW m \in 1 .. N, Has(m - 1)
      PROVE  Has(m)
  <2>1. PICK at \in [1 .. m - 1 -> Nat] : Adds(at, m - 1)
    BY <1>2
  <2> DEFINE more == [n \in 1 .. m |-> IF n < m THEN at[n]
                                       ELSE IF m = 1 THEN 0 ELSE at[m - 1] + size[m - 1]]
  <2>2. more \in [1 .. m -> Nat]
    <3>1. m # 1 => at[m - 1] + size[m - 1] \in Nat
      OBVIOUS
    <3> QED
      BY <3>1
  <2>3. Adds(more, m)
    <3> SUFFICES ASSUME NEW n \in 1 .. m
                 PROVE  more[n] = IF n = 1 THEN 0 ELSE more[n - 1] + size[n - 1]
      OBVIOUS
    <3>1. CASE n < m
      BY <2>1, <3>1
    <3>2. CASE n = m
      BY <3>2
    <3> QED
      BY <3>1, <3>2
  <2> QED
    BY <2>2, <2>3
<1>3. Has(N)
  <2> HIDE DEF Has
  <2>1. Bad = {}
    <3> SUFFICES ASSUME Bad # {} PROVE FALSE
      OBVIOUS
    <3>0. Bad \in SUBSET Nat
      OBVIOUS
    <3>1. PICK m \in Bad : \A k \in Bad : m <= k
      <4> HIDE DEF Bad
      <4> QED
        BY <3>0, LeastNat
    <3>2. m \in 1 .. N /\ ~Has(m) /\ m - 1 \in 0 .. N
      BY <1>1, <3>1
    <3>3. m - 1 \notin Bad
      BY <3>1, <3>2
    <3> QED
      BY <1>2, <3>2, <3>3
  <2> QED
    BY <2>1
<1>4. PICK at \in [1 .. N -> Nat] : Adds(at, N)
  BY <1>3
<1>5. at = [n \in 1 .. N |-> IF n = 1 THEN 0 ELSE at[n - 1] + size[n - 1]]
  BY <1>4
<1> QED
  BY <1>5

\* What the assumptions say of the document.
LEMMA BookTypes ==
    ASSUME book \in Books
    PROVE  /\ book.pdf \in BOOLEAN /\ book.pages \in Seq(Leaf) /\ Len(book.pages) \in Nat
           /\ DOMAIN book.pages = 1 .. Len(book.pages)
           /\ \A n \in 1 .. Len(book.pages) :
                /\ book.pages[n] \in Leaf /\ book.pages[n].text \in Seq(Chars)
                /\ Len(book.pages[n].text) \in Nat
                /\ book.pages[n].class \in Sections
           /\ ~book.pdf => Len(book.pages) = 1
<1>1. book \in [pdf : BOOLEAN, pages : Seq(Leaf)] /\ (~book.pdf => Len(book.pages) = 1)
  BY BooksAssumption
<1>2. \A n \in 1 .. Len(book.pages) : book.pages[n] \in Leaf
  BY <1>1
<1>3. \A leaf \in Leaf : /\ leaf.text \in Seq(Chars) /\ Len(leaf.text) \in Nat
                         /\ leaf.class \in Sections
  BY DEF Leaf
<1> QED
  BY <1>1, <1>2, <1>3

\* How far a page passes the offset.
LEMMA PassedTypes ==
    ASSUME book \in Books, NEW n \in 1 .. Len(book.pages)
    PROVE  Passed(book.pages[n]) \in Nat
<1>1. Len(book.pages[n].text) \in Nat
  BY BookTypes
<1> QED
  BY <1>1 DEF Passed

\* The recursion of Place has a solution, and its values are places.
LEMMA PlaceFacts ==
    ASSUME book \in Books
    PROVE  /\ Place \in [1 .. Len(book.pages) -> Nat]
           /\ \A n \in 1 .. Len(book.pages) :
                Place[n] = IF n = 1 THEN 0 ELSE Place[n - 1] + Passed(book.pages[n - 1])
<1> DEFINE N == Len(book.pages)
           size == [n \in 1 .. N |-> Passed(book.pages[n])]
<1>1. N \in Nat /\ DOMAIN book.pages = 1 .. N /\ size \in [1 .. N -> Nat]
  BY BookTypes DEF Passed
<1>2. PICK at \in [1 .. N -> Nat] :
        at = [n \in 1 .. N |-> IF n = 1 THEN 0 ELSE at[n - 1] + size[n - 1]]
  <2> HIDE DEF N, size
  <2> QED
    BY <1>1, PlaceExists
<1>3. at = [n \in DOMAIN book.pages |-> IF n = 1 THEN 0 ELSE at[n - 1] + Passed(book.pages[n - 1])]
  BY <1>1, <1>2
<1>4. Place = [n \in DOMAIN book.pages |->
                 IF n = 1 THEN 0 ELSE Place[n - 1] + Passed(book.pages[n - 1])]
  BY <1>3, Zenon DEF Place, Passed
<1>5. DOMAIN Place = 1 .. N
  BY <1>1, <1>4
<1>6. \A n \in 1 .. N : Place[n] = IF n = 1 THEN 0 ELSE Place[n - 1] + Passed(book.pages[n - 1])
  BY <1>1, <1>4
<1> DEFINE Bad == {n \in 1 .. N : Place[n] \notin Nat}
<1>7. Bad = {}
  <2> SUFFICES ASSUME Bad # {} PROVE FALSE
    OBVIOUS
  <2>0. Bad \in SUBSET Nat
    OBVIOUS
  <2>1. PICK n \in Bad : \A k \in Bad : n <= k
    <3> HIDE DEF Bad
    <3> QED
      BY <2>0, LeastNat
  <2>2. n \in 1 .. N /\ Place[n] \notin Nat
    BY <2>1
  <2>3. n # 1 => n - 1 \in 1 .. N /\ Place[n - 1] \in Nat
    BY <2>1, <2>2
  <2>4. n # 1 => Passed(book.pages[n - 1]) \in Nat
    BY <1>1, <2>3
  <2> QED
    BY <1>6, <2>2, <2>3, <2>4
<1> QED
  BY <1>4, <1>5, <1>6, <1>7, <1>1

-----------------------------------------------------------------------------
(* The cuts.                                                               *)

Cutting == text \in Seq(CellType) /\ start \in Nat /\ start < Len(text)

\* The end of a span is behind its start, and is the end of the text or not far from the
\* size away.
EndIsNear ==
    /\ End \in start + 1 .. Len(text) /\ End <= start + Size + Least - 1
    /\ End < Len(text) => start + Size - Window <= End /\ End <= start + Size

\* The end that _adjust_chunk_end finds, wherever the boundaries are.
LEMMA EndFacts == Cutting => EndIsNear
<1> SUFFICES ASSUME Cutting PROVE EndIsNear
  OBVIOUS
<1>1. Len(text) \in Nat /\ start \in Nat /\ start < Len(text)
  BY DEF Cutting
<1>2. /\ Target \in start + 1 .. Len(text) /\ Target <= start + Size + Least - 1
      /\ Target < Len(text) => Target = start + Size
  BY <1>1, SizesAssumption DEF Target, Smaller
<1>3. CASE Target = Len(text)
  BY <1>2, <1>3 DEF EndIsNear, End
<1> DEFINE near == {b \in DOMAIN Boundaries : Ends(Target, Boundaries[b]) # {}}
<1>4. CASE Target # Len(text) /\ near = {}
  BY <1>1, <1>2, <1>4, SizesAssumption DEF EndIsNear, End
<1>5. CASE Target # Len(text) /\ near # {}
  <2> DEFINE ends == Ends(Target, Boundaries[Min(near)])
  <2>1. near \in SUBSET Nat
    <3>1. DOMAIN Boundaries \subseteq Nat
      BY DEF Boundaries
    <3> QED
      BY <3>1
  <2>2. Min(near) \in near
    <3> HIDE DEF near
    <3> QED
      BY <1>5, <2>1, MinFacts
  <2>3. ends # {} /\ \A e \in ends : e \in Earliest(Target) + 2 .. Target
    BY <2>2 DEF Ends
  <2>4. Earliest(Target) \in Int /\ Earliest(Target) >= start + Least
        /\ Earliest(Target) >= Target - Window
    BY <1>1, <1>2, SizesAssumption DEF Earliest, Larger
  <2>5. Max(ends) \in ends
    <3> HIDE DEF ends
    <3>1. \A e \in ends : e \in 0 .. Target
      BY <1>1, <1>2, <2>3, <2>4, SizesAssumption
    <3>2. ends \in SUBSET (0 .. Target) /\ Target \in Nat
      BY <1>1, <1>2, <3>1
    <3> QED
      BY <2>3, <3>2, MaxFacts
  <2>6. End = Max(ends)
    BY <1>5 DEF End
  <2> HIDE DEF ends
  <2>7. End \in Earliest(Target) + 2 .. Target
    BY <2>3, <2>5, <2>6
  <2> QED
    BY <1>1, <1>2, <1>5, <2>4, <2>7, SizesAssumption DEF EndIsNear
<1> QED
  BY <1>3, <1>4, <1>5

\* The next span starts behind this start, and no later than this one ends.
LEMMA NextFacts ==
    ASSUME Cutting, End < Len(text)
    PROVE  /\ NextStart \in start + 1 .. End
           /\ NextStart >= End - Overlap /\ NextStart < Len(text)
<1>1. /\ Len(text) \in Nat /\ start \in Nat /\ End \in start + 1 .. Len(text)
      /\ start + Size - Window <= End
  BY EndFacts DEF Cutting, EndIsNear
<1> DEFINE target == Larger(0, End - Overlap)
<1>2. target \in 0 .. End /\ target >= End - Overlap /\ target > start
  BY <1>1, SizesAssumption DEF Larger
<1>3. target + Skip <= End
  BY <1>1, SizesAssumption DEF Larger
<1> HIDE DEF target
<1>4. AdjustStart(target) \in target .. End
  <2> DEFINE after == {i \in target + 1 .. Smaller(Len(text), target + Skip) : text[i].char \in Blanks}
  <2>1. CASE ~InWord(target) \/ after = {}
    BY <1>1, <1>2, <2>1 DEF AdjustStart
  <2>2. CASE InWord(target) /\ after # {}
    <3>1. after \in SUBSET Nat /\ \A i \in after : i \in target .. End
      BY <1>1, <1>2, <1>3, SizesAssumption DEF Smaller
    <3>2. AdjustStart(target) = Min(after)
      BY <2>2 DEF AdjustStart
    <3> HIDE DEF after
    <3> QED
      BY <2>2, <3>1, <3>2, MinFacts
  <2> QED
    BY <2>1, <2>2
<1>5. NextStart = AdjustStart(target)
  BY <1>1, <1>2, <1>4 DEF NextStart, target
<1>6. NextStart \in target .. End
  BY <1>4, <1>5
<1> HIDE DEF target
<1> QED
  BY <1>1, <1>2, <1>6, SizesAssumption

\* The ends do not go back.
LEMMA EndGrows ==
    ASSUME Cutting, End < Len(text), text' = text, start' = NextStart
    PROVE  Cutting' /\ End <= End' /\ EndIsNear'
<1>1. (Cutting => EndIsNear)'
  BY EndFacts, PTL
<1>2. Cutting'
  BY NextFacts, EndFacts DEF Cutting, EndIsNear
<1>3. EndIsNear'
  BY <1>1, <1>2
<1>4. /\ Len(text) \in Nat /\ NextStart \in Nat /\ NextStart >= End - Overlap
      /\ End \in Nat /\ End <= Len(text)
  BY NextFacts, EndFacts DEF Cutting, EndIsNear
<1>5. /\ End' \in start' + 1 .. Len(text)
      /\ End' < Len(text) => start' + Size - Window <= End'
  BY <1>3 DEF EndIsNear
<1> QED
  BY <1>2, <1>3, <1>4, <1>5, SizesAssumption

\* What remains of a span that is not blank.
Visible == {i \in start + 1 .. End : text[i].char \notin Blanks}
From == Min(Visible) - 1
To == Max(Visible)
NewChunk == Chunk(From, To, SpansOf(From, To), GroupSection)

\* A span that is not blank is trimmed to its first and its last visible character.
LEMMA VisibleFacts ==
    ASSUME Cutting, Visible # {}
    PROVE  /\ From \in start .. End /\ To \in From + 1 .. End
           /\ From + 1 \in Visible /\ To \in Visible
           /\ \A i \in Visible : From + 1 <= i /\ i <= To
<1>1. start \in Nat /\ End \in start + 1 .. Len(text) /\ Len(text) \in Nat
  BY EndFacts DEF Cutting, EndIsNear
<1>2. Visible \in SUBSET Nat /\ Visible \in SUBSET (0 .. End)
  <2>1. \A i \in Visible : i \in Nat /\ i \in 0 .. End
    BY <1>1 DEF Visible
  <2> QED
    BY <2>1
<1>3. /\ Min(Visible) \in Visible /\ \A y \in Visible : Min(Visible) <= y
      /\ Max(Visible) \in Visible /\ \A y \in Visible : y <= Max(Visible)
  <2>1. End \in Nat
    BY <1>1
  <2>2. Min(Visible) \in Visible /\ \A y \in Visible : Min(Visible) <= y
    BY <1>2, MinFacts
  <2>3. Max(Visible) \in Visible /\ \A y \in Visible : y <= Max(Visible)
    BY <1>2, <2>1, MaxFacts
  <2> QED
    BY <2>2, <2>3
<1>4. \A i \in Visible : i \in start + 1 .. End
  BY DEF Visible
<1> QED
  BY <1>1, <1>3, <1>4 DEF From, To

\* A span is cut into nothing or into one chunk.
LEMMA CutSpanSteps ==
    ASSUME CutSpan
    PROVE  /\ pc = "cut" /\ book.pdf
           /\ \/ Visible = {} /\ skipped' = TRUE /\ chunks' = chunks
              \/ Visible # {} /\ chunks' = Append(chunks, NewChunk) /\ skipped' = skipped
           /\ Advance(End, NextStart)
  BY DEF CutSpan, Visible, From, To, NewChunk

LEMMA IsCutting ==
    ASSUME TypeInv, OrderInv, pc = "cut"
    PROVE  Cutting
  BY DEF TypeInv, OrderInv, Cutting

\* The titles of a heading are titles.
LEMMA HeadingTypes ==
    /\ NoHeading \in Headings /\ DOMAIN NoHeading = {"chapter", "section"}
    /\ \A h \in Headings, kind \in DOMAIN NoHeading : h[kind] \in Names
  BY SizesAssumption DEF NoHeading, Headings

\* The headings that are looked for are titles of the lines.
LEMMA DetectedTypes ==
    ASSUME NEW page \in Leaf
    PROVE  Detected(page) \in Headings
<1>1. page.lines \in Seq(Headings)
  BY DEF Leaf
<1> SUFFICES ASSUME NEW kind \in DOMAIN NoHeading
             PROVE  LET named == {n \in 1 .. Smaller(HeadLines, Len(page.lines)) :
                                    page.lines[n][kind] # Untitled}
                    IN  (IF named = {} THEN Untitled ELSE page.lines[Max(named)][kind]) \in Names
  BY HeadingTypes DEF Detected, Headings
<1> DEFINE most == Smaller(HeadLines, Len(page.lines))
           named == {n \in 1 .. most : page.lines[n][kind] # Untitled}
<1>2. most \in Nat /\ most <= Len(page.lines)
  BY <1>1, SizesAssumption DEF Smaller
<1>3. named \in SUBSET (0 .. most) /\ named \subseteq 1 .. most
  <2> HIDE DEF most
  <2> QED
    BY <1>2
<1>4. CASE named = {}
  BY <1>4, SizesAssumption
<1>5. CASE named # {}
  <2>1. Max(named) \in 1 .. most
    <3> HIDE DEF named
    <3> QED
      BY <1>2, <1>3, <1>5, MaxFacts
  <2>2. page.lines[Max(named)] \in Headings
    <3> HIDE DEF named, most
    <3> QED
      BY <1>1, <1>2, <2>1
  <2> QED
    BY <1>5, <2>2, HeadingTypes
<1> QED
  BY <1>4, <1>5

\* So are those of a chunk.
LEMMA HeadingOfTypes ==
    ASSUME spans \in Seq(SpanType), NEW met, met \subseteq DOMAIN spans
    PROVE  HeadingOf(met) \in Headings
<1> SUFFICES ASSUME NEW kind \in DOMAIN NoHeading
             PROVE  LET titled == {k \in met : spans[k].heading[kind] # Untitled}
                    IN  (IF titled = {} THEN Untitled ELSE spans[Min(titled)].heading[kind]) \in Names
  BY HeadingTypes DEF HeadingOf, Headings
<1> DEFINE titled == {k \in met : spans[k].heading[kind] # Untitled}
<1>1. CASE titled = {}
  BY <1>1, SizesAssumption
<1>2. CASE titled # {}
  <2>1. titled \in SUBSET Nat
    BY DEF SpanType
  <2>2. Min(titled) \in titled
    <3> HIDE DEF titled
    <3> QED
      BY <1>2, <2>1, MinFacts
  <2>3. spans[Min(titled)].heading \in Headings
    <3>1. Min(titled) \in DOMAIN spans
      BY <2>2
    <3> HIDE DEF titled
    <3>2. spans[Min(titled)] \in SpanType
      BY <3>1
    <3> QED
      BY <3>2 DEF SpanType
  <2> QED
    BY <1>2, <2>3, HeadingTypes
<1> QED
  BY <1>1, <1>2

-----------------------------------------------------------------------------
(* The types.                                                              *)

\* The page that is prepared, as the loop leaves it.
Prepared(page) ==
    [number |-> next, section |-> Resolved(page), start |-> offset,
     heading |-> IF Resolved(page) = "body" THEN Continued(page) ELSE NoHeading]

\* What a page that is not blank adds.
LEMMA PreparePageSteps ==
    ASSUME PreparePage
    PROVE  LET page == book.pages[next]
           IN  /\ pc = "prepare" /\ next <= Len(book.pages) /\ ~Empty(next)
               /\ pages' = Append(pages, Prepared(page))
               /\ section' = Resolved(page)
               /\ heading' = IF Resolved(page) = "body" THEN Continued(page) ELSE heading
               /\ offset' = offset + Passed(page) /\ next' = next + 1
               /\ UNCHANGED <<book, pc, groupVars, cutVars, storeVars>>
<1> DEFINE page == book.pages[next]
<1>1. heading' = IF Resolved(page) = "body" THEN Continued(page) ELSE heading
  BY DEF PreparePage
<1>2. pages' = Append(pages, [number |-> next, section |-> Resolved(page), start |-> offset,
                    heading |-> IF Resolved(page) = "body" THEN heading' ELSE NoHeading])
  BY DEF PreparePage
<1>3. (IF Resolved(page) = "body" THEN heading' ELSE NoHeading)
        = (IF Resolved(page) = "body" THEN Continued(page) ELSE NoHeading)
  BY <1>1
<1>4. pages' = Append(pages, Prepared(page))
  BY <1>2, <1>3 DEF Prepared
<1> QED
  BY <1>1, <1>4 DEF PreparePage, Empty

LEMMA PreparedTypes ==
    ASSUME TypeInv, PreparePage
    PROVE  LET page == book.pages[next]
           IN  /\ page \in Leaf /\ next \in 1 .. Len(book.pages)
               /\ Resolved(page) \in Sections /\ Continued(page) \in Headings
               /\ Prepared(page) \in PageType
<1> DEFINE page == book.pages[next]
<1>1. next \in 1 .. Len(book.pages) /\ page \in Leaf /\ page.class \in Sections
  BY BookTypes, PreparePageSteps DEF TypeInv
<1>2. Resolved(page) \in Sections
  BY <1>1 DEF Resolved, TypeInv, Sections, NonBody
<1>3. Continued(page) \in Headings
  <2>1. Detected(page) \in Headings
    BY <1>1, DetectedTypes
  <2> HIDE DEF page
  <2> QED
    BY <2>1, HeadingTypes DEF Continued, Headings, TypeInv
<1>4. Prepared(page) \in PageType
  <2> HIDE DEF page
  <2> QED
    BY <1>2, <1>3, HeadingTypes DEF Prepared, PageType, TypeInv
<1> QED
  BY <1>1, <1>2, <1>3, <1>4

\* The cells of a page, and those that join two.
LEMMA CellsTypes ==
    ASSUME book \in Books, NEW n \in 1 .. Len(book.pages)
    PROVE  /\ Cells(n) \in Seq(CellType) /\ Len(Cells(n)) = Len(book.pages[n].text)
           /\ \A i \in 1 .. Len(Cells(n)) : Cells(n)[i] = Cell(n, i, book.pages[n].text[i])
<1> DEFINE t == book.pages[n].text
<1>1. t \in Seq(Chars) /\ Len(t) \in Nat /\ DOMAIN t = 1 .. Len(t) /\ n \in Nat
  BY BookTypes
<1>2. Cells(n) = [i \in 1 .. Len(t) |-> Cell(n, i, t[i])]
  BY <1>1 DEF Cells
<1>3. \A i \in 1 .. Len(t) : Cell(n, i, t[i]) \in CellType
  <2> HIDE DEF t
  <2> QED
    BY <1>1 DEF Cell, CellType
<1> HIDE DEF t
<1> QED
  BY <1>1, <1>2, <1>3 DEF t

LEMMA JointTypes == Joint \in Seq(CellType) /\ Len(Joint) = 2 /\ Joint[1] = Cell(0, 0, "n")
                    /\ Joint[2] = Cell(0, 0, "n")
<1>1. Cell(0, 0, "n") \in CellType
  BY DEF Cell, CellType, Chars
<1> QED
  BY <1>1 DEF Joint

\* The pages of the spans of a group are prepared pages of one section type.
LEMMA SpanPages ==
    ASSUME TypeInv, PagesInv, GroupInv, book.pdf, pc \in {"group", "cut"}
    PROVE  /\ \A k \in DOMAIN spans : Before + k \in 1 .. Len(pages) /\ SpanPage(k) \in PageType
           /\ \A k \in DOMAIN spans : spans[k].page \in 1 .. Len(book.pages)
           /\ spans # <<>> => next - 1 \in 1 .. Len(pages) /\ GroupSection \in Sections
<1>1. /\ spans \in Seq(SpanType) /\ pages \in Seq(PageType) /\ next \in Nat
      /\ next <= Len(pages) + 1 /\ Before >= 0 /\ Len(spans) \in Nat /\ Len(pages) \in Nat
  BY DEF TypeInv, GroupInv
<1>2. \A k \in DOMAIN spans : Before + k \in 1 .. Len(pages)
  BY <1>1 DEF Before
<1>3. \A k \in DOMAIN spans : SpanPage(k) \in PageType /\ spans[k].page = SpanPage(k).number
  BY <1>1, <1>2 DEF SpanPage, GroupInv, SpanIsRight
<1>4. \A k \in DOMAIN spans : SpanPage(k).number \in 1 .. Len(book.pages)
  BY <1>1, <1>2 DEF SpanPage, PagesInv, Read
<1>5. spans # <<>> => next - 1 \in 1 .. Len(pages)
  BY <1>1 DEF Before
<1>6. spans # <<>> => GroupSection \in Sections
  <2>1. spans # <<>> => pages[next - 1] \in PageType
    BY <1>1, <1>5
  <2> QED
    BY <2>1 DEF GroupSection, PageType
<1> QED
  BY <1>2, <1>3, <1>4, <1>5, <1>6

\* What a span is cut into.
LEMMA NewChunkTypes ==
    ASSUME TypeInv, PagesInv, GroupInv, OrderInv, CutSpan, Visible # {}
    PROVE  /\ NewChunk \in ChunkType
           /\ NewChunk.index = first + local
           /\ NewChunk.start = base + From /\ NewChunk.end = base + To
           /\ NewChunk.pages = {spans[k].page : k \in SpansOf(From, To)}
           /\ NewChunk.section = GroupSection /\ NewChunk.heading = HeadingOf(SpansOf(From, To))
           /\ NewChunk.content \in Seq(CellType) /\ Len(NewChunk.content) = To - From
           /\ \A i \in 1 .. To - From : NewChunk.content[i] = text[From + i]
<1>1. Cutting /\ pc = "cut" /\ book.pdf
  BY IsCutting, CutSpanSteps
<1>2. /\ text \in Seq(CellType) /\ Len(text) \in Nat /\ start \in Nat
      /\ End \in start + 1 .. Len(text) /\ From \in start .. End /\ To \in From + 1 .. End
  BY <1>1, VisibleFacts, EndFacts DEF Cutting, EndIsNear
<1> DEFINE content == SubSeq(text, From + 1, To)
<1>3. From + 1 \in 1 .. Len(text) /\ To \in 1 .. Len(text) /\ From \in Nat /\ To - From \in Nat
  BY <1>2
<1>4. /\ content \in Seq(CellType) /\ Len(content) = To - From
      /\ \A i \in 1 .. To - From : content[i] = text[From + i]
  BY <1>2, <1>3
<1>5. SpansOf(From, To) \subseteq DOMAIN spans
  BY DEF SpansOf
<1>6. {spans[k].page : k \in SpansOf(From, To)} \in SUBSET Nat
  <2>1. \A k \in DOMAIN spans : spans[k] \in SpanType
    BY DEF TypeInv
  <2>2. \A k \in DOMAIN spans : spans[k].page \in Nat
    BY <2>1 DEF SpanType
  <2> QED
    BY <1>5, <2>2
<1>7. HeadingOf(SpansOf(From, To)) \in Headings
  BY <1>5, HeadingOfTypes DEF TypeInv
<1>8. GroupSection \in Sections
  BY <1>1, SpanPages DEF GroupInv
<1> HIDE DEF content
<1>9. NewChunk = [index |-> first + local, content |-> content, start |-> base + From,
                  end |-> base + To, pages |-> {spans[k].page : k \in SpansOf(From, To)},
                  section |-> GroupSection, heading |-> HeadingOf(SpansOf(From, To))]
  BY DEF NewChunk, Chunk, content
<1> QED
  BY <1>2, <1>3, <1>4, <1>6, <1>7, <1>8, <1>9 DEF ChunkType, TypeInv

-----------------------------------------------------------------------------
(* The order of an answer.                                                 *)

\* Whatever order a batch is answered in, its vectors are put in that of the texts.
LEMMA OrderedIsSent ==
    ASSUME NEW size \in Nat, NEW rows \in Responses(size)
    PROVE  DOMAIN rows = 1 .. size /\ Ordered(rows) = [n \in 1 .. size |-> n]
<1> DEFINE Key(k) == IF rows[k].index = NoIndex THEN k - 1 ELSE rows[k].index
           Sooner(k) == {j \in DOMAIN rows : Key(j) < Key(k) \/ (Key(j) = Key(k) /\ j < k)}
<1>1. \E o \in Bijection(1 .. size, 1 .. size) :
        DOMAIN rows = 1 .. size /\ \A k \in 1 .. size : rows[k].of = o[k] /\ Key(k) = o[k] - 1
  <2>1. CASE rows = [k \in 1 .. size |-> Row(k, NoIndex)]
    <3> DEFINE o == [k \in 1 .. size |-> k]
    <3>1. o \in Bijection(1 .. size, 1 .. size)
      BY DEF Bijection, Injection, Surjection, IsInjective
    <3>2. DOMAIN rows = 1 .. size /\ \A k \in 1 .. size : rows[k].of = o[k] /\ Key(k) = o[k] - 1
      BY <2>1 DEF Row, NoIndex
    <3> HIDE DEF o
    <3> QED
      BY <3>1, <3>2
  <2>2. ASSUME NEW o \in [1 .. size -> 1 .. size], IsInjective(o),
               rows = [k \in 1 .. size |-> Row(o[k], o[k] - 1)]
        PROVE  o \in Bijection(1 .. size, 1 .. size) /\ DOMAIN rows = 1 .. size
               /\ \A k \in 1 .. size : rows[k].of = o[k] /\ Key(k) = o[k] - 1
    <3>1. o \in Injection(1 .. size, 1 .. size)
      BY <2>2 DEF Injection
    <3>2. IsFiniteSet(1 .. size)
      BY FS_Interval
    <3>3. o \in Surjection(1 .. size, 1 .. size)
      BY <3>1, <3>2, FS_Injection
    <3>4. \A k \in 1 .. size : rows[k].of = o[k] /\ Key(k) = o[k] - 1
      BY <2>2 DEF Row, NoIndex
    <3> QED
      BY <2>2, <3>1, <3>3, <3>4 DEF Bijection
  <2> QED
    BY <2>1, <2>2, Zenon DEF Responses
<1>2. PICK o \in Bijection(1 .. size, 1 .. size) :
        DOMAIN rows = 1 .. size /\ \A k \in 1 .. size : rows[k].of = o[k] /\ Key(k) = o[k] - 1
  BY <1>1
<1>3. /\ o \in [1 .. size -> 1 .. size]
      /\ \A j, k \in 1 .. size : o[j] = o[k] => j = k
      /\ \A n \in 1 .. size : \E k \in 1 .. size : o[k] = n
  BY <1>2 DEF Bijection, Injection, Surjection, IsInjective
<1>4. ASSUME NEW k \in 1 .. size
      PROVE  Sooner(k) = {j \in 1 .. size : o[j] < o[k]}
  <2>0. \A j \in 1 .. size : Key(j) = o[j] - 1 /\ o[j] \in Int
    BY <1>2, <1>3
  <2> HIDE DEF Key
  <2>1. \A j \in 1 .. size : (Key(j) < Key(k) \/ (Key(j) = Key(k) /\ j < k)) <=> o[j] < o[k]
    <3> SUFFICES ASSUME NEW j \in 1 .. size
                 PROVE  (Key(j) < Key(k) \/ (Key(j) = Key(k) /\ j < k)) <=> o[j] < o[k]
      OBVIOUS
    <3>1. Key(j) = o[j] - 1 /\ Key(k) = o[k] - 1 /\ o[j] \in Int /\ o[k] \in Int
      BY <2>0
    <3>2. j = k => o[j] = o[k]
      OBVIOUS
    <3>3. o[j] = o[k] => j = k
      BY <1>3
    <3> QED
      BY <3>1, <3>2, <3>3
  <2> QED
    BY <1>2, <2>1
<1>5. ASSUME NEW k \in 1 .. size
      PROVE  Cardinality(Sooner(k)) = o[k] - 1
  <2> DEFINE S == {j \in 1 .. size : o[j] < o[k]}
             T == 1 .. o[k] - 1
             f == [j \in S |-> o[j]]
  <2>1. f \in Bijection(S, T)
    <3>1. f \in [S -> T] /\ \A i, j \in S : f[i] = f[j] => i = j
      <4>1. \A j \in S : j \in 1 .. size /\ o[j] \in T
        BY <1>3
      <4>2. f \in [S -> T]
        <5> HIDE DEF S, T
        <5> QED
          BY <4>1
      <4>3. \A i, j \in S : f[i] = f[j] => i = j
        <5> HIDE DEF S, T
        <5> QED
          BY <1>3, <4>1
      <4> QED
        BY <4>2, <4>3
    <3>2. \A n \in T : \E j \in S : f[j] = n
      <4> SUFFICES ASSUME NEW n \in T PROVE \E j \in S : f[j] = n
        OBVIOUS
      <4>1. n \in 1 .. size /\ n < o[k]
        BY <1>3
      <4>2. PICK j \in 1 .. size : o[j] = n
        BY <1>3, <4>1
      <4>3. j \in S /\ f[j] = n
        BY <4>1, <4>2
      <4> QED
        BY <4>3
    <3> HIDE DEF f, S, T
    <3> QED
      BY <3>1, <3>2 DEF Bijection, Injection, Surjection, IsInjective
  <2>2. IsFiniteSet(S)
    <3>1. IsFiniteSet(1 .. size) /\ S \in SUBSET (1 .. size)
      BY FS_Interval
    <3> HIDE DEF S
    <3> QED
      BY <3>1, FS_Subset
  <2>3. Cardinality(T) = Cardinality(S)
    <3> HIDE DEF S, T
    <3> QED
      BY <2>1, <2>2, FS_Bijection DEF ExistsBijection
  <2>4. Cardinality(T) = o[k] - 1
    <3>1. o[k] - 1 \in Nat
      BY <1>3
    <3> HIDE DEF Key
    <3> QED
      BY <3>1, FS_Interval
  <2> QED
    BY <1>4, <2>3, <2>4
<1>6. \A n \in 1 .. size :
        rows[CHOOSE k \in DOMAIN rows : Cardinality(Sooner(k)) = n - 1].of = n
  <2> HIDE DEF Sooner
  <2> SUFFICES ASSUME NEW n \in 1 .. size
               PROVE  rows[CHOOSE k \in DOMAIN rows : Cardinality(Sooner(k)) = n - 1].of = n
    OBVIOUS
  <2> DEFINE c == CHOOSE k \in DOMAIN rows : Cardinality(Sooner(k)) = n - 1
  <2>1. \E k \in 1 .. size : Cardinality(Sooner(k)) = n - 1
    BY <1>3, <1>5
  <2>2. c \in 1 .. size /\ Cardinality(Sooner(c)) = n - 1
    BY <1>2, <2>1
  <2> HIDE DEF c
  <2>3. o[c] = n
    BY <1>3, <1>5, <2>2
  <2> QED
    BY <1>2, <2>2, <2>3 DEF c
<1>7. Ordered(rows) = [n \in DOMAIN rows |->
         rows[CHOOSE k \in DOMAIN rows : Cardinality(Sooner(k)) = n - 1].of]
  BY Zenon DEF Ordered
<1> HIDE DEF Sooner
<1> QED
  BY <1>2, <1>6, <1>7

\* What is where in two texts put together.
LEMMA TwoTexts ==
    ASSUME NEW x \in Seq(CellType), NEW y \in Seq(CellType)
    PROVE  /\ x \o y \in Seq(CellType) /\ Len(x \o y) = Len(x) + Len(y)
           /\ \A i \in 1 .. Len(x) + Len(y) :
                 (x \o y)[i] = IF i <= Len(x) THEN x[i] ELSE y[i - Len(x)]
  BY ConcatProperties, Zenon

\* Where the cells are after two newlines and another page have been added.
LEMMA JoinFacts ==
    ASSUME NEW a \in Seq(CellType), NEW b \in Seq(CellType)
    PROVE  LET t == a \o Joint \o b IN
           /\ t \in Seq(CellType) /\ Len(t) = Len(a) + 2 + Len(b)
           /\ \A q \in 1 .. Len(a) : t[q] = a[q]
           /\ \A q \in Len(a) + 1 .. Len(a) + 2 : t[q] = Cell(0, 0, "n")
           /\ \A q \in 1 .. Len(b) : t[Len(a) + 2 + q] = b[q]
<1>1. Len(a) \in Nat /\ Len(b) \in Nat
  OBVIOUS
<1>2. Joint \in Seq(CellType) /\ Len(Joint) = 2
      /\ \A q \in 1 .. 2 : Joint[q] = Cell(0, 0, "n")
  BY JointTypes
<1> DEFINE s == a \o Joint
           t == s \o b
<1> HIDE DEF Joint
<1>3. /\ s \in Seq(CellType) /\ Len(s) = Len(a) + 2
      /\ \A i \in 1 .. Len(a) + 2 : s[i] = IF i <= Len(a) THEN a[i] ELSE Joint[i - Len(a)]
  <2>1. /\ s \in Seq(CellType) /\ Len(s) = Len(a) + Len(Joint)
        /\ \A i \in 1 .. Len(a) + Len(Joint) : s[i] = IF i <= Len(a) THEN a[i] ELSE Joint[i - Len(a)]
    BY <1>2, TwoTexts, Zenon
  <2> QED
    BY <1>2, <2>1
<1> HIDE DEF s
<1>4. /\ t \in Seq(CellType) /\ Len(t) = Len(s) + Len(b)
      /\ \A i \in 1 .. Len(s) + Len(b) : t[i] = IF i <= Len(s) THEN s[i] ELSE b[i - Len(s)]
  BY <1>3, TwoTexts, Zenon
<1>5. t = a \o Joint \o b
  BY DEF s
<1> HIDE DEF t
<1>6. \A q \in 1 .. Len(a) : t[q] = a[q]
  BY <1>1, <1>3, <1>4
<1>7. \A q \in Len(a) + 1 .. Len(a) + 2 : t[q] = Cell(0, 0, "n")
  <2> SUFFICES ASSUME NEW q \in Len(a) + 1 .. Len(a) + 2 PROVE t[q] = Cell(0, 0, "n")
    OBVIOUS
  <2>1. t[q] = s[q] /\ s[q] = Joint[q - Len(a)] /\ q - Len(a) \in 1 .. 2
    BY <1>1, <1>3, <1>4
  <2> QED
    BY <1>2, <2>1
<1>8. \A q \in 1 .. Len(b) : t[Len(a) + 2 + q] = b[q]
  <2> SUFFICES ASSUME NEW q \in 1 .. Len(b) PROVE t[Len(a) + 2 + q] = b[q]
    OBVIOUS
  <2>1. Len(a) + 2 + q \in 1 .. Len(s) + Len(b) /\ ~(Len(a) + 2 + q <= Len(s))
        /\ Len(a) + 2 + q - Len(s) = q
    BY <1>1, <1>3
  <2> QED
    BY <1>4, <2>1
<1> QED
  BY <1>3, <1>4, <1>5, <1>6, <1>7, <1>8

\* What a page adds to a group.
LEMMA TakePageSteps ==
    ASSUME TypeInv, PagesInv, GroupInv, TakePage
    PROVE  LET page == pages[next]
               from == IF text = <<>> THEN 0 ELSE Len(text) + 2
           IN  /\ pc = "group" /\ book.pdf /\ next \in 1 .. Len(pages)
               /\ page \in PageType /\ page.number \in 1 .. Len(book.pages)
               /\ text # <<>> => page.section = GroupSection
               /\ text' = IF text = <<>> THEN Cells(page.number) ELSE text \o Joint \o Cells(page.number)
               /\ text' \in Seq(CellType) /\ Len(text') = from + Len(book.pages[page.number].text)
               /\ from \in Nat
               /\ spans' = Append(spans, Span(page, from, Len(text')))
               /\ Span(page, from, Len(text')) \in SpanType
               /\ base' = IF text = <<>> THEN page.start ELSE base
               /\ next' = next + 1
               /\ UNCHANGED <<book, pc, pages, prepareVars, cutVars, storeVars>>
<1> DEFINE page == pages[next]
           from == IF text = <<>> THEN 0 ELSE Len(text) + 2
<1>1. pc = "group" /\ book.pdf /\ next \in 1 .. Len(pages)
  BY DEF TakePage, TypeInv
<1>2. page \in PageType /\ page.number \in 1 .. Len(book.pages)
  BY <1>1 DEF TypeInv, PagesInv, Read
<1>3. /\ Cells(page.number) \in Seq(CellType)
      /\ Len(Cells(page.number)) = Len(book.pages[page.number].text)
  <2> HIDE DEF page
  <2> QED
    BY <1>2, CellsTypes DEF TypeInv
<1>4. text' = IF text = <<>> THEN Cells(page.number) ELSE text \o Joint \o Cells(page.number)
  BY DEF TakePage
<1>5. /\ text' \in Seq(CellType) /\ Len(text') = from + Len(book.pages[page.number].text)
      /\ from \in Nat
  <2>1. text \in Seq(CellType)
    BY DEF TypeInv
  <2> DEFINE cells == Cells(page.number)
  <2>2. cells \in Seq(CellType) /\ Len(cells) \in Nat
    BY <1>3
  <2>3. from \in Nat
    BY <2>1
  <2>5. text' = IF text = <<>> THEN cells ELSE text \o Joint \o cells
    BY <1>4
  <2> HIDE DEF cells
  <2>6. text' \in Seq(CellType) /\ Len(text') = from + Len(cells)
    <3>1. CASE text = <<>>
      BY <2>2, <2>5, <3>1
    <3>2. CASE text # <<>>
      BY <2>1, <2>2, <2>5, <3>2, JoinFacts
    <3> QED
      BY <3>1, <3>2
  <2> QED
    BY <1>3, <2>3, <2>6 DEF cells
<1>6. Span(page, from, Len(text')) \in SpanType
  <2> HIDE DEF page, from
  <2>1. Len(text') \in Nat
    BY <1>5
  <2> QED
    BY <1>2, <1>5, <2>1 DEF Span, SpanType, PageType
<1> QED
  BY <1>1, <1>2, <1>4, <1>5, <1>6 DEF TakePage

\* A chunk of the text of a file.
LEMMA PlainChunkTypes ==
    ASSUME TypeInv, NEW end \in start + 1 .. Len(text)
    PROVE  LET c == Chunk(start, end, {}, "body") IN
           /\ c \in ChunkType /\ c.index = first + local /\ c.start = base + start
           /\ c.end = base + end /\ Len(c.content) = end - start
           /\ \A i \in 1 .. end - start : c.content[i] = text[start + i]
<1>1. text \in Seq(CellType) /\ start \in Nat /\ base \in Nat /\ first \in Nat /\ local \in Nat
  BY DEF TypeInv
<1> DEFINE content == SubSeq(text, start + 1, end)
<1>2. start + 1 \in 1 .. Len(text) /\ end \in 1 .. Len(text) /\ end - start \in Nat
  BY <1>1
<1>3. /\ content \in Seq(CellType) /\ Len(content) = end - start
      /\ \A i \in 1 .. end - start : content[i] = text[start + i]
  BY <1>1, <1>2
<1>4. HeadingOf({}) \in Headings
  BY HeadingOfTypes DEF TypeInv
<1>5. {spans[k].page : k \in {}} \in SUBSET Nat
  OBVIOUS
<1> HIDE DEF content
<1>6. Chunk(start, end, {}, "body") =
        [index |-> first + local, content |-> content, start |-> base + start, end |-> base + end,
         pages |-> {spans[k].page : k \in {}}, section |-> "body", heading |-> HeadingOf({})]
  BY DEF Chunk, content
<1>7. "body" \in Sections
  BY DEF Sections
<1> QED
  BY <1>1, <1>2, <1>3, <1>4, <1>5, <1>6, <1>7 DEF ChunkType

\* What every cut leaves alone.
LEMMA AdvanceTypes ==
    ASSUME TypeInv, NEW end \in Nat, NEW to, end < Len(text) => to \in Nat, Advance(end, to)
    PROVE  /\ UNCHANGED <<book, next, pages, section, front, offset, heading, base, first,
                          vectors, stored>>
           /\ pc' \in {pc, "group"} /\ text' \in Seq(CellType) /\ spans' \in Seq(SpanType)
           /\ local' \in Nat /\ start' \in Nat
<1>1. text \in Seq(CellType) /\ spans \in Seq(SpanType) /\ local \in Nat /\ start \in Nat
      /\ Len(text) \in Nat
  BY DEF TypeInv
<1>2. CASE end >= Len(text)
  BY <1>1, <1>2 DEF Advance, prepareVars, storeVars
<1>3. CASE end < Len(text)
  BY <1>1, <1>3 DEF Advance, prepareVars, storeVars
<1> QED
  BY <1>1, <1>2, <1>3

\* What a batch adds.
LEMMA EmbedBatchSteps ==
    ASSUME TypeInv, EmbedBatch
    PROVE  /\ pc = "embed" /\ Len(vectors) < Len(chunks)
           /\ \E size \in Nat :
                /\ size <= Len(chunks) - Len(vectors)
                /\ vectors' = vectors \o [n \in 1 .. size |-> Len(vectors) + n]
           /\ UNCHANGED <<book, pc, next, pages, prepareVars, groupVars, cutVars, stored>>
<1> DEFINE size == Smaller(Batch, Len(chunks) - Len(vectors))
<1>1. size \in Nat /\ size <= Len(chunks) - Len(vectors)
  BY SizesAssumption DEF EmbedBatch, TypeInv, Smaller
<1>2. PICK rows \in Responses(size) :
        vectors' = vectors \o [n \in DOMAIN rows |-> Len(vectors) + Ordered(rows)[n]]
  BY DEF EmbedBatch
<1>3. DOMAIN rows = 1 .. size /\ Ordered(rows) = [n \in 1 .. size |-> n]
  <2> HIDE DEF size
  <2> QED
    BY <1>1, OrderedIsSent
<1>4. [n \in DOMAIN rows |-> Len(vectors) + Ordered(rows)[n]]
        = [n \in 1 .. size |-> Len(vectors) + n]
  <2> HIDE DEF size
  <2> QED
    BY <1>3
<1>5. vectors' = vectors \o [n \in 1 .. size |-> Len(vectors) + n]
  <2> HIDE DEF size
  <2> QED
    BY <1>2, <1>4
<1> QED
  BY <1>1, <1>5 DEF EmbedBatch

\* The types hold in every state.
LEMMA TypeStep ==
    ASSUME TypeInv, PagesInv, GroupInv, OrderInv, [Next]_vars
    PROVE  TypeInv'
<1> USE DEF TypeInv
<1>1. CASE SkipPage
  <2>1. next \in 1 .. Len(book.pages)
    BY <1>1, BookTypes DEF SkipPage
  <2>2. Passed(book.pages[next]) \in Nat
    BY <2>1, PassedTypes
  <2> QED
    BY <1>1, <2>2 DEF SkipPage, groupVars, cutVars, storeVars
<1>2. CASE PreparePage
  <2> DEFINE page == book.pages[next]
  <2>1. /\ next \in 1 .. Len(book.pages) /\ Resolved(page) \in Sections
        /\ Continued(page) \in Headings /\ Prepared(page) \in PageType
    BY <1>2, PreparedTypes
  <2>2. Passed(page) \in Nat
    BY <2>1, BookTypes DEF Passed
  <2>3. front' \in Nat
    BY <1>2 DEF PreparePage
  <2> HIDE DEF page
  <2>4. /\ pages' = Append(pages, Prepared(page)) /\ section' = Resolved(page)
        /\ heading' = IF Resolved(page) = "body" THEN Continued(page) ELSE heading
        /\ offset' = offset + Passed(page) /\ next' = next + 1
        /\ UNCHANGED <<book, pc, groupVars, cutVars, storeVars>>
    BY <1>2, PreparePageSteps DEF page
  <2>5. pages' \in Seq(PageType)
    BY <2>1, <2>4
  <2> QED
    BY <2>1, <2>2, <2>3, <2>4, <2>5 DEF groupVars, cutVars, storeVars
<1>3. CASE EndPrepare
  BY <1>3 DEF EndPrepare, prepareVars, groupVars, cutVars, storeVars
<1>4. CASE TakePage
  <2> DEFINE page == pages[next]
             from == IF text = <<>> THEN 0 ELSE Len(text) + 2
  <2>1. /\ page \in PageType /\ text' \in Seq(CellType)
        /\ spans' = Append(spans, Span(page, from, Len(text')))
        /\ Span(page, from, Len(text')) \in SpanType
        /\ base' = IF text = <<>> THEN page.start ELSE base
        /\ next' = next + 1
        /\ UNCHANGED <<book, pc, pages, prepareVars, cutVars, storeVars>>
    BY <1>4, TakePageSteps
  <2> HIDE DEF page, from
  <2>2. spans' \in Seq(SpanType) /\ base' \in Nat
    BY <2>1 DEF PageType
  <2> QED
    BY <2>1, <2>2 DEF prepareVars, cutVars, storeVars
<1>5. CASE CloseGroup
  BY <1>5 DEF CloseGroup, BeginCuts, prepareVars, groupVars, storeVars
<1>6. CASE ReadText
  <2>1. 1 \in 1 .. Len(book.pages)
    BY <1>6, BookTypes DEF ReadText
  <2>2. Cells(1) \in Seq(CellType)
    BY <2>1, CellsTypes
  <2> QED
    BY <1>6, <2>2 DEF ReadText, BeginCuts, prepareVars, storeVars
<1>7. CASE EndGroups
  BY <1>7 DEF EndGroups, prepareVars, groupVars, cutVars, storeVars
<1>8. CASE CutSpan
  <2>1. Cutting /\ End \in Nat /\ (End < Len(text) => NextStart \in Nat)
    <3>1. Cutting
      BY <1>8, IsCutting, CutSpanSteps
    <3> QED
      BY <3>1, EndFacts, NextFacts DEF EndIsNear, Cutting
  <2>2. Visible # {} => NewChunk \in ChunkType
    BY <1>8, NewChunkTypes
  <2>3. chunks' \in Seq(ChunkType) /\ skipped' \in BOOLEAN
    <3>1. \/ skipped' = TRUE /\ chunks' = chunks
          \/ Visible # {} /\ chunks' = Append(chunks, NewChunk) /\ skipped' = skipped
      BY <1>8, CutSpanSteps
    <3>2. Visible # {} => Append(chunks, NewChunk) \in Seq(ChunkType)
      <4> HIDE DEF NewChunk
      <4>1. chunks \in Seq(ChunkType)
        OBVIOUS
      <4> QED
        BY <2>2, <4>1, AppendProperties
    <3>3. chunks \in Seq(ChunkType) /\ skipped \in BOOLEAN
      OBVIOUS
    <3> QED
      BY <3>1, <3>2, <3>3, Zenon
  <2>4. /\ UNCHANGED <<book, next, pages, section, front, offset, heading, base, first,
                       vectors, stored>>
        /\ pc' \in {pc, "group"} /\ text' \in Seq(CellType) /\ spans' \in Seq(SpanType)
        /\ local' \in Nat /\ start' \in Nat
    BY <1>8, <2>1, AdvanceTypes, CutSpanSteps
  <2> QED
    BY <2>3, <2>4
<1>9. CASE CutText
  <2> DEFINE end == Smaller(start + PlainSize, Len(text))
  <2>1. pc = "cut" /\ Cutting
    BY <1>9, IsCutting DEF CutText
  <2>2. end \in start + 1 .. Len(text) /\ end \in Nat
    BY <2>1, SizesAssumption DEF Cutting, Smaller
  <2>3. start + PlainSize - PlainOverlap \in Nat
    BY SizesAssumption
  <2>4. /\ chunks' = Append(chunks, Chunk(start, end, {}, "body")) /\ skipped' = skipped
        /\ Advance(end, start + PlainSize - PlainOverlap)
    BY <1>9 DEF CutText
  <2> HIDE DEF end
  <2>5. Chunk(start, end, {}, "body") \in ChunkType
    BY <2>2, PlainChunkTypes
  <2>6. /\ UNCHANGED <<book, next, pages, section, front, offset, heading, base, first,
                       vectors, stored>>
        /\ pc' \in {pc, "group"} /\ text' \in Seq(CellType) /\ spans' \in Seq(SpanType)
        /\ local' \in Nat /\ start' \in Nat
    BY <2>2, <2>3, <2>4, AdvanceTypes
  <2>7. chunks' \in Seq(ChunkType)
    BY <2>4, <2>5
  <2> QED
    BY <2>4, <2>6, <2>7
<1>10. CASE EmbedBatch
  <2>1. PICK size \in Nat : vectors' = vectors \o [n \in 1 .. size |-> Len(vectors) + n]
    BY <1>10, EmbedBatchSteps
  <2>2. vectors' \in Seq(Nat)
    <3> DEFINE more == [n \in 1 .. size |-> Len(vectors) + n]
    <3>1. vectors \in Seq(Nat) /\ more \in Seq(Nat)
      OBVIOUS
    <3> HIDE DEF more
    <3>2. vectors \o more \in Seq(Nat)
      BY <3>1
    <3> QED
      BY <2>1, <3>2 DEF more
  <2> QED
    BY <1>10, <2>2 DEF EmbedBatch, prepareVars, groupVars, cutVars
<1>11. CASE EmbeddingFails
  BY <1>11 DEF EmbeddingFails, prepareVars, groupVars, cutVars, storeVars
<1>12. CASE StoreChunks
  BY <1>12 DEF StoreChunks, prepareVars, groupVars, cutVars
<1>13. CASE UNCHANGED vars
  BY <1>13 DEF vars, prepareVars, groupVars, cutVars, storeVars
<1> QED
  BY <1>1, <1>2, <1>3, <1>4, <1>5, <1>6, <1>7, <1>8, <1>9, <1>10, <1>11, <1>12, <1>13 DEF Next

-----------------------------------------------------------------------------
(* The prepared pages.                                                     *)

\* Once the pages are prepared they stay as they are.
LEMMA LaterSteps ==
    ASSUME TypeInv, [Next]_vars, ~SkipPage, ~PreparePage, ~EndPrepare
    PROVE  /\ book' = book /\ pages' = pages
           /\ UNCHANGED vars \/ (pc # "prepare" /\ pc' # "prepare")
<1>1. CASE TakePage
  BY <1>1 DEF TakePage
<1>2. CASE CloseGroup
  BY <1>2 DEF CloseGroup, BeginCuts
<1>3. CASE ReadText
  BY <1>3 DEF ReadText, BeginCuts
<1>4. CASE EndGroups
  BY <1>4 DEF EndGroups
<1>5. CASE CutSpan
  BY <1>5 DEF CutSpan, Advance
<1>6. CASE CutText
  BY <1>6 DEF CutText, Advance
<1>7. CASE EmbedBatch
  BY <1>7 DEF EmbedBatch
<1>8. CASE EmbeddingFails
  BY <1>8 DEF EmbeddingFails
<1>9. CASE StoreChunks
  BY <1>9 DEF StoreChunks
<1>10. CASE UNCHANGED vars
  BY <1>10 DEF vars
<1> QED
  BY <1>1, <1>2, <1>3, <1>4, <1>5, <1>6, <1>7, <1>8, <1>9, <1>10 DEF Next

\* What the steps of the first loop change of the pages.
LEMMA SkipPageSteps ==
    ASSUME TypeInv, SkipPage
    PROVE  /\ pc = "prepare" /\ pc' = "prepare" /\ next \in 1 .. Len(book.pages) /\ Empty(next)
           /\ next' = next + 1 /\ offset' = offset + Passed(book.pages[next])
           /\ UNCHANGED <<book, section, front, heading, pages, groupVars, cutVars, storeVars>>
  BY BookTypes DEF SkipPage, TypeInv, Empty

LEMMA EndPrepareSteps ==
    ASSUME TypeInv, PagesInv, EndPrepare
    PROVE  /\ pc = "prepare" /\ pc' = "group" /\ next = Len(book.pages) + 1 /\ next' = 1
           /\ UNCHANGED <<book, pages, prepareVars, groupVars, cutVars, storeVars>>
<1>1. Len(book.pages) \in Nat /\ next \in Nat
  BY BookTypes DEF TypeInv
<1>2. next <= Len(book.pages) + 1 /\ next > Len(book.pages)
  BY DEF EndPrepare, PagesInv
<1> QED
  BY <1>1, <1>2 DEF EndPrepare

\* The page that is prepared is the last one.
LEMMA PreparedIsLast ==
    ASSUME TypeInv, PagesInv, PreparePage
    PROVE  LET page == book.pages[next] IN
           /\ pc = "prepare" /\ pc' = "prepare" /\ book' = book /\ next' = next + 1
           /\ next \in 1 .. Len(book.pages) /\ ~Empty(next) /\ page \in Leaf
           /\ Len(pages) \in Nat /\ Len(pages') = Len(pages) + 1
           /\ DOMAIN pages = 1 .. Len(pages) /\ DOMAIN pages' = 1 .. Len(pages) + 1
           /\ \A k \in 1 .. Len(pages) : pages'[k] = pages[k]
           /\ LET last == pages'[Len(pages) + 1] IN
              /\ last.number = next /\ last.start = offset /\ last.section = Resolved(page)
              /\ last.heading = IF Resolved(page) = "body" THEN Continued(page) ELSE NoHeading
<1> DEFINE page == book.pages[next]
<1>1. next \in 1 .. Len(book.pages) /\ page \in Leaf /\ Prepared(page) \in PageType
  BY PreparedTypes
<1>2. /\ pc = "prepare" /\ ~Empty(next) /\ pages' = Append(pages, Prepared(page))
      /\ next' = next + 1 /\ book' = book /\ pc' = pc
  BY PreparePageSteps
<1>3. pages \in Seq(PageType)
  BY DEF TypeInv
<1>4. LET q == Prepared(page) IN
      /\ q.number = next /\ q.start = offset /\ q.section = Resolved(page)
      /\ q.heading = IF Resolved(page) = "body" THEN Continued(page) ELSE NoHeading
  BY DEF Prepared
<1> DEFINE q == Prepared(page)
<1> HIDE DEF page, q
<1>5. /\ Len(pages) \in Nat /\ Len(pages') = Len(pages) + 1
      /\ DOMAIN pages = 1 .. Len(pages) /\ DOMAIN pages' = 1 .. Len(pages) + 1
      /\ \A k \in 1 .. Len(pages) : pages'[k] = pages[k]
      /\ pages'[Len(pages) + 1] = q
  BY <1>1, <1>2, <1>3 DEF q
<1> QED
  BY <1>1, <1>2, <1>4, <1>5 DEF q, page

\* The prepared pages are those read so far that are not blank.
LEMMA PagesStep ==
    ASSUME TypeInv, PagesInv, [Next]_vars
    PROVE  PagesInv'
<1>0. Len(book.pages) \in Nat /\ next \in Nat \ {0}
  BY BookTypes DEF TypeInv
<1>1. CASE SkipPage
  <2>1. Read = next - 1 /\ Read' = next
    BY <1>1, SkipPageSteps DEF Read, TypeInv
  <2>2. Empty(next)
    BY <1>1, SkipPageSteps
  <2> QED
    BY <1>0, <1>1, <2>1, <2>2, SkipPageSteps DEF PagesInv, Empty
<1>2. CASE PreparePage
  <2>1. Read = next - 1 /\ Read' = next
    BY <1>0, <1>2, PreparedIsLast DEF Read
  <2>2. \A k \in DOMAIN pages : pages[k].number \in 1 .. next - 1 /\ ~Empty(pages[k].number)
    BY <2>1 DEF PagesInv
  <2>3. (\A k \in DOMAIN pages : pages[k].number \in 1 .. Read /\ ~Empty(pages[k].number))'
    BY <1>0, <1>2, <2>1, <2>2, PreparedIsLast DEF Empty
  <2>4. (\A j, k \in DOMAIN pages : j < k => pages[j].number < pages[k].number)'
    <3>1. PICK m \in Nat : m = Len(pages)
      BY <1>2, PreparedIsLast
    <3>2. /\ DOMAIN pages = 1 .. m /\ DOMAIN pages' = 1 .. m + 1 /\ pages'[m + 1].number = next
          /\ \A k \in 1 .. m : pages'[k] = pages[k]
      BY <1>2, <3>1, PreparedIsLast
    <3>3. \A k \in 1 .. m : pages[k].number \in Nat /\ pages[k].number < next
      BY <1>0, <2>2, <3>2
    <3>4. \A j, k \in 1 .. m : j < k => pages[j].number < pages[k].number
      BY <3>2 DEF PagesInv
    <3>5. ASSUME NEW j \in 1 .. m + 1, NEW k \in 1 .. m + 1, j < k
          PROVE  pages'[j].number < pages'[k].number
      <4>1. j \in 1 .. m /\ (k \in 1 .. m \/ k = m + 1)
        BY <3>1, <3>5
      <4> QED
        BY <3>2, <3>3, <3>4, <3>5, <4>1
    <3> QED
      BY <3>2, <3>5
  <2>5. (\A n \in 1 .. Read : ~Empty(n) => \E k \in DOMAIN pages : pages[k].number = n)'
    <3> SUFFICES ASSUME NEW n \in 1 .. next, ~Empty(n)
                 PROVE  \E k \in DOMAIN pages' : pages'[k].number = n
      BY <1>2, <2>1, PreparedIsLast DEF Empty
    <3>1. CASE n = next
      BY <1>2, <3>1, PreparedIsLast
    <3>2. CASE n # next
      <4>1. PICK k \in DOMAIN pages : pages[k].number = n
        BY <1>0, <1>2, <2>1, <3>2, PreparedIsLast DEF PagesInv
      <4> QED
        BY <1>2, <4>1, PreparedIsLast
    <3> QED
      BY <3>1, <3>2
  <2>6. (pc = "prepare" => book.pdf /\ next <= Len(book.pages) + 1)' /\ book'.pdf
    BY <1>0, <1>2, PreparedIsLast DEF PagesInv
  <2> QED
    BY <2>3, <2>4, <2>5, <2>6 DEF PagesInv
<1>3. CASE EndPrepare
  <2>1. Read = Len(book.pages) /\ Read' = Len(book.pages)
    BY <1>0, <1>3, EndPrepareSteps DEF Read
  <2> QED
    BY <1>3, <2>1, EndPrepareSteps DEF PagesInv, Empty
<1>4. CASE ~SkipPage /\ ~PreparePage /\ ~EndPrepare
  <2>1. CASE UNCHANGED vars
    BY <2>1 DEF vars, PagesInv, Read, Empty
  <2>2. CASE pc # "prepare" /\ pc' # "prepare"
    <3>1. Read = Len(book.pages) /\ Read' = Len(book.pages)
      BY <1>4, <2>2, LaterSteps DEF Read
    <3> QED
      BY <1>4, <2>2, <3>1, LaterSteps DEF PagesInv, Empty
  <2> QED
    BY <1>4, <2>1, <2>2, LaterSteps
<1> QED
  BY <1>1, <1>2, <1>3, <1>4

\* A page taken for front matter because of the one before it continues its section.
LEMMA ImpliedStep ==
    ASSUME TypeInv, PreparePage
    PROVE  LET page == book.pages[next] IN
           /\ section' = Resolved(page)
           /\ section' \in Front => front' > 0
           /\ Resolved(page) \in Front /\ page.class \notin Front =>
                section \in Front /\ front < MaxFront /\ section' = section /\ front' = front + 1
<1> DEFINE page == book.pages[next]
<1>1. page.class \in Sections
  <2>1. page \in Leaf
    BY PreparedTypes
  <2> QED
    BY <2>1 DEF Leaf
<1>2. section' = Resolved(page)
  BY PreparePageSteps
<1>3. front' = IF Resolved(page) \notin Front THEN 0
               ELSE IF Resolved(page) = section THEN front + 1 ELSE 1
  BY DEF PreparePage
<1>4. front \in Nat /\ MaxFront \in Nat
  BY SizesAssumption DEF TypeInv
<1> HIDE DEF page
<1>5. ASSUME Resolved(page) \in Front, page.class \notin Front
      PROVE  section \in Front /\ front < MaxFront /\ Resolved(page) = section
  <2>1. page.class \notin NonBody
    BY <1>5 DEF Resolved
  <2>2. section \in NonBody /\ ~page.opens
    BY <1>5, <2>1 DEF Resolved
  <2>3. Resolved(page) = IF section \in Front /\ front >= MaxFront THEN "body" ELSE section
    BY <2>1, <2>2 DEF Resolved
  <2>4. "body" \notin Front
    BY DEF Front
  <2> QED
    BY <1>4, <1>5, <2>3, <2>4
<1> QED
  BY <1>2, <1>3, <1>4, <1>5 DEF page

\* A run of implied front matter is not longer than its counter.
LEMMA FrontStep ==
    ASSUME TypeInv, PagesInv, FrontInv, [Next]_vars
    PROVE  FrontInv'
<1>1. CASE SkipPage
  BY <1>1, SkipPageSteps DEF FrontInv, FrontMatterBounded, Implied
<1>2. CASE PreparePage
  <2> DEFINE page == book.pages[next]
  <2>0. PICK n \in Nat : n = Len(pages)
    BY <1>2, PreparedIsLast
  <2>1. /\ Len(pages) = n /\ Len(pages') = n + 1 /\ DOMAIN pages = 1 .. n /\ DOMAIN pages' = 1 .. n + 1
        /\ \A k \in 1 .. n : pages'[k] = pages[k]
        /\ pages'[n + 1].number = next /\ pages'[n + 1].section = Resolved(page)
        /\ book' = book /\ pc = "prepare" /\ pc' = "prepare"
    BY <1>2, <2>0, PreparedIsLast
  <2>2. /\ section' = Resolved(page) /\ (section' \in Front => front' > 0)
        /\ Resolved(page) \in Front /\ page.class \notin Front =>
             section \in Front /\ front < MaxFront /\ section' = section /\ front' = front + 1
    BY <1>2, ImpliedStep
  <2>3. \A k \in 1 .. n : Implied(k)' <=> Implied(k)
    BY <2>1 DEF Implied
  <2>4. Implied(n + 1)' <=> Resolved(page) \in Front /\ page.class \notin Front
    BY <2>1 DEF Implied
  <2>5. /\ front \in Nat /\ MaxFront \in Nat \ {0}
        /\ section \in Front => front > 0
        /\ \A i \in 1 .. n : (\A k \in i .. n : Implied(k)) =>
              section \in Front /\ front >= n - i + 2
    BY <2>1, SizesAssumption DEF FrontInv, TypeInv
  <2> HIDE DEF page
  <2>6. ASSUME NEW i \in 1 .. n + 1, \A k \in i .. n + 1 : Implied(k)'
        PROVE  section' \in Front /\ front' >= n + 1 - i + 2 /\ n + 1 - i + 2 <= MaxFront + 1
    <3>1. Implied(n + 1)'
      BY <2>1, <2>6
    <3>2. section \in Front /\ front < MaxFront /\ section' = section /\ front' = front + 1
      BY <2>2, <2>4, <3>1
    <3>3. CASE i = n + 1
      BY <2>1, <2>5, <3>2, <3>3
    <3>4. CASE i <= n
      <4>1. \A k \in i .. n : Implied(k)
        BY <2>1, <2>3, <2>6
      <4>2. front >= n - i + 2
        <5>1. i \in 1 .. n
          BY <2>0, <3>4
        <5> QED
          BY <2>5, <4>1, <5>1
      <4> QED
        BY <2>1, <2>5, <3>2, <4>2
    <3> QED
      BY <2>1, <3>3, <3>4
  <2>7. FrontMatterBounded'
    <3> SUFFICES ASSUME NEW i \in 1 .. n + 2 - MaxFront,
                        \A k \in i .. i + MaxFront - 1 : pages'[k].section \in Front,
                        \A k \in i .. i + MaxFront - 1 : book.pages[pages'[k].number].class \notin Front
                 PROVE  FALSE
      <4>1. Len(pages') + 1 - MaxFront = n + 2 - MaxFront /\ book' = book
        BY <2>1, <2>5
      <4> QED
        BY <4>1 DEF FrontMatterBounded
    <3>1. \A k \in i .. i + MaxFront - 1 : Implied(k)'
      BY <2>1 DEF Implied
    <3>2. CASE i + MaxFront - 1 <= n
      <4>1. i \in 1 .. n + 1 - MaxFront
        BY <2>1, <2>5, <3>2
      <4>2. \A k \in i .. i + MaxFront - 1 : k \in 1 .. n
        BY <2>1, <2>5, <3>2
      <4> QED
        BY <2>1, <4>1, <4>2 DEF FrontInv, FrontMatterBounded
    <3>3. CASE i + MaxFront - 1 = n + 1
      <4>1. i \in 1 .. n + 1 /\ \A k \in i .. n + 1 : Implied(k)'
        BY <2>1, <2>5, <3>1, <3>3
      <4>2. n + 1 - i + 2 <= MaxFront + 1
        BY <2>6, <4>1
      <4>3. Implied(n + 1)' /\ section \in Front /\ front < MaxFront
        BY <2>1, <2>2, <2>4, <4>1
      <4>4. CASE i = n + 1
        BY <2>1, <2>5, <3>3, <4>3, <4>4
      <4>5. CASE i <= n
        <5>1. \A k \in i .. n : Implied(k)
          BY <2>1, <2>3, <4>1
        <5>2. front >= n - i + 2
          <6>1. i \in 1 .. n
            BY <2>0, <4>1, <4>5
          <6> QED
            BY <2>5, <5>1, <6>1
        <5> QED
          BY <2>1, <2>5, <3>3, <4>3, <5>2
      <4> QED
        BY <2>1, <4>1, <4>4, <4>5
    <3> QED
      BY <2>1, <2>5, <3>2, <3>3
  <2>8. (\A i \in DOMAIN pages : (\A k \in i .. Len(pages) : Implied(k)) =>
            section \in Front /\ front >= Len(pages) - i + 2)'
    <3>1. \A i \in 1 .. n + 1 : (\A k \in i .. n + 1 : Implied(k)') =>
             section' \in Front /\ front' >= n + 1 - i + 2
      BY <2>6
    <3>2. Len(pages') = n + 1 /\ DOMAIN pages' = 1 .. n + 1
      BY <2>1
    <3> QED
      BY <3>1, <3>2
  <2> QED
    BY <2>1, <2>2, <2>7, <2>8 DEF FrontInv
<1>3. CASE EndPrepare
  BY <1>3, EndPrepareSteps DEF FrontInv, FrontMatterBounded
<1>4. CASE ~SkipPage /\ ~PreparePage /\ ~EndPrepare
  <2>1. CASE UNCHANGED vars
    BY <2>1 DEF vars, prepareVars, FrontInv, FrontMatterBounded, Implied
  <2>2. CASE pc # "prepare" /\ pc' # "prepare"
    BY <1>4, <2>2, LaterSteps DEF FrontInv, FrontMatterBounded
  <2> QED
    BY <1>4, <2>1, <2>2, LaterSteps
<1> QED
  BY <1>1, <1>2, <1>3, <1>4

\* The prepared pages are pages of the document.
LEMMA PageTypes ==
    ASSUME TypeInv, PagesInv
    PROVE  /\ Len(pages) \in Nat /\ DOMAIN pages = 1 .. Len(pages)
           /\ \A k \in 1 .. Len(pages) :
                /\ pages[k].number \in Nat /\ pages[k].start \in Nat
                /\ pages[k].section \in Sections /\ pages[k].heading \in Headings
                /\ pages[k].number \in 1 .. Len(book.pages)
                /\ Passed(book.pages[pages[k].number]) \in Nat
                /\ pc = "prepare" => pages[k].number < next
<1>1. /\ pages \in Seq(PageType) /\ Len(pages) \in Nat /\ DOMAIN pages = 1 .. Len(pages)
      /\ next \in Nat /\ Len(book.pages) \in Nat
  BY BookTypes DEF TypeInv
<1>2. ASSUME NEW k \in 1 .. Len(pages)
      PROVE  /\ pages[k].number \in Nat /\ pages[k].start \in Nat
             /\ pages[k].section \in Sections /\ pages[k].heading \in Headings
             /\ pages[k].number \in 1 .. Len(book.pages)
             /\ pc = "prepare" => pages[k].number < next
  <2>1. pages[k] \in PageType
    BY <1>1
  <2>2. pages[k].number \in 1 .. Read
    BY <1>1 DEF PagesInv
  <2>3. pc = "prepare" => Read = next - 1 /\ next <= Len(book.pages) + 1
    BY DEF Read, PagesInv
  <2>4. pc # "prepare" => Read = Len(book.pages)
    BY DEF Read
  <2> QED
    BY <1>1, <2>1, <2>2, <2>3, <2>4 DEF PageType
<1>3. \A k \in 1 .. Len(pages) : Passed(book.pages[pages[k].number]) \in Nat
  <2> SUFFICES ASSUME NEW k \in 1 .. Len(pages)
               PROVE  Passed(book.pages[pages[k].number]) \in Nat
    OBVIOUS
  <2>1. pages[k].number \in 1 .. Len(book.pages)
    BY <1>2
  <2>2. Len(book.pages[pages[k].number].text) \in Nat
    BY <2>1, BookTypes DEF TypeInv
  <2> QED
    BY <2>2 DEF Passed
<1> QED
  BY <1>1, <1>2, <1>3

\* The offsets of the pages are their places.
LEMMA PlaceStep ==
    ASSUME TypeInv, PagesInv, PlaceInv, [Next]_vars
    PROVE  PlaceInv'
<1>1. book' = book => Place' = Place
  BY DEF Place, Passed
<1>2. /\ Place \in [1 .. Len(book.pages) -> Nat] /\ Len(book.pages) \in Nat
      /\ next \in Nat \ {0} /\ offset \in Nat
      /\ \A n \in 1 .. Len(book.pages) :
            /\ Place[n] = IF n = 1 THEN 0 ELSE Place[n - 1] + Passed(book.pages[n - 1])
            /\ Passed(book.pages[n]) \in Nat
  <2>1. book \in Books /\ next \in Nat \ {0} /\ offset \in Nat
    BY DEF TypeInv
  <2>2. Len(book.pages) \in Nat
    BY <2>1, BookTypes
  <2>3. /\ Place \in [1 .. Len(book.pages) -> Nat]
        /\ \A n \in 1 .. Len(book.pages) :
              Place[n] = IF n = 1 THEN 0 ELSE Place[n - 1] + Passed(book.pages[n - 1])
    BY <2>1, PlaceFacts
  <2>4. \A n \in 1 .. Len(book.pages) : Passed(book.pages[n]) \in Nat
    BY <2>1, PassedTypes
  <2> QED
    BY <2>1, <2>2, <2>3, <2>4
<1>3. CASE SkipPage
  <2>1. /\ pc = "prepare" /\ pc' = "prepare" /\ next \in 1 .. Len(book.pages) /\ Empty(next)
        /\ next' = next + 1 /\ offset' = offset + Passed(book.pages[next])
        /\ book' = book /\ pages' = pages /\ Place' = Place
    BY <1>1, <1>3, SkipPageSteps
  <2>2. next + 1 <= Len(book.pages) => offset' = Place[next + 1]
    <3> SUFFICES ASSUME next + 1 <= Len(book.pages) PROVE offset' = Place[next + 1]
      OBVIOUS
    <3>1. offset = Place[next]
      BY <1>2, <2>1 DEF PlaceInv
    <3>2. next + 1 \in 1 .. Len(book.pages) /\ (next + 1) - 1 = next
      BY <1>2, <2>1
    <3>3. Place[next + 1] = Place[next] + Passed(book.pages[next])
      BY <1>2, <2>1, <3>2
    <3> QED
      BY <2>1, <3>1, <3>3
  <2>3. ASSUME pages # <<>>
        PROVE  LET last == pages[Len(pages)] IN
               /\ offset' >= last.start + Passed(book.pages[last.number])
               /\ \E n \in last.number .. next : Empty(n)
    <3>1. Len(pages) \in 1 .. Len(pages)
      BY <2>3, PageTypes DEF TypeInv
    <3> DEFINE last == pages[Len(pages)]
    <3>2. /\ last.start \in Nat /\ last.number \in Nat /\ last.number < next
          /\ Passed(book.pages[last.number]) \in Nat
      BY <2>1, <3>1, PageTypes
    <3>3. offset >= last.start + Passed(book.pages[last.number])
      BY <2>1, <2>3 DEF PlaceInv
    <3> HIDE DEF last
    <3>4. next \in last.number .. next
      BY <1>2, <3>2
    <3>5. Passed(book.pages[next]) \in Nat
      BY <1>2, <2>1
    <3> QED
      BY <1>2, <2>1, <3>2, <3>3, <3>4, <3>5 DEF last
  <2> QED
    BY <1>2, <2>1, <2>2, <2>3 DEF PlaceInv, Empty
<1>4. CASE PreparePage
  <2> DEFINE page == book.pages[next]
  <2>1. PICK n \in Nat : n = Len(pages)
    BY <1>4, PreparedIsLast
  <2>2. /\ Len(pages) = n /\ Len(pages') = n + 1 /\ DOMAIN pages = 1 .. n
        /\ DOMAIN pages' = 1 .. n + 1 /\ next \in 1 .. Len(book.pages)
        /\ \A k \in 1 .. n : pages'[k] = pages[k]
        /\ pages'[n + 1].number = next /\ pages'[n + 1].start = offset
        /\ book' = book /\ pc = "prepare" /\ pc' = "prepare" /\ next' = next + 1
        /\ Place' = Place
    BY <1>1, <1>4, <2>1, PreparedIsLast
  <2>3. offset' = offset + Passed(page) /\ Passed(page) \in Nat
    BY <1>2, <1>4, <2>2, PreparePageSteps
  <2>4. offset = Place[next]
    BY <1>2, <2>2 DEF PlaceInv
  <2>5. (\A k \in DOMAIN pages : pages[k].start = Place[pages[k].number])'
    BY <2>2, <2>4 DEF PlaceInv
  <2>6. ASSUME NEW k \in 1 .. n
        PROVE  /\ pages'[k + 1].start >= pages'[k].start + Passed(book.pages[pages'[k].number])
               /\ pages'[k + 1].start # pages'[k].start + Passed(book.pages[pages'[k].number]) =>
                     \E m \in pages'[k].number .. pages'[k + 1].number : Empty(m)
    <3>1. CASE k < n
      <4>1. k + 1 \in 1 .. n /\ k \in DOMAIN pages /\ k < Len(pages)
        BY <2>1, <2>2, <3>1
      <4>2. pages'[k + 1] = pages[k + 1] /\ pages'[k] = pages[k]
        BY <2>2, <4>1
      <4> QED
        BY <4>1, <4>2 DEF PlaceInv
    <3>2. CASE k = n
      <4>1. pages # <<>> /\ pages'[k] = pages[Len(pages)]
        BY <2>1, <2>2, <3>2
      <4> DEFINE last == pages[Len(pages)]
      <4>2. /\ offset >= last.start + Passed(book.pages[last.number])
            /\ offset # last.start + Passed(book.pages[last.number]) =>
                  \E m \in last.number .. next - 1 : Empty(m)
        BY <2>2, <4>1 DEF PlaceInv
      <4>3. last.number \in Nat
        BY <2>1, <3>2, PageTypes
      <4> HIDE DEF last
      <4>4. \A m \in last.number .. next - 1 : m \in last.number .. next
        BY <1>2, <4>3
      <4> QED
        BY <2>2, <3>2, <4>1, <4>2, <4>4 DEF last
    <3> QED
      BY <2>1, <3>1, <3>2
  <2>7. LET last == pages'[n + 1] IN offset' = last.start + Passed(book.pages[last.number])
    BY <2>2, <2>3
  <2>8. next + 1 <= Len(book.pages) => offset' = Place[next + 1]
    <3> SUFFICES ASSUME next + 1 <= Len(book.pages) PROVE offset' = Place[next + 1]
      OBVIOUS
    <3>1. next + 1 \in 1 .. Len(book.pages) /\ (next + 1) - 1 = next /\ next + 1 # 1
      BY <1>2, <2>2
    <3>2. Place[next + 1] = Place[next] + Passed(page)
      BY <1>2, <3>1
    <3> QED
      BY <2>3, <2>4, <3>2
  <2>9. offset' \in Nat /\ pages'[n + 1].start \in Nat
    BY <1>2, <2>2, <2>3
  <2> HIDE DEF page
  <2>10. (\A k \in DOMAIN pages : k < Len(pages) =>
            /\ pages[k + 1].start >= pages[k].start + Passed(book.pages[pages[k].number])
            /\ pages[k + 1].start # pages[k].start + Passed(book.pages[pages[k].number]) =>
                  \E m \in pages[k].number .. pages[k + 1].number : Empty(m))'
    <3>1. \A k \in 1 .. n + 1 : k < n + 1 => k \in 1 .. n
      BY <2>1
    <3> QED
      BY <2>2, <2>6, <3>1 DEF Empty, Passed
  <2>11. (next <= Len(book.pages) => offset = Place[next])'
    BY <2>2, <2>8
  <2>12. (LET last == pages[Len(pages)] IN offset = last.start + Passed(book.pages[last.number]))'
    BY <2>2, <2>7 DEF Passed
  <2> QED
    BY <2>5, <2>9, <2>10, <2>11, <2>12 DEF PlaceInv
<1>5. CASE EndPrepare
  BY <1>1, <1>5, EndPrepareSteps DEF PlaceInv, Empty
<1>6. CASE ~SkipPage /\ ~PreparePage /\ ~EndPrepare
  <2>1. CASE UNCHANGED vars
    BY <1>1, <2>1 DEF vars, prepareVars, PlaceInv, Empty
  <2>2. CASE pc # "prepare" /\ pc' # "prepare"
    BY <1>1, <1>6, <2>2, LaterSteps DEF PlaceInv, Empty
  <2> QED
    BY <1>6, <2>1, <2>2, LaterSteps
<1> QED
  BY <1>3, <1>4, <1>5, <1>6

\* The pages of the body up to a page that show a title.
Titled(kind, number) ==
    {n \in DOMAIN book.pages :
        /\ n <= number /\ Detected(book.pages[n])[kind] # Untitled
        /\ \E i \in DOMAIN pages : pages[i].number = n /\ pages[i].section = "body"}

\* The title of a page is the last one shown; blank pages show none.
LEMMA ShownIsLast ==
    ASSUME NEW kind, NEW number
    PROVE  Shown(kind, number) = IF Titled(kind, number) = {} THEN Untitled
                                 ELSE Detected(book.pages[Max(Titled(kind, number))])[kind]
  BY DEF Shown, Titled

LEMMA SamePagesShow ==
    ASSUME book' = book, pages' = pages, NEW kind, NEW number
    PROVE  Shown(kind, number)' = Shown(kind, number)
  BY DEF Shown, Detected

LEMMA SamePagesTitled ==
    ASSUME book' = book, pages' = pages, TitledPages
    PROVE  TitledPages'
<1>1. Kinds' = Kinds /\ NoHeading' = NoHeading
  BY DEF Kinds, NoHeading, Untitled
<1>2. ASSUME NEW k \in DOMAIN pages, pages[k].section = "body", NEW kind \in Kinds
      PROVE  (pages[k].heading[kind] = Shown(kind, pages[k].number))'
  <2>1. PICK number : number = pages[k].number
    OBVIOUS
  <2>2. pages[k].heading[kind] = Shown(kind, number)
    BY <1>2, <2>1 DEF TitledPages
  <2>3. pages'[k].heading[kind] = Shown(kind, number)' /\ number = pages'[k].number
    BY <2>1, <2>2, SamePagesShow
  <2> QED
    BY <2>3 DEF Shown
<1>3. \A k \in DOMAIN pages : pages[k].section # "body" => pages[k].heading = NoHeading
  BY DEF TitledPages
<1> QED
  BY <1>1, <1>2, <1>3 DEF TitledPages

\* A page that is not one of those prepared shows nothing.
LEMMA SkippedShowsNothing ==
    ASSUME TypeInv, PagesInv, pc = "prepare", next \in 1 .. Len(book.pages), NEW kind
    PROVE  Shown(kind, next) = Shown(kind, next - 1)
<1>1. \A i \in DOMAIN pages : pages[i].number \in Nat /\ pages[i].number < next
  BY PageTypes
<1>2. DOMAIN book.pages = 1 .. Len(book.pages) /\ next \in Nat /\ Len(book.pages) \in Nat
  BY BookTypes DEF TypeInv
<1>3. \A n \in DOMAIN book.pages :
        (\E i \in DOMAIN pages : pages[i].number = n /\ pages[i].section = "body") =>
            (n <= next <=> n <= next - 1)
  BY <1>1, <1>2
<1>4. Titled(kind, next) = Titled(kind, next - 1)
  BY <1>3 DEF Titled
<1> QED
  BY <1>4, ShownIsLast

\* What a prepared page shows itself, or what was shown before it.
LEMMA PreparedShows ==
    ASSUME TypeInv, PagesInv, PreparePage, NEW kind \in Kinds
    PROVE  LET page == book.pages[next] IN
           /\ \A number \in 1 .. next - 1 : Shown(kind, number)' = Shown(kind, number)
           /\ \A number \in 1 .. next :
                number = next =>
                  Shown(kind, number)' =
                    IF Resolved(page) = "body" /\ Detected(page)[kind] # Untitled
                    THEN Detected(page)[kind] ELSE Shown(kind, next - 1)
<1> DEFINE page == book.pages[next]
<1>1. PICK n \in Nat : n = Len(pages)
  BY PreparedIsLast
<1>2. /\ DOMAIN pages = 1 .. n /\ DOMAIN pages' = 1 .. n + 1 /\ next \in 1 .. Len(book.pages)
      /\ \A k \in 1 .. n : pages'[k] = pages[k]
      /\ pages'[n + 1].number = next /\ pages'[n + 1].section = Resolved(page)
      /\ book' = book /\ pc = "prepare"
  BY <1>1, PreparedIsLast
<1>3. \A i \in DOMAIN pages : pages[i].number \in Nat /\ pages[i].number < next
  BY <1>2, PageTypes
<1>4. DOMAIN book.pages = 1 .. Len(book.pages) /\ next \in Nat /\ Len(book.pages) \in Nat
  BY BookTypes DEF TypeInv
<1> DEFINE InBody(m) == \E i \in DOMAIN pages : pages[i].number = m /\ pages[i].section = "body"
           InBodyNext(m) == \E i \in DOMAIN pages' : pages'[i].number = m /\ pages'[i].section = "body"
<1>5. \A m \in Nat : InBodyNext(m) <=> InBody(m) \/ (m = next /\ Resolved(page) = "body")
  <2> HIDE DEF page
  <2>1. 1 .. n + 1 = (1 .. n) \cup {n + 1}
    BY <1>1
  <2> QED
    BY <1>2, <2>1
<1>6. \A m \in Nat : InBody(m) => m < next
  BY <1>3
<1>7. \A number : Titled(kind, number)' =
        {m \in 1 .. Len(book.pages) :
            m <= number /\ Detected(book.pages[m])[kind] # Untitled /\ InBodyNext(m)}
  BY <1>2, <1>4 DEF Titled, Detected
<1>8. \A number : Titled(kind, number) =
        {m \in 1 .. Len(book.pages) :
            m <= number /\ Detected(book.pages[m])[kind] # Untitled /\ InBody(m)}
  BY <1>4 DEF Titled
<1>9. \A number : Shown(kind, number)' = IF Titled(kind, number)' = {} THEN Untitled
                                 ELSE Detected(book.pages[Max(Titled(kind, number)')])[kind]
  BY <1>2 DEF Shown, Titled, Detected
<1>10. \A number : Shown(kind, number) = IF Titled(kind, number) = {} THEN Untitled
                                 ELSE Detected(book.pages[Max(Titled(kind, number))])[kind]
  BY ShownIsLast
<1> HIDE DEF InBody, InBodyNext, page
<1>11. ASSUME NEW number \in 1 .. next - 1
       PROVE  Shown(kind, number)' = Shown(kind, number)
  <2>0. \A m \in 1 .. Len(book.pages) :
          (m <= number /\ Detected(book.pages[m])[kind] # Untitled /\ InBodyNext(m))
            <=> (m <= number /\ Detected(book.pages[m])[kind] # Untitled /\ InBody(m))
    <3> SUFFICES ASSUME NEW m \in 1 .. Len(book.pages), m <= number
                 PROVE  InBodyNext(m) <=> InBody(m)
      OBVIOUS
    <3>1. m \in Nat /\ m # next
      BY <1>4
    <3> QED
      BY <1>5, <3>1
  <2>1. Titled(kind, number)' = Titled(kind, number)
    BY <1>7, <1>8, <2>0
  <2> QED
    BY <1>9, <1>10, <2>1
<1>12. ASSUME NEW number \in 1 .. next, number = next
       PROVE  Shown(kind, number)' =
                 IF Resolved(page) = "body" /\ Detected(page)[kind] # Untitled
                 THEN Detected(page)[kind] ELSE Shown(kind, next - 1)
  <2>1. CASE Resolved(page) = "body" /\ Detected(page)[kind] # Untitled
    <3> DEFINE S == Titled(kind, number)'
    <3>1. S \in SUBSET (0 .. next) /\ next \in S
      BY <1>2, <1>4, <1>5, <1>7, <1>12, <2>1 DEF page
    <3>2. Max(S) \in S /\ \A y \in S : y <= Max(S)
      <4> HIDE DEF S
      <4> QED
        BY <1>4, <3>1, MaxFacts
    <3>3. Max(S) = next
      <4> HIDE DEF S
      <4>1. Max(S) \in 0 .. next /\ next <= Max(S)
        BY <3>1, <3>2
      <4> QED
        BY <1>4, <4>1
    <3> QED
      BY <1>9, <2>1, <3>1, <3>3 DEF page
  <2>2. CASE ~(Resolved(page) = "body" /\ Detected(page)[kind] # Untitled)
    <3>1. \A m \in 1 .. Len(book.pages) :
            (m <= number /\ Detected(book.pages[m])[kind] # Untitled /\ InBodyNext(m))
              <=> (m <= next - 1 /\ Detected(book.pages[m])[kind] # Untitled /\ InBody(m))
      <4> SUFFICES ASSUME NEW m \in 1 .. Len(book.pages), Detected(book.pages[m])[kind] # Untitled
                   PROVE  m <= number /\ InBodyNext(m) <=> m <= next - 1 /\ InBody(m)
        OBVIOUS
      <4>1. m \in Nat
        BY <1>4
      <4>2. InBodyNext(m) <=> InBody(m) \/ (m = next /\ Resolved(page) = "body")
        BY <1>5, <4>1
      <4>3. ~(m = next /\ Resolved(page) = "body")
        BY <2>2 DEF page
      <4>4. InBody(m) => m < next
        BY <1>6, <4>1
      <4> QED
        BY <1>4, <1>12, <4>1, <4>2, <4>3, <4>4
    <3>2. Titled(kind, number)' = Titled(kind, next - 1)
      BY <1>7, <1>8, <3>1
    <3> QED
      BY <1>9, <1>10, <2>2, <3>2
  <2> QED
    BY <2>1, <2>2
<1> QED
  BY <1>11, <1>12 DEF page

\* The titles carried along are those a reader is under.
LEMMA HeadingStep ==
    ASSUME TypeInv, PagesInv, HeadingInv, [Next]_vars
    PROVE  HeadingInv'
<1>1. CASE SkipPage
  <2>1. /\ pc = "prepare" /\ pc' = "prepare" /\ next \in 1 .. Len(book.pages)
        /\ next' = next + 1 /\ heading' = heading /\ book' = book /\ pages' = pages
    BY <1>1, SkipPageSteps
  <2>2. \A kind, number : Shown(kind, number)' = Shown(kind, number)
    BY <2>1, SamePagesShow
  <2>3. next' - 1 = next
    BY <2>1 DEF TypeInv
  <2>5. \A kind \in Kinds : (heading[kind] = Shown(kind, next - 1))'
    <3> SUFFICES ASSUME NEW kind \in Kinds PROVE (heading[kind] = Shown(kind, next - 1))'
      OBVIOUS
    <3>1. PICK number : number = next
      OBVIOUS
    <3>2. heading'[kind] = Shown(kind, number)'
      BY <2>1, <2>2, <3>1, SkippedShowsNothing DEF HeadingInv
    <3>3. number = next' - 1
      BY <2>3, <3>1
    <3> QED
      BY <3>2, <3>3 DEF Shown
  <2>6. TitledPages'
    BY <2>1, SamePagesTitled DEF HeadingInv
  <2> QED
    BY <2>5, <2>6 DEF HeadingInv, Kinds
<1>2. CASE PreparePage
  <2> DEFINE page == book.pages[next]
  <2>1. PICK n \in Nat : n = Len(pages)
    BY <1>2, PreparedIsLast
  <2>2. /\ DOMAIN pages = 1 .. n /\ DOMAIN pages' = 1 .. n + 1 /\ next \in 1 .. Len(book.pages)
        /\ \A k \in 1 .. n : pages'[k] = pages[k]
        /\ pages'[n + 1].number = next /\ pages'[n + 1].section = Resolved(page)
        /\ pages'[n + 1].heading = IF Resolved(page) = "body" THEN Continued(page) ELSE NoHeading
        /\ book' = book /\ pc = "prepare" /\ pc' = "prepare" /\ next' = next + 1
    BY <1>2, <2>1, PreparedIsLast
  <2>3. heading' = IF Resolved(page) = "body" THEN Continued(page) ELSE heading
    BY <1>2, PreparePageSteps
  <2>4. next \in Nat /\ next' - 1 = next /\ next \in 1 .. next
    BY <2>2 DEF TypeInv
  <2>5. \A kind \in Kinds :
          /\ heading[kind] = Shown(kind, next - 1)
          /\ Continued(page)[kind] = IF Detected(page)[kind] = Untitled THEN heading[kind]
                                     ELSE Detected(page)[kind]
    BY <2>2, HeadingTypes DEF HeadingInv, Continued, Kinds
  <2>6. \A kind \in Kinds :
          LET was == IF Resolved(page) = "body" /\ Detected(page)[kind] # Untitled
                     THEN Detected(page)[kind] ELSE Shown(kind, next - 1)
          IN  /\ heading'[kind] = was
              /\ Resolved(page) = "body" => Continued(page)[kind] = was
    BY <2>3, <2>5
  <2>7. \A kind \in Kinds, number \in 1 .. next :
          number = next => /\ heading'[kind] = Shown(kind, number)'
                           /\ Resolved(page) = "body" => Continued(page)[kind] = Shown(kind, number)'
    BY <1>2, <2>6, PreparedShows
  <2>8. \A kind \in Kinds : (heading[kind] = Shown(kind, next - 1))'
    <3> SUFFICES ASSUME NEW kind \in Kinds PROVE (heading[kind] = Shown(kind, next - 1))'
      OBVIOUS
    <3>1. PICK number \in 1 .. next : number = next
      BY <2>4
    <3>2. heading'[kind] = Shown(kind, number)'
      BY <2>7, <3>1
    <3>3. number = next' - 1
      BY <2>4, <3>1
    <3> QED
      BY <3>2, <3>3 DEF Shown
  <2>9. ASSUME NEW k \in 1 .. n + 1
        PROVE  IF pages'[k].section = "body"
               THEN \A kind \in Kinds : (pages[k].heading[kind] = Shown(kind, pages[k].number))'
               ELSE pages'[k].heading = NoHeading
    <3>1. CASE k \in 1 .. n
      <4>1. pages'[k] = pages[k]
        BY <2>2, <3>1
      <4>2. PICK number \in 1 .. next - 1 : number = pages[k].number
        BY <2>1, <2>2, <2>4, <3>1, PageTypes
      <4>3. \A kind \in Kinds : Shown(kind, number)' = Shown(kind, number)
        BY <1>2, PreparedShows
      <4>4. IF pages[k].section = "body"
            THEN \A kind \in Kinds : pages[k].heading[kind] = Shown(kind, number)
            ELSE pages[k].heading = NoHeading
        BY <2>2, <3>1, <4>2 DEF HeadingInv, TitledPages
      <4>5. pages'[k].section = "body" =>
              \A kind \in Kinds : (pages[k].heading[kind] = Shown(kind, pages[k].number))'
        <5> SUFFICES ASSUME pages'[k].section = "body", NEW kind \in Kinds
                     PROVE  (pages[k].heading[kind] = Shown(kind, pages[k].number))'
          OBVIOUS
        <5>1. pages'[k].heading[kind] = Shown(kind, number)' /\ number = pages'[k].number
          BY <4>1, <4>2, <4>3, <4>4
        <5> QED
          BY <5>1 DEF Shown
      <4> QED
        BY <4>1, <4>4, <4>5
    <3>2. CASE k = n + 1
      <4>1. pages'[k].section = "body" =>
              \A kind \in Kinds : (pages[k].heading[kind] = Shown(kind, pages[k].number))'
        <5> SUFFICES ASSUME pages'[k].section = "body", NEW kind \in Kinds
                     PROVE  (pages[k].heading[kind] = Shown(kind, pages[k].number))'
          OBVIOUS
        <5>1. PICK number \in 1 .. next : number = next
          BY <2>4
        <5>2. pages'[k].heading[kind] = Shown(kind, number)' /\ number = pages'[k].number
          BY <2>2, <2>7, <3>2, <5>1
        <5> QED
          BY <5>2 DEF Shown
      <4> QED
        BY <2>2, <3>2, <4>1
    <3> QED
      BY <2>1, <3>1, <3>2
  <2> HIDE DEF page
  <2>10. TitledPages'
    <3>1. NoHeading' = NoHeading /\ Kinds' = Kinds
      BY DEF NoHeading, Kinds, Untitled
    <3> QED
      BY <2>2, <2>9, <3>1 DEF TitledPages
  <2> QED
    BY <2>8, <2>10 DEF HeadingInv, Kinds
<1>3. CASE EndPrepare
  <2>1. pc' # "prepare" /\ book' = book /\ pages' = pages
    BY <1>3, EndPrepareSteps
  <2> QED
    BY <2>1, SamePagesTitled DEF HeadingInv
<1>4. CASE ~SkipPage /\ ~PreparePage /\ ~EndPrepare
  <2>1. CASE UNCHANGED vars
    <3>1. book' = book /\ pages' = pages /\ pc' = pc /\ heading' = heading /\ next' = next
      BY <2>1 DEF vars, prepareVars
    <3>2. \A kind \in Kinds : pc = "prepare" => (heading[kind] = Shown(kind, next - 1))'
      <4> SUFFICES ASSUME NEW kind \in Kinds, pc = "prepare"
                   PROVE  (heading[kind] = Shown(kind, next - 1))'
        OBVIOUS
      <4>1. PICK number : number = next - 1
        OBVIOUS
      <4>2. heading'[kind] = Shown(kind, number)' /\ number = next' - 1
        BY <3>1, <4>1, SamePagesShow DEF HeadingInv
      <4> QED
        BY <4>2 DEF Shown
    <3> QED
      BY <3>1, <3>2, SamePagesTitled DEF HeadingInv, Kinds
  <2>2. CASE pc # "prepare" /\ pc' # "prepare"
    <3>1. book' = book /\ pages' = pages
      BY <1>4, LaterSteps
    <3> QED
      BY <2>2, <3>1, SamePagesTitled DEF HeadingInv
  <2> QED
    BY <1>4, <2>1, <2>2, LaterSteps
<1> QED
  BY <1>1, <1>2, <1>3, <1>4

-----------------------------------------------------------------------------
(* The group.                                                              *)

\* The spans are records of numbers and titles.
LEMMA SpanTypes ==
    ASSUME TypeInv
    PROVE  /\ spans \in Seq(SpanType) /\ Len(spans) \in Nat /\ DOMAIN spans = 1 .. Len(spans)
           /\ \A k \in 1 .. Len(spans) :
                /\ spans[k] \in SpanType /\ spans[k].page \in Nat /\ spans[k].start \in Nat
                /\ spans[k].end \in Nat /\ spans[k].heading \in Headings
<1>1. spans \in Seq(SpanType)
  BY DEF TypeInv
<1>2. \A k \in 1 .. Len(spans) : spans[k] \in SpanType
  BY <1>1
<1>3. \A s \in SpanType : s.page \in Nat /\ s.start \in Nat /\ s.end \in Nat /\ s.heading \in Headings
  BY DEF SpanType
<1> QED
  BY <1>1, <1>2, <1>3

\* The first page of a group.
LEMMA OpenGroup ==
    ASSUME TypeInv, PagesInv, GroupInv, TakePage, text = <<>>
    PROVE  /\ Before' = next - 1 /\ DOMAIN spans' = {1} /\ Len(spans') = 1
           /\ spans'[1] = Span(pages[next], 0, Len(text')) /\ pages' = pages /\ book' = book
           /\ SpanPage(1)' = pages[next] /\ GroupSection' = pages[next].section
           /\ base' = pages[next].start /\ text' = Cells(pages[next].number) /\ text' # <<>>
           /\ Len(text') = Len(book.pages[pages[next].number].text) /\ next' = next + 1
<1>1. /\ next \in 1 .. Len(pages) /\ pages[next].number \in 1 .. Len(book.pages)
      /\ text' = Cells(pages[next].number) /\ next' = next + 1
      /\ spans' = Append(spans, Span(pages[next], 0, Len(text')))
      /\ Span(pages[next], 0, Len(text')) \in SpanType
      /\ base' = pages[next].start /\ pages' = pages /\ book' = book
      /\ Len(text') = 0 + Len(book.pages[pages[next].number].text)
  BY TakePageSteps
<1>2. spans = <<>>
  BY DEF GroupInv
<1>3. DOMAIN spans' = {1} /\ Len(spans') = 1 /\ spans'[1] = Span(pages[next], 0, Len(text'))
  <2> DEFINE s == Span(pages[next], 0, Len(text'))
  <2>1. spans' = <<s>>
    BY <1>1, <1>2
  <2> HIDE DEF s
  <2> QED
    BY <2>1 DEF s
<1>4. next \in Nat /\ Len(pages) \in Nat
  BY PageTypes DEF TypeInv
<1>5. Before' = next - 1
  BY <1>1, <1>3, <1>4 DEF Before
<1>6. SpanPage(1)' = pages[next] /\ GroupSection' = pages[next].section
  BY <1>1, <1>4, <1>5 DEF SpanPage, GroupSection
<1>7. text' # <<>>
  <2>1. ~Empty(pages[next].number)
    BY <1>1, PageTypes DEF PagesInv
  <2>2. book.pages[pages[next].number].text # <<>>
    BY <2>1 DEF Empty, Blank
  <2>3. book.pages[pages[next].number].text \in Seq(Chars)
    BY <1>1, BookTypes DEF TypeInv
  <2>4. Len(book.pages[pages[next].number].text) # 0
    BY <2>2, <2>3
  <2> QED
    BY <1>1, <2>4
<1> QED
  BY <1>1, <1>3, <1>5, <1>6, <1>7

\* A further page of the group.
LEMMA ExtendGroup ==
    ASSUME TypeInv, PagesInv, GroupInv, TakePage, text # <<>>, NEW m \in Nat, m = Len(spans)
    PROVE  /\ Before' = Before /\ DOMAIN spans = 1 .. m /\ DOMAIN spans' = 1 .. m + 1
           /\ Len(spans') = m + 1 /\ m >= 1 /\ pages' = pages /\ book' = book /\ base' = base
           /\ \A k \in 1 .. m : spans'[k] = spans[k]
           /\ spans'[m + 1] = Span(pages[next], Len(text) + 2, Len(text'))
           /\ \A k \in 1 .. m + 1 : SpanPage(k)' = SpanPage(k)
           /\ SpanPage(m) = pages[next - 1] /\ SpanPage(m + 1) = pages[next]
           /\ GroupSection' = GroupSection /\ pages[next].section = GroupSection
           /\ text' = text \o Joint \o Cells(pages[next].number) /\ next' = next + 1
           /\ Len(text') = Len(text) + 2 + Len(book.pages[pages[next].number].text)
           /\ next - 1 \in 1 .. Len(pages) /\ next \in 1 .. Len(pages)
           /\ pages[next].number \in 1 .. Len(book.pages)
<1>1. /\ next \in 1 .. Len(pages) /\ pages[next].number \in 1 .. Len(book.pages)
      /\ pc = "group" /\ book.pdf
      /\ text' = text \o Joint \o Cells(pages[next].number) /\ next' = next + 1
      /\ spans' = Append(spans, Span(pages[next], Len(text) + 2, Len(text')))
      /\ Span(pages[next], Len(text) + 2, Len(text')) \in SpanType
      /\ base' = base /\ pages' = pages /\ book' = book /\ pages[next].section = GroupSection
      /\ Len(text') = Len(text) + 2 + Len(book.pages[pages[next].number].text)
  BY TakePageSteps
<1>2. spans # <<>> /\ Before >= 0
  BY <1>1 DEF GroupInv
<1>3. spans \in Seq(SpanType) /\ m >= 1
  BY <1>2, SpanTypes
<1>4. /\ DOMAIN spans = 1 .. m /\ DOMAIN spans' = 1 .. m + 1 /\ Len(spans') = m + 1
      /\ \A k \in 1 .. m : spans'[k] = spans[k]
      /\ spans'[m + 1] = Span(pages[next], Len(text) + 2, Len(text'))
  <2> DEFINE s == Span(pages[next], Len(text) + 2, Len(text'))
  <2>1. s \in SpanType /\ spans' = Append(spans, s)
    BY <1>1
  <2> HIDE DEF s
  <2> QED
    BY <1>3, <2>1 DEF s
<1>5. next \in Nat /\ Len(pages) \in Nat
  BY PageTypes DEF TypeInv
<1>6. Before' = Before /\ Before = next - 1 - m
  BY <1>1, <1>4, <1>5 DEF Before
<1>7. \A k \in 1 .. m + 1 : SpanPage(k)' = SpanPage(k)
  BY <1>1, <1>6 DEF SpanPage
<1>8. SpanPage(m) = pages[next - 1] /\ SpanPage(m + 1) = pages[next]
  <2>1. Before + m = next - 1 /\ Before + (m + 1) = next
    BY <1>5, <1>6
  <2> QED
    BY <2>1 DEF SpanPage
<1>9. GroupSection' = pages[next].section
  BY <1>1, <1>5 DEF GroupSection
<1>10. next - 1 \in 1 .. Len(pages)
  BY <1>1, <1>2, <1>3, <1>5, <1>6
<1> QED
  BY <1>1, <1>3, <1>4, <1>6, <1>7, <1>8, <1>9, <1>10

\* A further span is right.
LEMMA ExtendedSpans ==
    ASSUME TypeInv, PagesInv, PlaceInv, GroupInv, TakePage, text # <<>>
    PROVE  /\ \A k \in DOMAIN spans' : SpanIsRight(k)'
           /\ spans'[Len(spans')].end = Len(text')
<1>1. PICK m \in Nat : m = Len(spans)
  BY SpanTypes
<1> DEFINE page == pages[next]
           prev == pages[next - 1]
           len == Len(book.pages[page.number].text)
           span == spans'[m + 1]
<1>2. /\ Before' = Before /\ DOMAIN spans = 1 .. m /\ DOMAIN spans' = 1 .. m + 1
      /\ Len(spans') = m + 1 /\ m >= 1 /\ pages' = pages /\ book' = book /\ base' = base
      /\ \A k \in 1 .. m : spans'[k] = spans[k]
      /\ span = Span(page, Len(text) + 2, Len(text'))
      /\ \A k \in 1 .. m + 1 : SpanPage(k)' = SpanPage(k)
      /\ SpanPage(m) = prev /\ SpanPage(m + 1) = page
      /\ GroupSection' = GroupSection /\ page.section = GroupSection
      /\ Len(text') = Len(text) + 2 + len
      /\ next - 1 \in 1 .. Len(pages) /\ next \in 1 .. Len(pages)
      /\ page.number \in 1 .. Len(book.pages)
  BY <1>1, ExtendGroup
<1>3. /\ Len(text) \in Nat /\ len \in Nat /\ base \in Nat /\ next \in Nat /\ Len(pages) \in Nat
      /\ book.pdf /\ pc = "group"
      /\ \A k \in 1 .. m : spans[k].start \in Nat /\ spans[k].end \in Nat
  <2>1. len \in Nat
    BY <1>2, BookTypes DEF TypeInv
  <2>2. book.pdf /\ pc = "group"
    BY TakePageSteps
  <2> HIDE DEF len
  <2> QED
    BY <1>1, <2>1, <2>2, SpanTypes, PageTypes DEF TypeInv
<1>4. /\ \A k \in 1 .. m : SpanIsRight(k)
      /\ spans[m].end = Len(text) /\ spans[1].start = 0
  BY <1>1, <1>2, <1>3 DEF GroupInv
<1>5. /\ span.page = page.number /\ span.heading = page.heading
      /\ span.start = Len(text) + 2 /\ span.end = Len(text')
  <2> HIDE DEF page, span
  <2> QED
    BY <1>2 DEF Span
<1>6. /\ prev.start \in Nat /\ page.start \in Nat /\ prev.number \in Nat /\ page.number \in Nat
      /\ prev.number < page.number /\ SpanPage(1).number <= prev.number
      /\ SpanPage(1).number \in Nat
      /\ \A k \in 1 .. m : SpanPage(k).number \in Nat /\ SpanPage(k).start \in Nat
  <2>1. prev.start \in Nat /\ page.start \in Nat /\ prev.number \in Nat /\ page.number \in Nat
    BY <1>2, PageTypes
  <2>2. prev.number < page.number
    BY <1>2, <1>3, PageTypes DEF PagesInv
  <2>3. \A k \in 1 .. m : Before + k \in 1 .. Len(pages) /\ SpanPage(k) \in PageType
    BY <1>2, <1>3, SpanPages
  <2>4. \A k \in 1 .. m : SpanPage(k).number \in Nat /\ SpanPage(k).start \in Nat
    <3> SUFFICES ASSUME NEW k \in 1 .. m
                 PROVE  SpanPage(k).number \in Nat /\ SpanPage(k).start \in Nat
      OBVIOUS
    <3>1. SpanPage(k) \in PageType
      BY <2>3
    <3> QED
      BY <3>1 DEF PageType
  <2>5. SpanPage(1).number <= prev.number
    <3>1. CASE m = 1
      BY <1>2, <2>1, <3>1
    <3>2. CASE m > 1
      <4>1. Before + 1 < Before + m /\ Before + m = next - 1
        BY <1>1, <1>3, <3>2 DEF Before
      <4>2. Before + 1 \in DOMAIN pages /\ Before + m \in DOMAIN pages
        BY <1>2, <2>3, PageTypes
      <4>3. pages[Before + 1].number < pages[Before + m].number
        BY <4>1, <4>2 DEF PagesInv
      <4>4. SpanPage(1) = pages[Before + 1] /\ prev = pages[Before + m]
        BY <4>1 DEF SpanPage
      <4>5. SpanPage(1).number \in Nat
        BY <1>2, <2>4
      <4> QED
        BY <2>1, <4>3, <4>4, <4>5
    <3> QED
      BY <1>1, <1>2, <3>1, <3>2
  <2> QED
    BY <1>2, <2>1, <2>2, <2>4, <2>5
<1>7. /\ page.start >= prev.start + Passed(book.pages[prev.number])
      /\ page.start # prev.start + Passed(book.pages[prev.number]) =>
            \E n \in prev.number .. page.number : Empty(n)
  <2>1. next - 1 \in DOMAIN pages /\ next - 1 < Len(pages) /\ (next - 1) + 1 = next
    BY <1>2, <1>3, PageTypes
  <2> QED
    BY <2>1 DEF PlaceInv
<1>8. /\ base + spans[m].start <= prev.start
      /\ base + spans[m].start < prev.start =>
            \E n \in SpanPage(1).number .. prev.number : Empty(n)
      /\ spans[m].end = spans[m].start + Len(book.pages[prev.number].text)
      /\ Passed(book.pages[prev.number]) = Len(book.pages[prev.number].text) + 2
      /\ Len(book.pages[prev.number].text) \in Nat
  <2>1. SpanIsRight(m) /\ spans[m].page = prev.number
    BY <1>2, <1>4 DEF SpanIsRight
  <2>2. Len(book.pages[prev.number].text) \in Nat
    <3>1. prev.number \in 1 .. Len(book.pages)
      BY <1>2, PageTypes
    <3> QED
      BY <3>1, BookTypes DEF TypeInv
  <2> HIDE DEF prev
  <2> QED
    BY <1>2, <2>1, <2>2 DEF SpanIsRight, Passed
<1> HIDE DEF page, prev, len, span
<1>9. /\ base + span.start <= page.start
      /\ base + span.start < page.start => \E n \in SpanPage(1).number .. page.number : Empty(n)
  <2>0. /\ spans[m].start \in Nat /\ spans[m].end = Len(text) /\ span.start = Len(text) + 2
        /\ Passed(book.pages[prev.number]) \in Nat
        /\ Passed(book.pages[prev.number]) = spans[m].end - spans[m].start + 2
    <3>1. m \in 1 .. m
      BY <1>2
    <3>2. spans[m].start \in Nat
      BY <1>3, <3>1
    <3>3. /\ spans[m].end = spans[m].start + Len(book.pages[prev.number].text)
          /\ Passed(book.pages[prev.number]) = Len(book.pages[prev.number].text) + 2
          /\ Len(book.pages[prev.number].text) \in Nat
      BY <1>8
    <3>4. spans[m].end = Len(text) /\ span.start = Len(text) + 2
      BY <1>4, <1>5
    <3>5. PICK n \in Nat : n = Len(book.pages[prev.number].text)
      BY <3>3
    <3>6. PICK s \in Nat : s = spans[m].start
      BY <3>2
    <3>7. spans[m].end = s + n /\ Passed(book.pages[prev.number]) = n + 2
      BY <3>3, <3>5, <3>6
    <3> QED
      BY <3>4, <3>6, <3>7
  <2>1. base + span.start = base + spans[m].start + Passed(book.pages[prev.number])
    BY <1>3, <2>0
  <2>2. base + span.start <= page.start
    <3>1. base + spans[m].start <= prev.start
      BY <1>8
    <3>2. page.start >= prev.start + Passed(book.pages[prev.number])
      BY <1>7
    <3>3. PICK b \in Nat, p \in Nat, q \in Nat : b = base /\ p = prev.start /\ q = page.start
      BY <1>3, <1>6
    <3>4. PICK f \in Nat, d \in Nat : f = spans[m].start /\ d = Passed(book.pages[prev.number])
      BY <2>0
    <3>5. b + f <= p /\ q >= p + d /\ base + span.start = b + f + d
      BY <2>1, <3>1, <3>2, <3>3, <3>4
    <3>6. b + f + d <= q
      BY <3>5
    <3> QED
      BY <3>3, <3>5, <3>6
  <2>3. ASSUME base + span.start < page.start
        PROVE  \E n \in SpanPage(1).number .. page.number : Empty(n)
    <3>1. \/ base + spans[m].start < prev.start
          \/ page.start # prev.start + Passed(book.pages[prev.number])
      <4>1. base + spans[m].start <= prev.start
        BY <1>8
      <4>2. PICK b \in Nat, p \in Nat, q \in Nat : b = base /\ p = prev.start /\ q = page.start
        BY <1>3, <1>6
      <4>3. PICK f \in Nat, d \in Nat : f = spans[m].start /\ d = Passed(book.pages[prev.number])
        BY <2>0
      <4>4. b + f <= p /\ b + f + d < q
        BY <2>1, <2>3, <4>1, <4>2, <4>3
      <4>5. b + f < p \/ q # p + d
        BY <4>2, <4>3, <4>4
      <4> QED
        BY <4>2, <4>3, <4>5
    <3>2. \/ \E n \in SpanPage(1).number .. prev.number : Empty(n)
          \/ \E n \in prev.number .. page.number : Empty(n)
      BY <1>7, <1>8, <3>1
    <3>3. /\ \A n \in SpanPage(1).number .. prev.number : n \in SpanPage(1).number .. page.number
          /\ \A n \in prev.number .. page.number : n \in SpanPage(1).number .. page.number
      BY <1>6
    <3> QED
      BY <3>2, <3>3
  <2> QED
    BY <2>2, <2>3
<1>10. ASSUME NEW k \in 1 .. m
       PROVE  SpanIsRight(k)'
  <2>1. SpanIsRight(k)
    BY <1>4
  <2>2. spans'[k] = spans[k] /\ SpanPage(k)' = SpanPage(k) /\ SpanPage(1)' = SpanPage(1)
    BY <1>1, <1>2
  <2>3. spans[k].end \in Nat /\ spans[k].end <= Len(text')
    <3>1. PICK e \in Nat, l \in Nat : e = spans[k].end /\ l = Len(text)
      BY <1>3
    <3>2. e <= l
      BY <2>1, <3>1 DEF SpanIsRight
    <3>3. Len(text') \in Nat /\ l <= Len(text')
      BY <1>2, <1>3, <3>1
    <3> QED
      BY <3>1, <3>2, <3>3
  <2>4. k < Len(spans') => spans'[k + 1].start = spans'[k].end + 2
    <3>1. CASE k = m
      BY <1>2, <1>4, <1>5, <2>2, <3>1 DEF span
    <3>2. CASE k < m
      <4>1. k + 1 \in 1 .. m
        BY <1>1, <3>2
      <4> QED
        BY <1>1, <1>2, <2>1, <2>2, <3>2, <4>1 DEF SpanIsRight
    <3> QED
      BY <1>1, <3>1, <3>2
  <2>5. \A n : Empty(n)' = Empty(n)
    BY <1>2 DEF Empty
  <2>6. \A j \in 1 .. k - 1 : spans'[j].end + 2 <= spans'[k].start
    BY <1>2, <2>1 DEF SpanIsRight
  <2> QED
    BY <1>2, <2>1, <2>2, <2>3, <2>4, <2>5, <2>6 DEF SpanIsRight
<1>11. ASSUME NEW k \in {m + 1}
       PROVE  SpanIsRight(k)'
  <2>1. spans'[k] = span /\ SpanPage(k)' = page /\ SpanPage(1)' = SpanPage(1)
    BY <1>1, <1>2 DEF span
  <2>2. ~(k < Len(spans'))
    BY <1>1, <1>2
  <2>3. span.end = span.start + len /\ span.end <= Len(text')
    <3>1. Len(text') = Len(text) + 2 + len
      BY <1>2
    <3> QED
      BY <1>3, <1>5, <3>1
  <2>4. \A n : Empty(n)' = Empty(n)
    BY <1>2 DEF Empty
  <2>5. \A j \in 1 .. k - 1 : spans'[j].end + 2 <= spans'[k].start
    <3> SUFFICES ASSUME NEW j \in 1 .. k - 1 PROVE spans'[j].end + 2 <= spans'[k].start
      OBVIOUS
    <3>1. j \in 1 .. m
      BY <1>1
    <3>2. spans'[j] = spans[j] /\ spans[j].end \in Nat /\ spans[j].end <= Len(text)
      BY <1>2, <1>3, <1>4, <3>1 DEF SpanIsRight
    <3> QED
      BY <1>3, <1>5, <2>1, <3>2
  <2> QED
    BY <1>2, <1>5, <1>9, <2>1, <2>2, <2>3, <2>4, <2>5 DEF SpanIsRight, len
<1>12. \A k \in 1 .. m + 1 : k \in 1 .. m \/ k \in {m + 1}
  BY <1>1
<1> QED
  BY <1>2, <1>5, <1>10, <1>11, <1>12 DEF span

\* A group that stays as it is.
LEMMA SameGroup ==
    ASSUME GroupInv, UNCHANGED <<book, pages, text, spans, base, next>>,
           pc \in {"group", "cut"}, pc' \in {"group", "cut"}, pc' = "cut" => text # <<>>
    PROVE  GroupInv'
<1>1. Before' = Before /\ GroupSection' = GroupSection
  BY DEF Before, GroupSection
<1>2. \A k : SpanPage(k)' = SpanPage(k)
  BY <1>1 DEF SpanPage
<1>3. \A n : Empty(n)' = Empty(n)
  BY DEF Empty
<1>4. \A k : SpanIsRight(k)' = SpanIsRight(k)
  BY <1>1, <1>2, <1>3 DEF SpanIsRight
<1>5. Cells(1)' = Cells(1)
  BY DEF Cells
<1> QED
  BY <1>1, <1>2, <1>4, <1>5 DEF GroupInv

\* A group that is left behind, or cut further.
LEMMA AdvancedGroup ==
    ASSUME TypeInv, GroupInv, pc = "cut", NEW end, NEW to, Advance(end, to)
    PROVE  GroupInv'
<1>1. UNCHANGED <<book, pages, base, next>>
  BY DEF Advance
<1>2. CASE end >= Len(text)
  <2>1. pc' = "group" /\ text' = <<>> /\ spans' = <<>>
    BY <1>2 DEF Advance
  <2>2. Before' = next - 1 /\ next \in Nat \ {0}
    BY <1>1, <2>1 DEF Before, TypeInv
  <2>3. Before' >= 0
    BY <2>2
  <2> QED
    BY <1>1, <2>1, <2>3 DEF GroupInv
<1>3. CASE ~(end >= Len(text))
  <2>1. pc' = pc /\ text' = text /\ spans' = spans
    BY <1>3 DEF Advance
  <2>2. text # <<>>
    BY DEF GroupInv
  <2> QED
    BY <1>1, <2>1, <2>2, SameGroup
<1> QED
  BY <1>2, <1>3

\* The spans of a group are its pages, in a row.
LEMMA GroupStep ==
    ASSUME TypeInv, PagesInv, PlaceInv, GroupInv, [Next]_vars
    PROVE  GroupInv'
<1>1. CASE SkipPage \/ PreparePage
  <2>1. pc = "prepare" /\ pc' = "prepare" /\ book' = book /\ text' = text /\ spans' = spans
    BY <1>1 DEF SkipPage, PreparePage, groupVars
  <2>2. text = <<>> /\ spans = <<>> /\ book.pdf
    BY <2>1 DEF GroupInv, PagesInv
  <2> QED
    BY <2>1, <2>2 DEF GroupInv
<1>2. CASE EndPrepare
  <2>1. pc = "prepare" /\ pc' = "group" /\ book' = book /\ text' = text /\ spans' = spans
        /\ next' = 1 /\ pages' = pages
    BY <1>2, EndPrepareSteps DEF groupVars
  <2>2. text = <<>> /\ spans = <<>> /\ book.pdf
    BY <2>1 DEF GroupInv, PagesInv
  <2>3. Len(pages') \in Nat
    BY <2>1, PageTypes
  <2>4. Before' = 0
    <3>1. Len(spans') = 0
      BY <2>1, <2>2
    <3> QED
      BY <2>1, <3>1 DEF Before
  <2> QED
    BY <2>1, <2>2, <2>3, <2>4 DEF GroupInv
<1>3. CASE TakePage
  <2>1. pc = "group" /\ pc' = "group" /\ book.pdf /\ book' = book /\ pages' = pages
        /\ next \in 1 .. Len(pages) /\ next' = next + 1 /\ Len(pages) \in Nat /\ next \in Nat
    BY <1>3, TakePageSteps, PageTypes DEF TypeInv
  <2>2. next' <= Len(pages') + 1
    BY <2>1
  <2>3. CASE text = <<>>
    <3>1. /\ Before' = next - 1 /\ DOMAIN spans' = {1} /\ Len(spans') = 1
          /\ spans'[1] = Span(pages[next], 0, Len(text'))
          /\ SpanPage(1)' = pages[next] /\ GroupSection' = pages[next].section
          /\ base' = pages[next].start /\ text' # <<>>
          /\ Len(text') = Len(book.pages[pages[next].number].text)
      BY <1>3, <2>3, OpenGroup
    <3>2. spans'[1].page = pages[next].number /\ spans'[1].heading = pages[next].heading
          /\ spans'[1].start = 0 /\ spans'[1].end = Len(text')
      BY <3>1 DEF Span
    <3>3. pages[next].start \in Nat /\ Len(text') \in Nat
      BY <1>3, <2>1, PageTypes, TakePageSteps
    <3>4. SpanIsRight(1)'
      <4>1. base' + 0 = pages[next].start /\ ~(base' + 0 < pages[next].start)
            /\ base' + 0 <= pages[next].start /\ ~(1 < Len(spans'))
            /\ Len(text') = 0 + Len(book.pages[pages[next].number].text) /\ Len(text') <= Len(text')
        BY <3>1, <3>3
      <4> QED
        <5>1. \A j \in 1 .. 1 - 1 : FALSE
          OBVIOUS
        <5> QED
          BY <2>1, <3>1, <3>2, <4>1, <5>1 DEF SpanIsRight
    <3>5. Before' >= 0 /\ spans' # <<>>
      <4>1. spans' # <<>>
        <5>1. Len(spans') = 1
          BY <3>1
        <5> QED
          BY <5>1
      <4>2. next - 1 >= 0
        BY <2>1
      <4> QED
        BY <3>1, <4>1, <4>2
    <3> QED
      BY <2>1, <2>2, <3>1, <3>2, <3>4, <3>5 DEF GroupInv
  <2>4. CASE text # <<>>
    <3>1. PICK m \in Nat : m = Len(spans)
      BY SpanTypes
    <3>2. /\ Before' = Before /\ Len(spans') = m + 1 /\ m >= 1 /\ base' = base
          /\ spans'[1] = spans[1] /\ SpanPage(1)' = SpanPage(1)
          /\ Len(text') = Len(text) + 2 + Len(book.pages[pages[next].number].text)
          /\ pages[next].number \in 1 .. Len(book.pages)
      <4>0. m >= 1
        BY <1>3, <2>4, <3>1, ExtendGroup
      <4>1. 1 \in 1 .. m /\ 1 \in 1 .. m + 1
        BY <3>1, <4>0
      <4> QED
        BY <1>3, <2>4, <3>1, <4>1, ExtendGroup
    <3>3. /\ \A k \in DOMAIN spans' : SpanIsRight(k)'
          /\ spans'[Len(spans')].end = Len(text')
      BY <1>3, <2>4, ExtendedSpans
    <3>4. Before >= 0 /\ base = SpanPage(1).start /\ spans[1].start = 0
      BY <2>1, <2>4 DEF GroupInv
    <3>5. spans' # <<>>
      BY <3>1, <3>2
    <3>6. text' # <<>>
      <4>1. Len(text) \in Nat /\ Len(book.pages[pages[next].number].text) \in Nat
        BY <3>2, BookTypes DEF TypeInv
      <4>2. Len(text') # 0
        <5>1. Len(text') = Len(text) + 2 + Len(book.pages[pages[next].number].text)
          BY <3>2
        <5>2. PICK a \in Nat : a = Len(text)
          BY <4>1
        <5>3. PICK b \in Nat : b = Len(book.pages[pages[next].number].text)
          BY <4>1
        <5>4. Len(text') = a + 2 + b
          BY <5>1, <5>2, <5>3
        <5> QED
          BY <5>4
      <4> QED
        BY <4>2
    <3> QED
      BY <2>1, <2>2, <3>2, <3>3, <3>4, <3>5, <3>6 DEF GroupInv
  <2> QED
    BY <2>3, <2>4
<1>4. CASE CloseGroup
  BY <1>4, SameGroup DEF CloseGroup, BeginCuts, groupVars
<1>5. CASE ReadText
  <2>1. /\ pc' = "cut" /\ ~book.pdf /\ book' = book /\ text' = Cells(1) /\ spans' = spans
        /\ base' = base /\ ~Empty(1)
    BY <1>5 DEF ReadText, BeginCuts, Empty
  <2>2. 1 \in 1 .. Len(book.pages) /\ book.pages[1].text \in Seq(Chars)
    <3>1. Len(book.pages) = 1
      BY <2>1, BookTypes DEF TypeInv
    <3>2. 1 \in 1 .. Len(book.pages)
      BY <3>1
    <3> QED
      BY <3>2, BookTypes DEF TypeInv
  <2>3. Len(book.pages[1].text) # 0
    BY <2>1, <2>2 DEF Empty, Blank
  <2>4. Cells(1) # <<>>
    <3>1. Len(Cells(1)) # 0
      BY <2>2, <2>3, CellsTypes DEF TypeInv
    <3> QED
      BY <3>1
  <2>5. Cells(1)' = Cells(1)
    BY <2>1 DEF Cells
  <2> QED
    BY <2>1, <2>4, <2>5 DEF GroupInv
<1>6. CASE EndGroups
  <2>1. pc' = "embed" /\ text = <<>> /\ text' = <<>> /\ spans' = spans /\ book' = book /\ base' = base
    BY <1>6 DEF EndGroups, groupVars
  <2> QED
    BY <2>1 DEF GroupInv
<1>7. CASE CutSpan
  BY <1>7, AdvancedGroup DEF CutSpan
<1>8. CASE CutText
  BY <1>8, AdvancedGroup DEF CutText
<1>9. CASE EmbedBatch \/ EmbeddingFails \/ StoreChunks
  <2>1. /\ pc = "embed" /\ pc' \notin {"group", "cut"}
        /\ UNCHANGED <<book, text, spans, base>>
    BY <1>9 DEF EmbedBatch, EmbeddingFails, StoreChunks, groupVars
  <2> QED
    BY <2>1 DEF GroupInv
<1>10. CASE UNCHANGED vars
  <2>1. UNCHANGED <<book, pages, text, spans, base, next, pc>>
    BY <1>10 DEF vars, groupVars
  <2>2. CASE pc \in {"group", "cut"}
    <3>1. pc' = "cut" => text # <<>>
      BY <2>1 DEF GroupInv
    <3> QED
      BY <2>1, <2>2, <3>1, SameGroup
  <2>3. CASE pc \notin {"group", "cut"}
    BY <2>1, <2>3 DEF GroupInv
  <2> QED
    BY <2>2, <2>3
<1> QED
  BY <1>1, <1>2, <1>3, <1>4, <1>5, <1>6, <1>7, <1>8, <1>9, <1>10 DEF Next

\* The cells of a group are those of its pages: when nothing is added, when it is left
\* behind, when it is opened and when it is extended.
LEMMA SameCells ==
    ASSUME CellInv, UNCHANGED <<book, text, spans>>
    PROVE  CellInv'
<1>1. \A n : Cells(n)' = Cells(n)
  BY DEF Cells
<1>2. \A k : (spans[k].page)' = spans[k].page
  OBVIOUS
<1>3. \A q : CellIsRight(q)' <=> CellIsRight(q)
  <2> SUFFICES ASSUME NEW q PROVE CellIsRight(q)' <=> CellIsRight(q)
    OBVIOUS
  <2>1. \A k : Cells(spans[k].page)' = Cells(spans[k].page)
    BY DEF Cells
  <2> QED
    BY <2>1 DEF CellIsRight, InSpan
<1> QED
  BY <1>3 DEF CellInv

LEMMA AdvancedCells ==
    ASSUME CellInv, NEW end, NEW to, Advance(end, to)
    PROVE  CellInv'
<1>1. CASE end >= Len(text)
  BY <1>1 DEF Advance, CellInv
<1>2. CASE ~(end >= Len(text))
  BY <1>2, SameCells DEF Advance
<1> QED
  BY <1>1, <1>2

LEMMA OpenedCells ==
    ASSUME TypeInv, PagesInv, GroupInv, CellInv, TakePage, text = <<>>
    PROVE  CellInv'
<1> DEFINE number == pages[next].number
<1>1. /\ DOMAIN spans' = {1} /\ spans'[1] = Span(pages[next], 0, Len(text')) /\ book' = book
      /\ text' = Cells(number) /\ number \in 1 .. Len(book.pages)
  BY OpenGroup, TakePageSteps
<1>2. spans'[1].page = number /\ spans'[1].start = 0 /\ spans'[1].end = Len(text')
  BY <1>1 DEF Span
<1>3. Cells(number) \in Seq(CellType)
  <2> HIDE DEF number
  <2> QED
    BY <1>1, CellsTypes DEF TypeInv
<1> HIDE DEF number
<1>4. ASSUME NEW q \in DOMAIN text'
      PROVE  CellIsRight(q)'
  <2>1. q \in 1 .. Len(text') /\ q - 0 = q
    BY <1>1, <1>3
  <2>2. InSpan(1, q)'
    BY <1>2, <2>1 DEF InSpan
  <2>3. (Cells(spans[1].page)[q - spans[1].start])' = Cells(number)[q]
    BY <1>1, <1>2, <2>1 DEF Cells
  <2> QED
    BY <1>1, <2>2, <2>3 DEF CellIsRight
<1> QED
  BY <1>4 DEF CellInv

LEMMA ExtendedCells ==
    ASSUME TypeInv, PagesInv, PlaceInv, GroupInv, CellInv, TakePage, text # <<>>
    PROVE  CellInv'
<1>1. PICK m \in Nat : m = Len(spans)
  BY SpanTypes
<1> DEFINE number == pages[next].number
<1>2. /\ DOMAIN spans = 1 .. m /\ DOMAIN spans' = 1 .. m + 1 /\ book' = book
      /\ \A k \in 1 .. m : spans'[k] = spans[k]
      /\ spans'[m + 1] = Span(pages[next], Len(text) + 2, Len(text'))
      /\ text' = text \o Joint \o Cells(number)
      /\ number \in 1 .. Len(book.pages)
  BY <1>1, ExtendGroup
<1>3. /\ spans'[m + 1].page = number /\ spans'[m + 1].start = Len(text) + 2
      /\ spans'[m + 1].end = Len(text')
  BY <1>2 DEF Span
<1>4. Cells(number) \in Seq(CellType) /\ text \in Seq(CellType)
  <2> HIDE DEF number
  <2> QED
    BY <1>2, CellsTypes DEF TypeInv
<1> DEFINE cells == Cells(number)
<1> HIDE DEF number, cells
<1>5. PICK a \in Nat : a = Len(text)
  BY <1>4
<1>6. PICK b \in Nat : b = Len(cells)
  BY <1>4 DEF cells
<1>7. /\ text' \in Seq(CellType) /\ Len(text') = a + 2 + b
      /\ \A q \in 1 .. a : text'[q] = text[q]
      /\ \A q \in a + 1 .. a + 2 : text'[q] = Cell(0, 0, "n")
      /\ \A q \in 1 .. b : text'[a + 2 + q] = cells[q]
  <2>1. cells \in Seq(CellType) /\ text' = text \o Joint \o cells
    BY <1>2, <1>4 DEF cells
  <2> QED
    BY <1>4, <1>5, <1>6, <2>1, JoinFacts
<1>8. \A k \in 1 .. m : spans[k].end \in Nat /\ spans[k].end <= a /\ spans[k].start \in Nat
  <2> SUFFICES ASSUME NEW k \in 1 .. m
               PROVE  spans[k].end \in Nat /\ spans[k].end <= a /\ spans[k].start \in Nat
    OBVIOUS
  <2>1. SpanIsRight(k)
    BY <1>2, TakePageSteps DEF GroupInv
  <2> QED
    BY <1>1, <1>5, <2>1, SpanTypes DEF SpanIsRight
<1>9. \A k \in 1 .. m, q \in Nat : InSpan(k, q)' <=> InSpan(k, q)
  BY <1>2 DEF InSpan
<1>10. \A q \in Nat : InSpan(m + 1, q)' <=> a + 2 < q /\ q <= a + 2 + b
  BY <1>3, <1>5, <1>7 DEF InSpan
<1>11. \A k \in 1 .. m, q \in Nat : InSpan(k, q) => q <= a
  BY <1>8 DEF InSpan
<1>12. \A k \in 1 .. m + 1 : k \in 1 .. m \/ k = m + 1
  OBVIOUS
<1>13. ASSUME NEW q \in 1 .. a
       PROVE  CellIsRight(q)'
  <2>1. CellIsRight(q) /\ text'[q] = text[q] /\ q \in Nat
    <3>1. q \in DOMAIN text /\ book.pdf
      BY <1>4, <1>5, TakePageSteps
    <3> QED
      BY <1>7, <3>1 DEF CellInv
  <2>2. CASE text[q] = Cell(0, 0, "n") /\ \A k \in DOMAIN spans : ~InSpan(k, q)
    <3>1. ~InSpan(m + 1, q)'
      BY <1>5, <1>10, <2>1
    <3>2. \A k \in 1 .. m + 1 : ~InSpan(k, q)'
      BY <1>2, <1>9, <1>12, <2>1, <2>2, <3>1
    <3> QED
      BY <1>2, <2>1, <2>2, <3>2 DEF CellIsRight, Cell
  <2>3. CASE \E k \in DOMAIN spans :
               InSpan(k, q) /\ text[q] = Cells(spans[k].page)[q - spans[k].start]
    <3>1. PICK k \in 1 .. m : InSpan(k, q) /\ text[q] = Cells(spans[k].page)[q - spans[k].start]
      BY <1>2, <2>3
    <3>2. InSpan(k, q)' /\ k \in DOMAIN spans'
      BY <1>1, <1>2, <1>9, <2>1, <3>1
    <3>3. (Cells(spans[k].page)[q - spans[k].start])' = Cells(spans[k].page)[q - spans[k].start]
      BY <1>2 DEF Cells
    <3> QED
      BY <2>1, <3>1, <3>2, <3>3 DEF CellIsRight
  <2> QED
    BY <2>1, <2>2, <2>3 DEF CellIsRight
<1>14. ASSUME NEW q \in a + 1 .. a + 2
       PROVE  CellIsRight(q)'
  <2>1. q \in Nat /\ ~(q <= a) /\ ~(a + 2 < q)
    OBVIOUS
  <2>2. \A k \in 1 .. m + 1 : ~InSpan(k, q)'
    BY <1>9, <1>10, <1>11, <1>12, <2>1
  <2> QED
    BY <1>2, <1>7, <2>2 DEF CellIsRight, Cell
<1>15. ASSUME NEW q \in a + 3 .. a + 2 + b
       PROVE  CellIsRight(q)'
  <2>1. q \in Nat /\ a + 2 < q /\ q <= a + 2 + b /\ q - (a + 2) \in 1 .. b
        /\ a + 2 + (q - (a + 2)) = q
    OBVIOUS
  <2>2. InSpan(m + 1, q)' /\ m + 1 \in DOMAIN spans'
    BY <1>1, <1>2, <1>10, <2>1
  <2>3. text'[q] = cells[q - (a + 2)]
    BY <1>7, <2>1
  <2>4. (Cells(spans[m + 1].page)[q - spans[m + 1].start])' = cells[q - (a + 2)]
    BY <1>2, <1>3, <1>5 DEF Cells, cells
  <2> QED
    BY <2>2, <2>3, <2>4 DEF CellIsRight
<1>16. \A q \in DOMAIN text' : q \in 1 .. a \/ q \in a + 1 .. a + 2 \/ q \in a + 3 .. a + 2 + b
  BY <1>7
<1> QED
  BY <1>13, <1>14, <1>15, <1>16 DEF CellInv

\* In every step.
LEMMA CellStep ==
    ASSUME TypeInv, PagesInv, PlaceInv, GroupInv, CellInv, [Next]_vars
    PROVE  CellInv'
<1>1. CASE SkipPage \/ PreparePage \/ EndPrepare
  BY <1>1, SameCells DEF SkipPage, PreparePage, EndPrepare, groupVars
<1>2. CASE TakePage
  BY <1>2, OpenedCells, ExtendedCells
<1>3. CASE CloseGroup \/ EndGroups
  BY <1>3, SameCells DEF CloseGroup, EndGroups, groupVars
<1>4. CASE ReadText
  BY <1>4 DEF ReadText, CellInv
<1>5. CASE CutSpan \/ CutText
  BY <1>5, AdvancedCells DEF CutSpan, CutText
<1>6. CASE EmbedBatch \/ EmbeddingFails \/ StoreChunks
  BY <1>6, SameCells DEF EmbedBatch, EmbeddingFails, StoreChunks, groupVars
<1>7. CASE UNCHANGED vars
  BY <1>7, SameCells DEF vars, groupVars
<1> QED
  BY <1>1, <1>2, <1>3, <1>4, <1>5, <1>6, <1>7 DEF Next

-----------------------------------------------------------------------------
(* The order and the size of the chunks.                                   *)

\* The chunks are records of numbers, cells and titles.
LEMMA ChunkTypes ==
    ASSUME TypeInv
    PROVE  /\ chunks \in Seq(ChunkType) /\ Len(chunks) \in Nat /\ DOMAIN chunks = 1 .. Len(chunks)
           /\ \A i \in 1 .. Len(chunks) :
                /\ chunks[i].start \in Nat /\ chunks[i].end \in Nat /\ chunks[i].index \in Nat
                /\ chunks[i].content \in Seq(CellType) /\ Len(chunks[i].content) \in Nat
<1>1. chunks \in Seq(ChunkType)
  BY DEF TypeInv
<1>2. \A i \in 1 .. Len(chunks) : chunks[i] \in ChunkType
  BY <1>1
<1>3. \A c \in ChunkType : /\ c.start \in Nat /\ c.end \in Nat /\ c.index \in Nat
                           /\ c.content \in Seq(CellType) /\ Len(c.content) \in Nat
  BY DEF ChunkType
<1> QED
  BY <1>1, <1>2, <1>3

Longest == IF book.pdf THEN Size + Least - 1 ELSE PlainSize

\* A chunk that is of an accepted size, has the next index and is behind the others.
LEMMA AppendedChunk ==
    ASSUME TypeInv, ChunksInv, book' = book, skipped' = skipped, NEW c \in ChunkType,
           chunks' = Append(chunks, c), Len(c.content) \in 1 .. Longest,
           book.pdf => c.content[1].char \notin Blanks, c.start <= c.end,
           ~skipped => c.index = Len(chunks),
           \A i \in DOMAIN chunks : chunks[i].start <= c.start /\ chunks[i].end <= c.end
    PROVE  ChunksInv'
<1>1. PICK n \in Nat : n = Len(chunks)
  BY ChunkTypes
<1>2. /\ DOMAIN chunks = 1 .. n /\ DOMAIN chunks' = 1 .. n + 1 /\ chunks'[n + 1] = c
      /\ \A i \in 1 .. n : chunks'[i] = chunks[i]
  <2>1. chunks \in Seq(ChunkType)
    BY ChunkTypes
  <2> QED
    BY <1>1, <2>1
<1>3. \A i \in 1 .. n + 1 : i \in 1 .. n \/ i = n + 1
  OBVIOUS
<1>4. /\ \A i \in 1 .. n : Len(chunks[i].content) \in 1 .. Longest
      /\ \A i \in 1 .. n : book.pdf => chunks[i].content[1].char \notin Blanks
      /\ \A i, j \in 1 .. n : i < j =>
            /\ chunks[i].index = chunks[j].index => skipped
            /\ chunks[i].start <= chunks[j].start /\ chunks[i].end <= chunks[j].end
      /\ \A i \in 1 .. n : chunks[i].start <= chunks[i].end /\ (~skipped => chunks[i].index = i - 1)
  BY <1>2 DEF ChunksInv, Acceptable, Longest
<1>5. \A i \in 1 .. n + 1 : Len(chunks'[i].content) \in 1 .. Longest
  BY <1>2, <1>3, <1>4
<1>6. \A i \in 1 .. n + 1 : book.pdf => chunks'[i].content[1].char \notin Blanks
  BY <1>2, <1>3, <1>4
<1>7. \A i, j \in 1 .. n + 1 : i < j =>
        /\ chunks'[i].index = chunks'[j].index => skipped
        /\ chunks'[i].start <= chunks'[j].start /\ chunks'[i].end <= chunks'[j].end
  <2> SUFFICES ASSUME NEW i \in 1 .. n + 1, NEW j \in 1 .. n + 1, i < j
               PROVE  /\ chunks'[i].index = chunks'[j].index => skipped
                      /\ chunks'[i].start <= chunks'[j].start /\ chunks'[i].end <= chunks'[j].end
    OBVIOUS
  <2>1. i \in 1 .. n
    OBVIOUS
  <2>2. CASE j \in 1 .. n
    BY <1>2, <1>4, <2>1, <2>2
  <2>3. CASE j = n + 1
    <3>1. ~skipped => chunks[i].index = i - 1 /\ c.index = n /\ i - 1 # n
      BY <1>1, <1>4, <2>1
    <3> QED
      BY <1>2, <2>1, <2>3, <3>1
  <2> QED
    BY <1>3, <2>2, <2>3
<1>8. \A i \in 1 .. n + 1 : chunks'[i].start <= chunks'[i].end /\ (~skipped => chunks'[i].index = i - 1)
  <2>1. ~skipped => c.index = (n + 1) - 1
    BY <1>1
  <2> QED
    BY <1>2, <1>3, <1>4, <2>1
<1> QED
  BY <1>2, <1>5, <1>6, <1>7, <1>8 DEF ChunksInv, Acceptable, Longest

LEMMA SameChunks ==
    ASSUME ChunksInv, book' = book, chunks' = chunks, skipped' = skipped \/ skipped' = TRUE
    PROVE  ChunksInv'
  BY DEF ChunksInv, Acceptable

\* A chunk of a PDF is behind those before it.
LEMMA NewChunkOrder ==
    ASSUME TypeInv, PagesInv, GroupInv, OrderInv, CutSpan, Visible # {}
    PROVE  /\ Len(NewChunk.content) \in 1 .. Longest
           /\ NewChunk.content[1].char \notin Blanks /\ NewChunk.start <= NewChunk.end
           /\ ~skipped => NewChunk.index = Len(chunks)
           /\ \A i \in DOMAIN chunks :
                chunks[i].start <= NewChunk.start /\ chunks[i].end <= NewChunk.end
<1>1. pc = "cut" /\ book.pdf /\ Cutting
  BY IsCutting, CutSpanSteps
<1>2. /\ start \in Nat /\ Len(text) \in Nat /\ End \in start + 1 .. Len(text)
      /\ End <= start + Size + Least - 1
  BY <1>1, EndFacts DEF Cutting, EndIsNear
<1>3. /\ From \in start .. End /\ To \in From + 1 .. End /\ From + 1 \in Visible /\ To \in Visible
      /\ \A q \in Visible : From + 1 <= q /\ q <= To
  BY <1>1, VisibleFacts
<1>4. /\ NewChunk.index = first + local /\ NewChunk.start = base + From /\ NewChunk.end = base + To
      /\ Len(NewChunk.content) = To - From
      /\ \A i \in 1 .. To - From : NewChunk.content[i] = text[From + i]
  BY NewChunkTypes
<1>5. Size \in Nat /\ Least \in Nat /\ base \in Nat
  BY SizesAssumption DEF TypeInv
<1>6. Len(NewChunk.content) \in 1 .. Longest
  BY <1>1, <1>2, <1>3, <1>4, <1>5 DEF Longest
<1>7. NewChunk.content[1].char \notin Blanks
  <2>1. 1 \in 1 .. To - From
    BY <1>2, <1>3
  <2> QED
    BY <1>3, <1>4, <2>1 DEF Visible
<1>8. NewChunk.start <= NewChunk.end
  BY <1>2, <1>3, <1>4, <1>5
<1>9. ~skipped => NewChunk.index = Len(chunks)
  BY <1>1, <1>4 DEF OrderInv
<1>10. ASSUME NEW i \in DOMAIN chunks
       PROVE  chunks[i].start <= NewChunk.start /\ chunks[i].end <= NewChunk.end
  <2>1. IsBehind(i)
    BY <1>1 DEF OrderInv
  <2>2. chunks[i].start \in Nat /\ chunks[i].end \in Nat
    BY ChunkTypes
  <2>3. chunks[i].start <= base + (From + 1) - 1
    <3>1. From + 1 \in start + 1 .. Len(text) /\ text[From + 1].char \notin Blanks
      BY <1>2, <1>3 DEF Visible
    <3> QED
      BY <1>1, <2>1, <3>1 DEF IsBehind, LiesBehind
  <2>4. chunks[i].end <= base + To
    <3>1. CASE chunks[i].end <= base + start
      BY <1>2, <1>3, <1>5, <2>2, <3>1
    <3>2. CASE \E q \in start + 1 .. End : text[q].char \notin Blanks /\ chunks[i].end = base + q
      <4>1. PICK q \in start + 1 .. End : text[q].char \notin Blanks /\ chunks[i].end = base + q
        BY <3>2
      <4>2. q \in Visible
        BY <4>1 DEF Visible
      <4>3. q <= To
        BY <1>3, <4>2
      <4> QED
        BY <1>2, <1>3, <1>5, <4>1, <4>3
    <3> QED
      BY <1>1, <2>1, <3>1, <3>2 DEF IsBehind, LiesBehind
  <2> QED
    BY <1>2, <1>3, <1>4, <1>5, <2>2, <2>3, <2>4
<1> QED
  BY <1>6, <1>7, <1>8, <1>9, <1>10

\* The chunks with the one that is cut lie behind what comes.
LEMMA CutChunks ==
    ASSUME TypeInv, PagesInv, GroupInv, OrderInv, CutSpan
    PROVE  \A i \in DOMAIN chunks' :
              /\ chunks'[i].start \in Nat /\ chunks'[i].end \in Nat
              /\ LiesBehind(chunks'[i].start, chunks'[i].end)
<1>1. pc = "cut" /\ book.pdf /\ Cutting
  BY IsCutting, CutSpanSteps
<1>2. PICK n \in Nat : n = Len(chunks)
  BY ChunkTypes
<1>3. \A i \in 1 .. n : /\ chunks[i].start \in Nat /\ chunks[i].end \in Nat
                        /\ LiesBehind(chunks[i].start, chunks[i].end)
  <2>1. \A i \in 1 .. n : LiesBehind(chunks[i].start, chunks[i].end)
    BY <1>1, <1>2, ChunkTypes DEF OrderInv, IsBehind
  <2> QED
    BY <1>2, <2>1, ChunkTypes
<1>4. CASE chunks' = chunks
  BY <1>2, <1>3, <1>4, ChunkTypes
<1>5. CASE Visible # {} /\ chunks' = Append(chunks, NewChunk)
  <2>1. /\ From \in start .. End /\ To \in From + 1 .. End /\ From + 1 \in Visible /\ To \in Visible
        /\ \A q \in Visible : From + 1 <= q /\ q <= To
    BY <1>1, <1>5, VisibleFacts
  <2>2. NewChunk \in ChunkType /\ NewChunk.start = base + From /\ NewChunk.end = base + To
    BY <1>5, NewChunkTypes
  <2>3. start \in Nat /\ base \in Nat /\ Len(text) \in Nat /\ End \in start + 1 .. Len(text)
    BY <1>1, EndFacts DEF Cutting, EndIsNear, TypeInv
  <2>4. NewChunk.start \in Nat /\ NewChunk.end \in Nat
    BY <2>1, <2>2, <2>3
  <2>5. ASSUME NEW q \in start + 1 .. Len(text), text[q].char \notin Blanks
        PROVE  NewChunk.start <= base + q - 1
    <3>1. CASE q <= End
      <4>1. q \in Visible
        BY <2>3, <2>5, <3>1 DEF Visible
      <4>2. From + 1 <= q
        BY <2>1, <4>1
      <4> QED
        BY <2>1, <2>2, <2>3, <4>2
    <3>2. CASE q > End
      BY <2>1, <2>2, <2>3, <3>2
    <3> QED
      BY <2>3, <3>1, <3>2
  <2>6. To \in start + 1 .. End /\ text[To].char \notin Blanks /\ NewChunk.end = base + To
    BY <2>1, <2>2 DEF Visible
  <2>7. LiesBehind(NewChunk.start, NewChunk.end)
    BY <2>5, <2>6 DEF LiesBehind
  <2>8. DOMAIN chunks' = 1 .. n + 1 /\ chunks'[n + 1] = NewChunk
        /\ \A i \in 1 .. n : chunks'[i] = chunks[i]
    <3>1. chunks \in Seq(ChunkType)
      BY ChunkTypes
    <3> HIDE DEF NewChunk
    <3> QED
      BY <1>2, <1>5, <2>2, <3>1
  <2>9. \A i \in 1 .. n + 1 : i \in 1 .. n \/ i = n + 1
    OBVIOUS
  <2> QED
    BY <1>3, <2>4, <2>7, <2>8, <2>9
<1> QED
  BY <1>4, <1>5, CutSpanSteps

\* What lies behind a cut lies behind the next one.
LEMMA BehindTheNext ==
    ASSUME TypeInv, Cutting, End < Len(text), text' = text, base' = base, start' = NextStart,
           NEW from \in Nat, NEW to \in Nat, LiesBehind(from, to)
    PROVE  LiesBehind(from, to)'
<1>1. /\ start \in Nat /\ base \in Nat /\ Len(text) \in Nat /\ End \in start + 1 .. Len(text)
      /\ start' \in start + 1 .. End
  BY EndFacts, NextFacts DEF Cutting, EndIsNear, TypeInv
<1>2. End <= End' /\ End' \in Nat
  <2>1. End <= End' /\ EndIsNear' /\ Cutting'
    BY EndGrows
  <2> QED
    BY <1>1, <2>1 DEF EndIsNear, Cutting
<1>3. \A q \in start' + 1 .. Len(text) : text[q].char \notin Blanks => from <= base + q - 1
  <2>1. \A q \in start' + 1 .. Len(text) : q \in start + 1 .. Len(text)
    BY <1>1
  <2> QED
    BY <2>1 DEF LiesBehind
<1>4. \/ to <= base + start'
      \/ \E q \in start' + 1 .. End' : text[q].char \notin Blanks /\ to = base + q
  <2>1. CASE to <= base + start
    BY <1>1, <2>1
  <2>2. CASE \E q \in start + 1 .. End : text[q].char \notin Blanks /\ to = base + q
    <3>1. PICK q \in start + 1 .. End : text[q].char \notin Blanks /\ to = base + q
      BY <2>2
    <3>2. q <= start' \/ q \in start' + 1 .. End'
      BY <1>1, <1>2
    <3> QED
      BY <1>1, <3>1, <3>2
  <2> QED
    BY <2>1, <2>2 DEF LiesBehind
<1> QED
  BY <1>3, <1>4 DEF LiesBehind

\* Where the text of a group ends: before the next page.
LEMMA GroupEnds ==
    ASSUME TypeInv, PagesInv, PlaceInv, GroupInv, book.pdf, pc \in {"group", "cut"}, text # <<>>,
           next <= Len(pages)
    PROVE  base + Len(text) + 2 <= pages[next].start
<1>1. PICK m \in Nat : m = Len(spans)
  BY SpanTypes
<1>2. spans # <<>> /\ spans[m].end = Len(text)
  BY <1>1 DEF GroupInv
<1>3. m \in DOMAIN spans /\ next - 1 \in 1 .. Len(pages)
  <2>1. m # 0
    BY <1>1, <1>2, SpanTypes
  <2> QED
    BY <1>1, <1>2, <2>1, SpanTypes, SpanPages
<1> DEFINE prev == pages[next - 1]
<1>4. SpanPage(m) = prev
  <2>1. Before + m = next - 1
    BY <1>1 DEF Before, TypeInv
  <2> QED
    BY <2>1 DEF SpanPage
<1>5. SpanIsRight(m)
  BY <1>3 DEF GroupInv
<1>6. next \in Nat /\ Len(pages) \in Nat /\ base \in Nat /\ Len(text) \in Nat /\ spans[m].start \in Nat
  BY <1>1, <1>3, SpanTypes, PageTypes DEF TypeInv
<1>7. pages[next].start >= prev.start + Passed(book.pages[prev.number])
  <2>1. next - 1 \in DOMAIN pages /\ next - 1 < Len(pages) /\ (next - 1) + 1 = next
    BY <1>3, <1>6, PageTypes
  <2> QED
    BY <2>1 DEF PlaceInv
<1>8. /\ base + spans[m].start <= prev.start
      /\ Len(text) = spans[m].start + Len(book.pages[prev.number].text)
      /\ Passed(book.pages[prev.number]) = Len(book.pages[prev.number].text) + 2
  <2> HIDE DEF prev
  <2> QED
    BY <1>2, <1>4, <1>5 DEF SpanIsRight, Passed
<1>9. PICK len \in Nat : len = Len(book.pages[prev.number].text)
  <2>1. prev.number \in 1 .. Len(book.pages)
    BY <1>3, PageTypes
  <2> QED
    BY <2>1, BookTypes DEF TypeInv
<1>10. prev.start \in Nat /\ pages[next].start \in Nat
  <2>1. next \in 1 .. Len(pages)
    BY <1>3, <1>6
  <2> QED
    BY <1>3, <2>1, PageTypes
<1> HIDE DEF prev
<1>11. PICK s \in Nat : s = spans[m].start
  BY <1>6
<1>12. Len(text) = s + len /\ Passed(book.pages[prev.number]) = len + 2 /\ base + s <= prev.start
  BY <1>8, <1>9, <1>11
<1>13. pages[next].start >= prev.start + (len + 2)
  BY <1>7, <1>12
<1> QED
  BY <1>6, <1>10, <1>12, <1>13

\* After a cut of a PDF the chunks are in order, and what is to come lies behind them.
LEMMA CutSpanOrder ==
    ASSUME TypeInv, PagesInv, PlaceInv, GroupInv, OrderInv, CutSpan
    PROVE  OrderInv'
<1>1. pc = "cut" /\ book.pdf /\ Cutting /\ Advance(End, NextStart)
  BY IsCutting, CutSpanSteps
<1>2. ChunksInv'
  <2>1. book' = book /\ ChunksInv
    BY <1>1 DEF Advance, OrderInv
  <2>2. CASE skipped' = TRUE /\ chunks' = chunks
    BY <2>1, <2>2, SameChunks
  <2>3. CASE Visible # {} /\ chunks' = Append(chunks, NewChunk) /\ skipped' = skipped
    <3>1. NewChunk \in ChunkType
      BY <2>3, NewChunkTypes
    <3>2. /\ Len(NewChunk.content) \in 1 .. Longest
          /\ NewChunk.content[1].char \notin Blanks /\ NewChunk.start <= NewChunk.end
          /\ ~skipped => NewChunk.index = Len(chunks)
          /\ \A i \in DOMAIN chunks :
               chunks[i].start <= NewChunk.start /\ chunks[i].end <= NewChunk.end
      BY <2>3, NewChunkOrder
    <3> QED
      BY <2>1, <2>3, <3>1, <3>2, AppendedChunk
  <2> QED
    BY <2>2, <2>3, CutSpanSteps
<1>3. \A i \in DOMAIN chunks' :
        /\ chunks'[i].start \in Nat /\ chunks'[i].end \in Nat
        /\ LiesBehind(chunks'[i].start, chunks'[i].end)
  BY CutChunks
<1>4. UNCHANGED <<book, next, pages, base, first>> /\ local' = local + 1
  BY <1>1 DEF Advance
<1>5. Len(text) \in Nat /\ start \in Nat /\ base \in Nat /\ End \in start + 1 .. Len(text)
  BY <1>1, EndFacts DEF Cutting, EndIsNear, TypeInv
<1>6. CASE End >= Len(text)
  <2>1. pc' = "group" /\ text' = <<>>
    BY <1>1, <1>6 DEF Advance
  <2>2. ASSUME NEW i \in DOMAIN chunks', next <= Len(pages)
        PROVE  chunks'[i].end <= pages[next].start
    <3>1. base + Len(text) + 2 <= pages[next].start
      BY <1>1, <2>2, GroupEnds DEF GroupInv
    <3>2. chunks'[i].end <= base + Len(text)
      <4>1. CASE chunks'[i].end <= base + start
        BY <1>3, <1>5, <4>1
      <4>2. CASE \E q \in start + 1 .. End : text[q].char \notin Blanks /\ chunks'[i].end = base + q
        BY <1>5, <4>2
      <4> QED
        BY <1>3, <4>1, <4>2 DEF LiesBehind
    <3>3. chunks'[i].end \in Nat /\ pages[next].start \in Nat
      <4>1. next \in 1 .. Len(pages)
        BY <2>2, PageTypes DEF TypeInv
      <4> QED
        BY <1>3, <4>1, PageTypes
    <3> QED
      BY <1>5, <3>1, <3>2, <3>3
  <2> QED
    BY <1>1, <1>2, <1>4, <2>1, <2>2 DEF OrderInv
<1>7. CASE End < Len(text)
  <2>1. pc' = "cut" /\ text' = text /\ start' = NextStart
    BY <1>1, <1>5, <1>7 DEF Advance
  <2>2. start' < Len(text')
    BY <1>1, <1>7, <2>1, NextFacts
  <2>3. \A i \in DOMAIN chunks' : IsBehind(i)'
    <3> SUFFICES ASSUME NEW i \in DOMAIN chunks' PROVE IsBehind(i)'
      OBVIOUS
    <3>1. PICK from \in Nat : from = chunks'[i].start
      BY <1>3
    <3>2. PICK to \in Nat : to = chunks'[i].end
      BY <1>3
    <3>3. LiesBehind(from, to)
      BY <1>3, <3>1, <3>2
    <3>4. LiesBehind(from, to)'
      BY <1>1, <1>4, <1>7, <2>1, <3>3, BehindTheNext
    <3> QED
      BY <1>1, <1>4, <3>1, <3>2, <3>4 DEF IsBehind, LiesBehind
  <2>4. ~skipped' => first' + local' = Len(chunks')
    <3>1. CASE skipped' = TRUE
      BY <3>1
    <3>2. CASE chunks' = Append(chunks, NewChunk) /\ skipped' = skipped
      <4>1. ~skipped => first + local = Len(chunks)
        BY <1>1 DEF OrderInv
      <4>2. Len(chunks') = Len(chunks) + 1 /\ Len(chunks) \in Nat
        BY <3>2, ChunkTypes
      <4> QED
        BY <1>4, <3>2, <4>1, <4>2 DEF TypeInv
    <3> QED
      BY <3>1, <3>2, CutSpanSteps
  <2> QED
    BY <1>1, <1>2, <1>4, <2>1, <2>2, <2>3, <2>4 DEF OrderInv
<1> QED
  BY <1>5, <1>6, <1>7

\* The same for a text: its spans have the plain size, but for the last.
LEMMA CutTextSteps ==
    ASSUME TypeInv, GroupInv, OrderInv, CutText
    PROVE  LET end == Smaller(start + PlainSize, Len(text))
               c == Chunk(start, end, {}, "body")
           IN  /\ pc = "cut" /\ ~book.pdf /\ base = 0 /\ next = 2 /\ Cutting
               /\ start \in Nat /\ Len(text) \in Nat
               /\ end \in start + 1 .. Len(text) /\ end <= start + PlainSize
               /\ end < Len(text) => end = start + PlainSize
               /\ c \in ChunkType /\ c.index = first + local /\ c.start = start /\ c.end = end
               /\ Len(c.content) = end - start
               /\ \A i \in 1 .. end - start : c.content[i] = text[start + i]
               /\ chunks' = Append(chunks, c) /\ skipped' = skipped
               /\ Advance(end, start + PlainSize - PlainOverlap)
<1> DEFINE end == Smaller(start + PlainSize, Len(text))
           c == Chunk(start, end, {}, "body")
<1>1. pc = "cut" /\ ~book.pdf
  BY DEF CutText
<1>2. base = 0 /\ next = 2 /\ Cutting
  BY <1>1, IsCutting DEF GroupInv, OrderInv
<1>3. /\ start \in Nat /\ Len(text) \in Nat /\ end \in start + 1 .. Len(text)
      /\ end <= start + PlainSize /\ (end < Len(text) => end = start + PlainSize)
  BY <1>2, SizesAssumption DEF Cutting, Smaller
<1>4. chunks' = Append(chunks, c) /\ skipped' = skipped /\ Advance(end, start + PlainSize - PlainOverlap)
  BY DEF CutText
<1> HIDE DEF end
<1>5. /\ c \in ChunkType /\ c.index = first + local /\ c.start = base + start /\ c.end = base + end
      /\ Len(c.content) = end - start
      /\ \A i \in 1 .. end - start : c.content[i] = text[start + i]
  BY <1>3, PlainChunkTypes
<1> HIDE DEF c
<1>6. c.start = start /\ c.end = end
  BY <1>2, <1>3, <1>5
<1> QED
  BY <1>1, <1>2, <1>3, <1>4, <1>5, <1>6 DEF c, end

LEMMA CutTextOrder ==
    ASSUME TypeInv, GroupInv, OrderInv, CutText
    PROVE  OrderInv'
<1> DEFINE end == Smaller(start + PlainSize, Len(text))
           c == Chunk(start, end, {}, "body")
           to == start + PlainSize - PlainOverlap
<1>1. /\ pc = "cut" /\ ~book.pdf /\ base = 0 /\ next = 2 /\ Cutting
      /\ start \in Nat /\ Len(text) \in Nat
      /\ end \in start + 1 .. Len(text) /\ end <= start + PlainSize
      /\ end < Len(text) => end = start + PlainSize
      /\ c \in ChunkType /\ c.index = first + local /\ c.start = start /\ c.end = end
      /\ Len(c.content) = end - start
      /\ chunks' = Append(chunks, c) /\ skipped' = skipped
      /\ Advance(end, to)
  BY CutTextSteps
<1>2. \A i \in DOMAIN chunks : chunks[i].start <= start /\ chunks[i].end <= end
  BY <1>1 DEF OrderInv, IsBehind
<1>3. PlainSize \in Nat /\ PlainOverlap \in Nat /\ PlainOverlap < PlainSize
  BY SizesAssumption
<1>4. UNCHANGED <<book, next, pages, base, first>> /\ local' = local + 1
  BY <1>1 DEF Advance
<1>5. CASE end >= Len(text)
  <2>1. pc' = "group" /\ text' = <<>>
    BY <1>1, <1>5 DEF Advance
  <2> HIDE DEF end, c, to
  <2>2. ChunksInv'
    <3>1. Len(c.content) \in 1 .. Longest /\ c.start <= c.end
      BY <1>1, <1>3 DEF Longest
    <3>2. ~skipped => c.index = Len(chunks)
      BY <1>1 DEF OrderInv
    <3>3. \A i \in DOMAIN chunks : chunks[i].start <= c.start /\ chunks[i].end <= c.end
      BY <1>1, <1>2
    <3> QED
      BY <1>1, <1>4, <3>1, <3>2, <3>3, AppendedChunk DEF OrderInv
  <2> QED
    BY <1>1, <1>4, <2>1, <2>2 DEF OrderInv
<1>6. CASE end < Len(text)
  <2>1. pc' = "cut" /\ text' = text /\ start' = to
    BY <1>1, <1>6 DEF Advance
  <2>2. start' \in Nat /\ start <= start' /\ start' < Len(text)
    BY <1>1, <1>3, <1>6, <2>1
  <2>3. end <= Smaller(start' + PlainSize, Len(text)) /\ Smaller(start' + PlainSize, Len(text)) \in Nat
    <3>1. end <= Smaller(start' + PlainSize, Len(text))
      BY <1>1, <1>3, <2>2 DEF Smaller
    <3>2. start' + PlainSize \in Nat /\ Len(text) \in Nat
      <4>1. start' \in Nat
        BY <2>2
      <4>2. PlainSize \in Nat
        BY <1>3
      <4>3. PICK s \in Nat : s = start'
        BY <4>1
      <4>4. s + PlainSize \in Nat
        BY <4>2
      <4> QED
        BY <1>1, <4>3, <4>4
    <3>3. Smaller(start' + PlainSize, Len(text)) \in Nat
      BY <3>2, Zenon DEF Smaller
    <3> QED
      BY <3>1, <3>3
  <2> HIDE DEF end, c, to
  <2>4. ChunksInv'
    <3>1. Len(c.content) \in 1 .. Longest /\ c.start <= c.end
      BY <1>1, <1>3 DEF Longest
    <3>2. ~skipped => c.index = Len(chunks)
      BY <1>1 DEF OrderInv
    <3>3. \A i \in DOMAIN chunks : chunks[i].start <= c.start /\ chunks[i].end <= c.end
      BY <1>1, <1>2
    <3> QED
      BY <1>1, <1>4, <3>1, <3>2, <3>3, AppendedChunk DEF OrderInv
  <2>5. PICK n \in Nat : n = Len(chunks)
    BY ChunkTypes
  <2>6. /\ Len(chunks') = n + 1 /\ DOMAIN chunks = 1 .. n /\ DOMAIN chunks' = 1 .. n + 1
        /\ chunks'[n + 1] = c /\ \A i \in 1 .. n : chunks'[i] = chunks[i]
    <3>1. chunks \in Seq(ChunkType)
      BY ChunkTypes
    <3> QED
      BY <1>1, <2>5, <3>1
  <2>7. ASSUME NEW i \in 1 .. n + 1
        PROVE  chunks'[i].start <= start' /\ chunks'[i].end <= Smaller(start' + PlainSize, Len(text))
    <3>1. CASE i \in 1 .. n
      <4>1. chunks[i].start <= start /\ chunks[i].end <= end
            /\ chunks[i].start \in Nat /\ chunks[i].end \in Nat /\ chunks'[i] = chunks[i]
        BY <1>2, <2>5, <2>6, <3>1, ChunkTypes
      <4>2. PICK most \in Nat : most = Smaller(start' + PlainSize, Len(text))
        BY <2>3
      <4>3. start \in Nat /\ end \in Nat /\ end <= most
        BY <1>1, <2>3, <4>2
      <4>4. chunks[i].start <= start' /\ chunks[i].end <= most
        BY <2>2, <4>1, <4>3
      <4> QED
        BY <4>1, <4>2, <4>4
    <3>2. CASE i = n + 1
      BY <1>1, <2>2, <2>3, <2>6, <3>2
    <3> QED
      BY <3>1, <3>2
  <2>8. ~skipped' => first' + local' = Len(chunks')
    <3>1. ~skipped => first + local = n
      BY <1>1, <2>5 DEF OrderInv
    <3>2. first \in Nat /\ local \in Nat
      BY DEF TypeInv
    <3>3. first' = first /\ local' = local + 1 /\ skipped' = skipped
      BY <1>1, <1>4
    <3>4. Len(chunks') = n + 1
      BY <2>6
    <3> QED
      BY <2>5, <3>1, <3>2, <3>3, <3>4
  <2>9. \A i \in DOMAIN chunks' : IsBehind(i)'
    BY <1>1, <1>4, <2>1, <2>6, <2>7 DEF IsBehind
  <2> QED
    BY <1>1, <1>4, <2>1, <2>2, <2>4, <2>8, <2>9 DEF OrderInv
<1> QED
  <2> HIDE DEF end
  <2> QED
    BY <1>1, <1>5, <1>6

\* The chunks are acceptable after every step.
LEMMA OrderStep ==
    ASSUME TypeInv, PagesInv, PlaceInv, GroupInv, OrderInv, [Next]_vars
    PROVE  OrderInv'
<1>1. CASE SkipPage \/ PreparePage
  <2>1. /\ pc = "prepare" /\ pc' = "prepare"
        /\ UNCHANGED <<book, first, local, start, chunks, skipped>>
    BY <1>1 DEF SkipPage, PreparePage, cutVars
  <2> QED
    BY <2>1, SameChunks DEF OrderInv
<1>2. CASE EndPrepare
  <2>1. /\ pc = "prepare" /\ pc' = "group"
        /\ UNCHANGED <<book, first, local, start, chunks, skipped>>
    BY <1>2 DEF EndPrepare, cutVars
  <2>2. chunks = <<>> /\ DOMAIN chunks' = {}
    BY <2>1 DEF OrderInv
  <2> QED
    BY <2>1, <2>2, SameChunks DEF OrderInv
<1>3. CASE TakePage
  <2>1. /\ pc = "group" /\ pc' = "group" /\ book.pdf /\ next \in 1 .. Len(pages)
        /\ book' = book /\ chunks' = chunks /\ skipped' = skipped
        /\ base' = IF text = <<>> THEN pages[next].start ELSE base
        /\ next' = next + 1 /\ Len(text') = (IF text = <<>> THEN 0 ELSE Len(text) + 2)
                                  + Len(book.pages[pages[next].number].text)
    BY <1>3, TakePageSteps DEF cutVars
  <2>2. text' # <<>>
    <3>1. CASE text = <<>>
      BY <1>3, <3>1, OpenGroup
    <3>2. CASE text # <<>>
      <4>1. pages[next].number \in 1 .. Len(book.pages)
        BY <1>3, TakePageSteps
      <4>2. PICK a \in Nat : a = Len(text)
        BY DEF TypeInv
      <4>3. PICK b \in Nat : b = Len(book.pages[pages[next].number].text)
        BY <4>1, BookTypes DEF TypeInv
      <4>4. Len(text') = a + 2 + b
        BY <2>1, <3>2, <4>2, <4>3
      <4>5. Len(text') # 0
        BY <4>4
      <4> QED
        BY <4>5
    <3> QED
      BY <3>1, <3>2
  <2>3. next <= Len(pages)
    BY <2>1
  <2> QED
    BY <2>1, <2>2, <2>3, SameChunks DEF OrderInv
<1>4. CASE CloseGroup
  <2>1. /\ pc = "group" /\ pc' = "cut" /\ book.pdf /\ text # <<>> /\ first' = Len(chunks)
        /\ local' = 0 /\ start' = 0
        /\ UNCHANGED <<book, text, base, chunks, skipped>>
    BY <1>4 DEF CloseGroup, BeginCuts, groupVars
  <2>2. 0 < Len(text)
    <3>1. text \in Seq(CellType)
      BY DEF TypeInv
    <3> QED
      BY <2>1, <3>1
  <2>3. ASSUME NEW i \in DOMAIN chunks
        PROVE  IsBehind(i)'
    <3>1. chunks[i].end <= base /\ chunks[i].start <= chunks[i].end
      BY <2>1 DEF OrderInv, ChunksInv
    <3>2. chunks[i].start \in Nat /\ chunks[i].end \in Nat /\ base \in Nat
      BY ChunkTypes DEF TypeInv
    <3>3. \A q \in 1 .. Len(text) : chunks[i].start <= base + q - 1
      BY <3>1, <3>2
    <3>4. chunks[i].end <= base + 0 /\ 0 + 1 = 1
      BY <3>1, <3>2
    <3> QED
      BY <2>1, <3>3, <3>4 DEF IsBehind, LiesBehind
  <2>4. first' + local' = Len(chunks')
    BY <2>1, ChunkTypes
  <2> QED
    BY <2>1, <2>2, <2>3, <2>4, SameChunks DEF OrderInv
<1>5. CASE ReadText
  <2>1. /\ pc = "group" /\ pc' = "cut" /\ ~book.pdf /\ next = 1 /\ next' = 2 /\ first' = Len(chunks)
        /\ local' = 0 /\ start' = 0 /\ UNCHANGED <<book, chunks, skipped>>
    BY <1>5 DEF ReadText, BeginCuts
  <2>2. chunks = <<>> /\ DOMAIN chunks' = {}
    BY <2>1 DEF OrderInv
  <2>3. GroupInv' /\ TypeInv'
    BY GroupStep, TypeStep
  <2>4. 0 < Len(text')
    <3>1. text' # <<>> /\ text' \in Seq(CellType)
      <4>1. text' # <<>>
        BY <2>1, <2>3 DEF GroupInv
      <4>2. text' \in Seq(CellType)
        BY <2>3 DEF TypeInv
      <4> QED
        BY <4>1, <4>2
    <3> QED
      BY <3>1
  <2>5. first' + local' = Len(chunks')
    BY <2>1, ChunkTypes
  <2> QED
    BY <2>1, <2>2, <2>4, <2>5, SameChunks DEF OrderInv
<1>6. CASE EndGroups
  <2>1. pc' = "embed" /\ UNCHANGED <<book, chunks, skipped>>
    BY <1>6 DEF EndGroups, cutVars
  <2> QED
    BY <2>1, SameChunks DEF OrderInv
<1>7. CASE CutSpan
  BY <1>7, CutSpanOrder
<1>8. CASE CutText
  BY <1>8, CutTextOrder
<1>9. CASE EmbedBatch \/ EmbeddingFails \/ StoreChunks
  <2>1. pc' \in {"embed", "failed", "done"} /\ UNCHANGED <<book, chunks, skipped>>
    BY <1>9 DEF EmbedBatch, EmbeddingFails, StoreChunks, cutVars
  <2> QED
    BY <2>1, SameChunks DEF OrderInv
<1>10. CASE UNCHANGED vars
  <2>1. UNCHANGED <<book, pc, next, pages, text, base, first, local, start, chunks, skipped>>
    BY <1>10 DEF vars, groupVars, cutVars
  <2>2. End' = End
    BY <2>1 DEF End, Target, Ends, Earliest
  <2>3. \A i : IsBehind(i)' <=> IsBehind(i)
    BY <2>1, <2>2 DEF IsBehind, LiesBehind
  <2> QED
    BY <2>1, <2>3, SameChunks DEF OrderInv
<1> QED
  BY <1>1, <1>2, <1>3, <1>4, <1>5, <1>6, <1>7, <1>8, <1>9, <1>10 DEF Next

-----------------------------------------------------------------------------
(* Nothing is lost.                                                        *)

\* What is covered stays covered.
LEMMA StaysCovered ==
    ASSUME TypeInv, [Next]_vars
    PROVE  /\ book' = book /\ \A i \in DOMAIN chunks : i \in DOMAIN chunks' /\ chunks'[i] = chunks[i]
           /\ \A cell : Covered(cell) => Covered(cell)'
           /\ \A n : Cells(n)' = Cells(n)
           /\ \A n : PageCovered(n) => PageCovered(n)'
<1>1. book' = book
  <2>1. CASE SkipPage \/ PreparePage \/ EndPrepare
    BY <2>1 DEF SkipPage, PreparePage, EndPrepare
  <2> QED
    BY <2>1, LaterSteps
<1>2. \A i \in DOMAIN chunks : i \in DOMAIN chunks' /\ chunks'[i] = chunks[i]
  <2>1. chunks \in Seq(ChunkType)
    BY ChunkTypes
  <2>2. CASE chunks' = chunks
    BY <2>2
  <2>3. CASE \E c : chunks' = Append(chunks, c)
    BY <2>1, <2>3
  <2>4. chunks' = chunks \/ \E c : chunks' = Append(chunks, c)
    <3>1. CASE CutSpan
      BY <3>1, CutSpanSteps
    <3>2. CASE CutText
      BY <3>2 DEF CutText
    <3>3. CASE SkipPage \/ PreparePage \/ EndPrepare \/ TakePage \/ EndGroups
      BY <3>3 DEF SkipPage, PreparePage, EndPrepare, TakePage, EndGroups, cutVars
    <3>4. CASE CloseGroup \/ ReadText
      BY <3>4 DEF CloseGroup, ReadText
    <3>5. CASE EmbedBatch \/ EmbeddingFails \/ StoreChunks
      BY <3>5 DEF EmbedBatch, EmbeddingFails, StoreChunks, cutVars
    <3>6. CASE UNCHANGED vars
      BY <3>6 DEF vars, cutVars
    <3> QED
      BY <3>1, <3>2, <3>3, <3>4, <3>5, <3>6 DEF Next
  <2> QED
    BY <2>2, <2>3, <2>4
<1>3. \A cell : Covered(cell) => Covered(cell)'
  BY <1>2 DEF Covered
<1>4. \A n : Cells(n)' = Cells(n)
  BY <1>1 DEF Cells
<1>5. \A n : PageCovered(n) => PageCovered(n)'
  <2> SUFFICES ASSUME NEW n, PageCovered(n) PROVE PageCovered(n)'
    OBVIOUS
  <2>1. ASSUME NEW i \in DOMAIN book.pages[n].text, Cells(n)[i].char \notin Blanks
        PROVE  Covered(Cells(n)[i])'
    <3>1. PICK cell : cell = Cells(n)[i]
      OBVIOUS
    <3>2. Covered(cell)
      BY <2>1, <3>1 DEF PageCovered
    <3>3. Covered(cell)' /\ cell = Cells(n)'[i]
      BY <1>3, <1>4, <3>1, <3>2
    <3> QED
      BY <3>3 DEF Covered
  <2>2. \A i \in DOMAIN book.pages[n].text :
          (Cells(n)[i].char)' \notin Blanks => Covered(Cells(n)[i])'
    BY <1>4, <2>1
  <2> QED
    BY <1>1, <2>2 DEF PageCovered
<1> QED
  BY <1>1, <1>2, <1>3, <1>4, <1>5

\* A cut covers its span.
LEMMA CutSpanCovers ==
    ASSUME TypeInv, PagesInv, GroupInv, OrderInv, CoverInv, CutSpan
    PROVE  \A q \in 1 .. End : text[q].char \notin Blanks =>
              \E i \in DOMAIN chunks' : text[q] \in Contents(chunks'[i])
<1>1. pc = "cut" /\ Cutting
  BY IsCutting, CutSpanSteps
<1>2. start \in Nat /\ Len(text) \in Nat /\ End \in start + 1 .. Len(text)
  BY <1>1, EndFacts DEF Cutting, EndIsNear
<1> SUFFICES ASSUME NEW q \in 1 .. End, text[q].char \notin Blanks
             PROVE  \E i \in DOMAIN chunks' : text[q] \in Contents(chunks'[i])
  OBVIOUS
<1>3. CASE q <= start
  <2>1. PICK i \in DOMAIN chunks : text[q] \in Contents(chunks[i])
    BY <1>1, <1>2, <1>3 DEF CoverInv, Covered
  <2>2. [Next]_vars
    BY DEF Next
  <2>3. i \in DOMAIN chunks' /\ chunks'[i] = chunks[i]
    BY <2>1, <2>2, StaysCovered
  <2> QED
    BY <2>1, <2>3
<1>4. CASE q > start
  <2>1. q \in Visible
    BY <1>2, <1>4 DEF Visible
  <2>2. /\ From \in start .. End /\ To \in From + 1 .. End /\ From + 1 <= q /\ q <= To
    BY <1>1, <2>1, VisibleFacts
  <2>3. /\ NewChunk \in ChunkType /\ NewChunk.content \in Seq(CellType)
        /\ Len(NewChunk.content) = To - From
        /\ \A i \in 1 .. To - From : NewChunk.content[i] = text[From + i]
    BY <2>1, NewChunkTypes
  <2>4. q - From \in 1 .. To - From /\ From + (q - From) = q
    BY <1>2, <2>2
  <2>5. NewChunk.content[q - From] = text[q] /\ q - From \in DOMAIN NewChunk.content
    BY <2>3, <2>4
  <2>6. text[q] \in Contents(NewChunk)
    BY <2>5 DEF Contents
  <2>7. chunks' = Append(chunks, NewChunk)
    BY <2>1, CutSpanSteps
  <2>8. Len(chunks) + 1 \in DOMAIN chunks' /\ chunks'[Len(chunks) + 1] = NewChunk
    <3>1. chunks \in Seq(ChunkType)
      BY ChunkTypes
    <3> HIDE DEF NewChunk
    <3> QED
      BY <2>3, <2>7, <3>1
  <2> QED
    BY <2>6, <2>8
<1> QED
  BY <1>2, <1>3, <1>4

\* What a span of a text holds is in its chunk.
LEMMA CutTextCovers ==
    ASSUME TypeInv, PagesInv, GroupInv, OrderInv, CoverInv, CutText
    PROVE  \A q \in 1 .. Smaller(start + PlainSize, Len(text)) : text[q].char \notin Blanks =>
              \E i \in DOMAIN chunks' : text[q] \in Contents(chunks'[i])
<1> DEFINE end == Smaller(start + PlainSize, Len(text))
           c == Chunk(start, end, {}, "body")
<1>1. /\ pc = "cut" /\ start \in Nat /\ Len(text) \in Nat /\ end \in start + 1 .. Len(text)
      /\ c \in ChunkType /\ Len(c.content) = end - start
      /\ \A i \in 1 .. end - start : c.content[i] = text[start + i]
      /\ chunks' = Append(chunks, c)
  BY CutTextSteps
<1> HIDE DEF end, c
<1> SUFFICES ASSUME NEW q \in 1 .. end, text[q].char \notin Blanks
             PROVE  \E i \in DOMAIN chunks' : text[q] \in Contents(chunks'[i])
  BY DEF end
<1>2. CASE q <= start
  <2>1. PICK i \in DOMAIN chunks : text[q] \in Contents(chunks[i])
    BY <1>1, <1>2 DEF CoverInv, Covered
  <2>2. [Next]_vars
    BY DEF Next
  <2>3. i \in DOMAIN chunks' /\ chunks'[i] = chunks[i]
    BY <2>1, <2>2, StaysCovered
  <2> QED
    BY <2>1, <2>3
<1>3. CASE q > start
  <2>1. c.content \in Seq(CellType)
    BY <1>1 DEF ChunkType
  <2>2. q - start \in 1 .. end - start /\ start + (q - start) = q
    BY <1>1, <1>3
  <2>3. c.content[q - start] = text[q] /\ q - start \in DOMAIN c.content
    BY <1>1, <2>1, <2>2
  <2>4. text[q] \in Contents(c)
    BY <2>3 DEF Contents
  <2>5. Len(chunks) + 1 \in DOMAIN chunks' /\ chunks'[Len(chunks) + 1] = c
    <3>1. chunks \in Seq(ChunkType)
      BY ChunkTypes
    <3> QED
      BY <1>1, <3>1
  <2> QED
    BY <2>4, <2>5
<1> QED
  BY <1>1, <1>2, <1>3

\* A place in a part of a text.
LEMMA PartOfText ==
    ASSUME NEW from \in Nat, NEW size \in Nat, NEW last \in Nat, from + size <= last,
           NEW i \in 1 .. size
    PROVE  /\ from + i \in 1 .. last /\ from < from + i /\ from + i <= from + size
           /\ (from + i) - from = i
  OBVIOUS

\* Every cell of the pages of a group is in its text.
LEMMA SpanHasCells ==
    ASSUME TypeInv, PagesInv, GroupInv, CellInv, book.pdf, pc \in {"group", "cut"},
           NEW k \in DOMAIN spans, NEW n \in Nat, n = spans[k].page,
           NEW i \in 1 .. Len(book.pages[n].text)
    PROVE  /\ spans[k].start + i \in 1 .. Len(text)
           /\ text[spans[k].start + i] = Cells(n)[i]
<1>1. n \in 1 .. Len(book.pages)
  BY SpanPages
<1>2. Len(book.pages[n].text) \in Nat
  BY <1>1, BookTypes DEF TypeInv
<1>3. /\ spans[k].start \in Nat /\ spans[k].end \in Nat /\ Len(text) \in Nat
      /\ DOMAIN text = 1 .. Len(text) /\ DOMAIN spans = 1 .. Len(spans) /\ Len(spans) \in Nat
  BY SpanTypes DEF TypeInv
<1>4. SpanIsRight(k)
  BY DEF GroupInv
<1>5. spans[k].end = spans[k].start + Len(book.pages[n].text) /\ spans[k].end <= Len(text)
  BY <1>4 DEF SpanIsRight
<1>6. PICK q \in Nat : q = spans[k].start + i
  BY <1>2, <1>3
<1>7. q \in 1 .. Len(text) /\ spans[k].start < q /\ q <= spans[k].end /\ q - spans[k].start = i
  <2>1. PICK from \in Nat, size \in Nat, last \in Nat :
           from = spans[k].start /\ size = Len(book.pages[n].text) /\ last = Len(text)
    BY <1>2, <1>3
  <2>2. i \in 1 .. size /\ q = from + i /\ spans[k].end = from + size /\ from + size <= last
    BY <1>5, <1>6, <2>1
  <2>3. q \in 1 .. last /\ from < q /\ q <= from + size /\ q - from = i
    BY <2>2, PartOfText
  <2> QED
    BY <2>1, <2>2, <2>3
<1>8. InSpan(k, q)
  BY <1>7 DEF InSpan
<1>9. CellIsRight(q)
  BY <1>3, <1>7 DEF CellInv
<1>10. PICK j \in DOMAIN spans : InSpan(j, q) /\ text[q] = Cells(spans[j].page)[q - spans[j].start]
  BY <1>8, <1>9 DEF CellIsRight
<1>11. j = k
  <2>1. SpanIsRight(j) /\ spans[j].start \in Nat /\ spans[j].end \in Nat
    BY SpanTypes DEF GroupInv
  <2>2. ~(j < k)
    <3> SUFFICES ASSUME j < k PROVE FALSE
      OBVIOUS
    <3>1. j \in 1 .. k - 1
      BY <1>3
    <3>2. spans[j].end + 2 <= spans[k].start
      BY <1>4, <3>1 DEF SpanIsRight
    <3> QED
      BY <1>3, <1>7, <1>10, <2>1, <3>2 DEF InSpan
  <2>3. ~(k < j)
    <3> SUFFICES ASSUME k < j PROVE FALSE
      OBVIOUS
    <3>1. k \in 1 .. j - 1
      BY <1>3
    <3>2. spans[k].end + 2 <= spans[j].start
      BY <2>1, <3>1 DEF SpanIsRight
    <3> QED
      BY <1>3, <1>7, <1>10, <2>1, <3>2 DEF InSpan
  <2> QED
    BY <1>3, <2>2, <2>3
<1> QED
  BY <1>6, <1>7, <1>10, <1>11

\* Blank pages have nothing to cover.
LEMMA BlankCovered ==
    ASSUME book \in Books, NEW n \in 1 .. Len(book.pages), Empty(n)
    PROVE  PageCovered(n)
<1>1. \A i \in DOMAIN book.pages[n].text : Cells(n)[i].char \in Blanks
  <2> SUFFICES ASSUME NEW i \in DOMAIN book.pages[n].text PROVE Cells(n)[i].char \in Blanks
    OBVIOUS
  <2>1. book.pages[n].text[i] \in Blanks
    BY DEF Empty, Blank
  <2>2. Cells(n)[i] = Cell(n, i, book.pages[n].text[i])
    BY DEF Cells
  <2> QED
    BY <2>1, <2>2 DEF Cell
<1> QED
  BY <1>1 DEF PageCovered

\* A group whose text is covered has covered its pages.
LEMMA GroupCovered ==
    ASSUME TypeInv, PagesInv, GroupInv, CellInv, CoverInv, [Next]_vars, pc = "cut",
           \A q \in 1 .. Len(text) : text[q].char \notin Blanks =>
              \E i \in DOMAIN chunks' : text[q] \in Contents(chunks'[i])
    PROVE  /\ book.pdf => \A k \in 1 .. next - 1 : PageCovered(pages[k].number)'
           /\ ~book.pdf => PageCovered(1)'
<1>1. book' = book /\ \A n : Cells(n)' = Cells(n) /\ (PageCovered(n) => PageCovered(n)')
  BY StaysCovered
<1>2. ASSUME book.pdf, NEW k \in 1 .. next - 1
      PROVE  PageCovered(pages[k].number)'
  <2>1. PICK m \in Nat : m = Len(spans)
    BY SpanTypes
  <2>2. next \in Nat /\ Before = next - 1 - m /\ DOMAIN spans = 1 .. m /\ pages' = pages
    <3>1. ~SkipPage /\ ~PreparePage /\ ~EndPrepare
      BY DEF SkipPage, PreparePage, EndPrepare
    <3> QED
      BY <2>1, <3>1, SpanTypes, LaterSteps DEF TypeInv, Before
  <2>3. PICK n : n = pages[k].number
    OBVIOUS
  <2>4. PageCovered(n)'
    <3>1. CASE k \in 1 .. Before
      <4>1. PageCovered(pages[k].number)
        BY <1>2, <3>1 DEF CoverInv
      <4> QED
        BY <1>1, <2>3, <4>1
    <3>2. CASE k \notin 1 .. Before
      <4>1. PICK j \in Nat : j = k - Before
        BY <2>2, <3>2
      <4>2. j \in 1 .. m /\ Before + j = k
        BY <2>1, <2>2, <3>2, <4>1
      <4>3. SpanPage(j) = pages[k] /\ SpanIsRight(j)
        BY <1>2, <2>2, <4>2 DEF SpanPage, GroupInv
      <4>4. n = spans[j].page /\ n \in 1 .. Len(book.pages) /\ n \in Nat
        BY <1>2, <2>2, <2>3, <4>2, <4>3, SpanPages, SpanTypes DEF SpanIsRight
      <4>5. ASSUME NEW i \in DOMAIN book.pages[n].text, Cells(n)[i].char \notin Blanks
            PROVE  Covered(Cells(n)[i])'
        <5>1. i \in 1 .. Len(book.pages[n].text)
          <6>1. book \in Books /\ n \in 1 .. Len(book.pages)
            BY <4>4 DEF TypeInv
          <6>2. book.pages[n].text \in Seq(Chars)
            BY <6>1, BookTypes
          <6> QED
            BY <6>2
        <5>2. PICK q : q = spans[j].start + i
          OBVIOUS
        <5>3. q \in 1 .. Len(text) /\ text[q] = Cells(n)[i]
          BY <1>2, <2>2, <4>2, <4>4, <5>1, <5>2, SpanHasCells
        <5>4. \E c \in DOMAIN chunks' : Cells(n)[i] \in Contents(chunks'[c])
          BY <4>5, <5>3
        <5>5. Cells(n)'[i] = Cells(n)[i]
          BY <1>1
        <5> QED
          BY <5>4, <5>5 DEF Covered
      <4> QED
        BY <1>1, <4>5 DEF PageCovered
    <3> QED
      BY <3>1, <3>2
  <2>5. pages'[k].number = n
    BY <2>2, <2>3
  <2> QED
    BY <1>1, <2>4, <2>5 DEF PageCovered, Covered, Cells
<1>3. ASSUME ~book.pdf
      PROVE  PageCovered(1)'
  <2>1. text = Cells(1) /\ 1 \in 1 .. Len(book.pages)
    <3>1. Len(book.pages) = 1
      BY <1>3, BookTypes DEF TypeInv
    <3> QED
      BY <1>3, <3>1 DEF GroupInv
  <2>2. ASSUME NEW i \in DOMAIN book.pages[1].text, Cells(1)[i].char \notin Blanks
        PROVE  Covered(Cells(1)[i])'
    <3>1. i \in 1 .. Len(text)
      BY <2>1, BookTypes, CellsTypes DEF TypeInv
    <3>2. \E c \in DOMAIN chunks' : Cells(1)[i] \in Contents(chunks'[c])
      BY <2>1, <2>2, <3>1
    <3>3. Cells(1)'[i] = Cells(1)[i]
      BY <1>1
    <3> QED
      BY <3>2, <3>3 DEF Covered
  <2> QED
    BY <1>1, <2>2 DEF PageCovered
<1> QED
  BY <1>2, <1>3

\* Nothing is lost in any step.
LEMMA CoverStep ==
    ASSUME TypeInv, PagesInv, PlaceInv, GroupInv, CellInv, OrderInv, CoverInv, [Next]_vars
    PROVE  CoverInv'
<1>1. /\ book' = book /\ \A cell : Covered(cell) => Covered(cell)'
      /\ \A n : Cells(n)' = Cells(n) /\ (PageCovered(n) => PageCovered(n)')
  BY StaysCovered
<1>2. CASE SkipPage \/ PreparePage
  <2>1. pc' = "prepare"
    BY <1>2 DEF SkipPage, PreparePage
  <2> QED
    BY <2>1 DEF CoverInv
<1>3. CASE EndPrepare
  <2>1. pc' = "group" /\ book'.pdf /\ next' = 1 /\ spans' = <<>>
    BY <1>1, <1>3, EndPrepareSteps DEF groupVars, GroupInv, PagesInv
  <2>2. Before' = 0
    <3>1. Len(spans') = 0 /\ next' = 1
      BY <2>1
    <3>2. Before' = 1 - 1 - 0
      BY <3>1 DEF Before
    <3> QED
      BY <3>2
  <2>3. 1 .. Before' = {}
    BY <2>2
  <2> QED
    BY <2>1, <2>3 DEF CoverInv
<1>4. CASE TakePage
  <2>1. pc = "group" /\ pc' = "group" /\ book.pdf /\ pages' = pages
    BY <1>4, TakePageSteps
  <2>2. Before' = Before
    <3>1. CASE text = <<>>
      <4>1. Before' = next - 1 /\ next \in Nat
        BY <1>4, <3>1, OpenGroup DEF TypeInv
      <4>2. Len(spans) = 0
        BY <3>1 DEF GroupInv
      <4> QED
        BY <4>1, <4>2 DEF Before
    <3>2. CASE text # <<>>
      <4>1. PICK m \in Nat : m = Len(spans)
        BY SpanTypes
      <4> QED
        BY <1>4, <3>2, <4>1, ExtendGroup
    <3> QED
      BY <3>1, <3>2
  <2>3. ASSUME NEW k \in 1 .. Before PROVE PageCovered(pages[k].number)'
    <3>1. PICK n : n = pages[k].number
      OBVIOUS
    <3>2. PageCovered(n)' /\ pages'[k].number = n
      BY <1>1, <2>1, <3>1 DEF CoverInv
    <3> QED
      BY <3>2 DEF PageCovered, Covered, Cells
  <2> QED
    BY <1>1, <2>1, <2>2, <2>3 DEF CoverInv
<1>5. CASE CloseGroup
  <2>1. pc = "group" /\ pc' = "cut" /\ book.pdf /\ pages' = pages /\ start' = 0 /\ next' = next
        /\ spans' = spans
    BY <1>5 DEF CloseGroup, BeginCuts, groupVars
  <2>2. Before' = Before
    BY <2>1 DEF Before
  <2>3. ASSUME NEW k \in 1 .. Before PROVE PageCovered(pages[k].number)'
    <3>1. PICK n : n = pages[k].number
      OBVIOUS
    <3>2. PageCovered(n)' /\ pages'[k].number = n
      BY <1>1, <2>1, <3>1 DEF CoverInv
    <3> QED
      BY <3>2 DEF PageCovered, Covered, Cells
  <2>4. 1 .. start' = {}
    BY <2>1
  <2> QED
    BY <1>1, <2>1, <2>2, <2>3, <2>4 DEF CoverInv
<1>6. CASE ReadText
  <2>1. pc' = "cut" /\ ~book'.pdf /\ start' = 0
    BY <1>1, <1>6 DEF ReadText, BeginCuts
  <2>2. 1 .. start' = {}
    BY <2>1
  <2> QED
    BY <2>1, <2>2 DEF CoverInv
<1>7. CASE EndGroups
  <2>1. pc = "group" /\ pc' = "embed" /\ text = <<>>
        /\ IF book.pdf THEN next > Len(pages) ELSE next = 1 => Empty(1)
    BY <1>7 DEF EndGroups, Empty
  <2>2. \A n \in DOMAIN book.pages : PageCovered(n)
    <3> SUFFICES ASSUME NEW n \in DOMAIN book.pages PROVE PageCovered(n)
      OBVIOUS
    <3>0. book \in Books /\ n \in 1 .. Len(book.pages)
      BY BookTypes DEF TypeInv
    <3>1. CASE Empty(n)
      BY <3>0, <3>1, BlankCovered
    <3>2. CASE book.pdf /\ ~Empty(n)
      <4>1. Read = Len(book.pages)
        BY <2>1 DEF Read
      <4>2. PICK k \in DOMAIN pages : pages[k].number = n
        BY <3>0, <3>2, <4>1 DEF PagesInv
      <4>3. Before = next - 1
        <5>1. Len(spans) = 0 /\ next \in Nat
          BY <2>1 DEF GroupInv, TypeInv
        <5> QED
          BY <5>1 DEF Before
      <4>4. k \in 1 .. Before
        BY <2>1, <3>2, <4>3, PageTypes DEF TypeInv
      <4> QED
        BY <2>1, <3>2, <4>2, <4>4 DEF CoverInv
    <3>3. CASE ~book.pdf /\ ~Empty(n)
      <4>1. n = 1
        <5>1. Len(book.pages) = 1
          BY <3>0, <3>3, BookTypes
        <5> QED
          BY <3>0, <5>1
      <4> QED
        BY <2>1, <3>3, <4>1 DEF CoverInv
    <3> QED
      BY <3>1, <3>2, <3>3
  <2>3. \A n \in DOMAIN book'.pages : PageCovered(n)'
    BY <1>1, <2>2
  <2> QED
    BY <2>1, <2>3 DEF CoverInv
<1>8. ASSUME NEW end \in Nat, NEW to, pc = "cut", end <= Len(text), Advance(end, to),
             \A q \in 1 .. end : text[q].char \notin Blanks =>
                \E i \in DOMAIN chunks' : text[q] \in Contents(chunks'[i]),
             end < Len(text) => to \in Nat /\ to <= end
      PROVE  CoverInv'
  <2>1. /\ next' = next /\ pages' = pages /\ Len(text) \in Nat /\ next \in Nat \ {0}
        /\ Len(spans) \in Nat
    BY <1>8, SpanTypes DEF Advance, TypeInv
  <2>2. CASE end >= Len(text)
    <3>1. pc' = "group" /\ text' = <<>> /\ spans' = <<>>
      BY <1>8, <2>2 DEF Advance
    <3>2. /\ book.pdf => \A k \in 1 .. next - 1 : PageCovered(pages[k].number)'
          /\ ~book.pdf => PageCovered(1)'
      <4>1. \A q \in 1 .. Len(text) : q \in 1 .. end
        BY <1>8, <2>1, <2>2
      <4> QED
        BY <1>8, <4>1, GroupCovered
    <3>3. Before' = next - 1
      <4>1. Len(spans') = 0
        BY <3>1
      <4> QED
        BY <2>1, <3>1, <4>1 DEF Before
    <3>4. ~book.pdf => next = 2
      BY <1>8 DEF OrderInv
    <3> QED
      BY <1>1, <2>1, <3>1, <3>2, <3>3, <3>4 DEF CoverInv
  <2>3. CASE end < Len(text)
    <3>1. pc' = "cut" /\ text' = text /\ spans' = spans /\ start' = to
      BY <1>8, <2>1, <2>3 DEF Advance
    <3>2. Before' = Before
      BY <2>1, <3>1 DEF Before
    <3>3. ASSUME book.pdf, NEW k \in 1 .. Before PROVE PageCovered(pages[k].number)'
      <4>1. PICK n : n = pages[k].number
        OBVIOUS
      <4>2. PageCovered(n)' /\ pages'[k].number = n
        BY <1>1, <1>8, <2>1, <3>3, <4>1 DEF CoverInv
      <4> QED
        BY <4>2 DEF PageCovered, Covered, Cells
    <3>4. \A q \in 1 .. start' : text'[q].char \notin Blanks => Covered(text[q])'
      <4> SUFFICES ASSUME NEW q \in 1 .. start', text[q].char \notin Blanks
                   PROVE  Covered(text[q])'
        BY <3>1
      <4>1. q \in 1 .. end
        BY <1>8, <2>3, <3>1
      <4>2. \E i \in DOMAIN chunks' : text'[q] \in Contents(chunks'[i])
        BY <1>8, <3>1, <4>1
      <4> QED
        BY <4>2 DEF Covered
    <3> QED
      BY <1>1, <3>1, <3>2, <3>3, <3>4 DEF CoverInv
  <2> QED
    BY <1>8, <2>1, <2>2, <2>3
<1>9. CASE CutSpan
  <2>1. pc = "cut" /\ Cutting /\ Advance(End, NextStart)
    BY <1>9, IsCutting, CutSpanSteps
  <2>2. End \in Nat /\ End <= Len(text)
    BY <2>1, EndFacts DEF Cutting, EndIsNear
  <2>3. End < Len(text) => NextStart \in Nat /\ NextStart <= End
    BY <2>1, EndFacts, NextFacts DEF Cutting, EndIsNear
  <2>4. \A q \in 1 .. End : text[q].char \notin Blanks =>
          \E i \in DOMAIN chunks' : text[q] \in Contents(chunks'[i])
    BY <1>9, CutSpanCovers
  <2> QED
    BY <1>8, <2>1, <2>2, <2>3, <2>4
<1>10. CASE CutText
  <2> DEFINE end == Smaller(start + PlainSize, Len(text))
             to == start + PlainSize - PlainOverlap
  <2>1. /\ pc = "cut" /\ start \in Nat /\ Len(text) \in Nat /\ end \in start + 1 .. Len(text)
        /\ end < Len(text) => end = start + PlainSize
        /\ Advance(end, to)
    BY <1>10, CutTextSteps
  <2>2. \A q \in 1 .. end : text[q].char \notin Blanks =>
          \E i \in DOMAIN chunks' : text[q] \in Contents(chunks'[i])
    BY <1>10, CutTextCovers
  <2>3. end < Len(text) => to \in Nat /\ to <= end
    BY <2>1, SizesAssumption
  <2> HIDE DEF end, to
  <2>4. end \in Nat /\ end <= Len(text)
    BY <2>1
  <2> QED
    BY <1>8, <2>1, <2>2, <2>3, <2>4
<1>11. CASE EmbedBatch \/ EmbeddingFails \/ StoreChunks
  <2>1. pc = "embed" /\ pc' \in {"embed", "failed", "done"}
    BY <1>11 DEF EmbedBatch, EmbeddingFails, StoreChunks
  <2>2. \A n \in DOMAIN book'.pages : PageCovered(n)'
    BY <1>1, <2>1 DEF CoverInv
  <2> QED
    BY <2>1, <2>2 DEF CoverInv
<1>12. CASE UNCHANGED vars
  <2>1. UNCHANGED <<book, pc, next, pages, text, spans, start, chunks>>
    BY <1>12 DEF vars, groupVars, cutVars
  <2>2. Before' = Before
    BY <2>1 DEF Before
  <2>3. \A cell : Covered(cell)' <=> Covered(cell)
    BY <2>1 DEF Covered
  <2>4. \A n : PageCovered(n)' <=> PageCovered(n)
    BY <2>1, <2>3 DEF PageCovered, Cells, Covered
  <2>5. \A k : PageCovered(pages[k].number)' <=> PageCovered(pages[k].number)
    BY <2>1, <2>3 DEF PageCovered, Cells, Covered
  <2>6. \A q : Covered(text[q])' <=> Covered(text[q])
    BY <2>1 DEF Covered
  <2> QED
    BY <2>1, <2>2, <2>4, <2>5, <2>6 DEF CoverInv
<1> QED
  BY <1>2, <1>3, <1>4, <1>5, <1>6, <1>7, <1>9, <1>10, <1>11, <1>12 DEF Next

-----------------------------------------------------------------------------
(* What a chunk of a PDF says of itself.                                   *)

\* The cells of a span are those of its page.
LEMMA SpanCells ==
    ASSUME TypeInv, PagesInv, GroupInv, CellInv, book.pdf, pc \in {"group", "cut"},
           NEW k \in DOMAIN spans, NEW q \in Nat, InSpan(k, q)
    PROVE  /\ q \in 1 .. Len(text) /\ spans[k].page \in 1 .. Len(book.pages)
           /\ text[q].page = spans[k].page /\ text[q].at = q - spans[k].start
<1>1. PICK n \in 1 .. Len(book.pages) : n = spans[k].page
  BY SpanPages
<1>2. /\ n \in Nat /\ Len(book.pages[n].text) \in Nat
      /\ spans[k].start \in Nat /\ spans[k].end \in Nat /\ book \in Books
  BY <1>1, SpanTypes, BookTypes DEF TypeInv
<1>3. spans[k].end = spans[k].start + Len(book.pages[n].text)
  BY <1>1 DEF GroupInv, SpanIsRight
<1>4. PICK i \in 1 .. Len(book.pages[n].text) : i = q - spans[k].start
  BY <1>2, <1>3 DEF InSpan
<1>5. q = spans[k].start + i
  BY <1>2, <1>4
<1>6. q \in 1 .. Len(text) /\ text[q] = Cells(n)[i]
  BY <1>1, <1>2, <1>5, SpanHasCells
<1>7. Cells(n)[i] = Cell(n, i, book.pages[n].text[i])
  BY <1>1, <1>2, CellsTypes
<1> QED
  BY <1>1, <1>4, <1>6, <1>7 DEF Cell

\* A cell between two spans is of no page.
LEMMA PageInSpan ==
    ASSUME TypeInv, CellInv, book.pdf, NEW q \in 1 .. Len(text),
           text[q].page # 0 \/ text[q].char \notin Blanks
    PROVE  \E k \in DOMAIN spans : InSpan(k, q)
<1>1. q \in DOMAIN text
  BY DEF TypeInv
<1>2. CellIsRight(q)
  BY <1>1 DEF CellInv
<1>3. text[q] # Cell(0, 0, "n")
  <2>1. Cell(0, 0, "n").page = 0 /\ Cell(0, 0, "n").char = "n"
    BY DEF Cell
  <2> QED
    BY <2>1 DEF Blanks
<1> QED
  BY <1>2, <1>3 DEF CellIsRight

\* Where a prepared page is found.
LEMMA PageIsFound ==
    ASSUME TypeInv, PagesInv, NEW k \in DOMAIN pages
    PROVE  PageOf(pages[k].number) = k
<1>1. Len(pages) \in Nat /\ DOMAIN pages = 1 .. Len(pages)
  BY PageTypes
<1>2. ASSUME NEW j \in DOMAIN pages, pages[j].number = pages[k].number
      PROVE  j = k
  <2>1. pages[j].number \in Nat /\ pages[k].number \in Nat
    BY <1>1, PageTypes
  <2>2. ~(j < k) /\ ~(k < j)
    BY <1>2, <2>1 DEF PagesInv
  <2> QED
    BY <1>1, <2>2
<1> QED
  BY <1>2 DEF PageOf

\* The page of a span, as a prepared page.
LEMMA SpanOfPage ==
    ASSUME TypeInv, PagesInv, GroupInv, book.pdf, pc \in {"group", "cut"}, NEW k \in DOMAIN spans
    PROVE  /\ PageOf(spans[k].page) = Before + k
           /\ Before + k \in DOMAIN pages /\ pages[Before + k].number = spans[k].page
           /\ pages[Before + k].section = GroupSection
           /\ pages[Before + k].heading = spans[k].heading
<1>1. PICK j \in 1 .. Len(pages) : j = Before + k
  BY SpanPages
<1>2. j \in DOMAIN pages
  BY <1>1, PageTypes
<1>3. /\ pages[j].number = spans[k].page /\ pages[j].section = GroupSection
      /\ pages[j].heading = spans[k].heading
  BY <1>1 DEF GroupInv, SpanIsRight, SpanPage
<1>4. PageOf(pages[j].number) = j
  BY <1>2, PageIsFound
<1> QED
  BY <1>1, <1>2, <1>3, <1>4

\* The pages of a group follow each other.
LEMMA SpansFollow ==
    ASSUME TypeInv, PagesInv, GroupInv, book.pdf, pc \in {"group", "cut"},
           NEW j \in DOMAIN spans, NEW k \in DOMAIN spans, j <= k
    PROVE  spans[j].page <= spans[k].page
<1>1. /\ j \in Nat /\ k \in Nat /\ spans[j].page \in Nat /\ spans[k].page \in Nat
  BY SpanTypes
<1>2. CASE j = k
  BY <1>1, <1>2
<1>3. CASE j # k
  <2>1. PICK b : b = Before
    OBVIOUS
  <2>2. b \in Int
    BY <2>1, SpanTypes DEF Before, TypeInv
  <2>3. /\ b + j \in DOMAIN pages /\ b + k \in DOMAIN pages
        /\ pages[b + j].number = spans[j].page /\ pages[b + k].number = spans[k].page
    BY <2>1, SpanOfPage
  <2>4. b + j < b + k
    BY <1>1, <1>3, <2>2
  <2>5. pages[b + j].number < pages[b + k].number
    BY <2>3, <2>4 DEF PagesInv
  <2> QED
    BY <1>1, <2>3, <2>5
<1> QED
  BY <1>2, <1>3

\* The pages of a new chunk are those of its cells, and of its section.
LEMMA NewChunkPages ==
    ASSUME TypeInv, PagesInv, GroupInv, CellInv, OrderInv, CutSpan, Visible # {}
    PROVE  /\ NewChunk.pages = {cell.page : cell \in Contents(NewChunk)} \ {0}
           /\ NewChunk.pages \subseteq DOMAIN book.pages
           /\ \A n \in NewChunk.pages : pages[PageOf(n)].section = NewChunk.section
<1>1. pc = "cut" /\ book.pdf /\ Cutting /\ book \in Books
  BY IsCutting, CutSpanSteps DEF TypeInv
<1>2. PICK from \in Nat, to \in Nat : from = From /\ to = To /\ from < to /\ to <= Len(text)
  <2>1. From \in start .. End /\ To \in From + 1 .. End /\ End \in start + 1 .. Len(text)
        /\ start \in Nat /\ Len(text) \in Nat
    BY <1>1, VisibleFacts, EndFacts DEF Cutting, EndIsNear
  <2> QED
    BY <2>1
<1>3. /\ NewChunk.pages = {spans[k].page : k \in SpansOf(from, to)}
      /\ NewChunk.section = GroupSection
      /\ NewChunk.content \in Seq(CellType) /\ Len(NewChunk.content) = to - from
      /\ \A i \in 1 .. to - from : NewChunk.content[i] = text[from + i]
  BY <1>2, NewChunkTypes
<1>4. Contents(NewChunk) = {text[q] : q \in from + 1 .. to}
  <2> DEFINE content == NewChunk.content
  <2>1. DOMAIN content = 1 .. to - from
    BY <1>3
  <2>2. \A i \in 1 .. to - from : from + i \in from + 1 .. to
    BY <1>2
  <2>3. \A q \in from + 1 .. to : q - from \in 1 .. to - from /\ from + (q - from) = q
    BY <1>2
  <2>4. {content[i] : i \in 1 .. to - from} = {text[q] : q \in from + 1 .. to}
    <3> HIDE DEF content
    <3>1. \A i \in 1 .. to - from : content[i] = text[from + i]
      BY <1>3 DEF content
    <3>2. \A q \in from + 1 .. to : content[q - from] = text[q]
      BY <2>3, <3>1
    <3>3. ASSUME NEW i \in 1 .. to - from PROVE content[i] \in {text[q] : q \in from + 1 .. to}
      BY <2>2, <3>1
    <3>4. ASSUME NEW q \in from + 1 .. to
          PROVE  text[q] \in {content[i] : i \in 1 .. to - from}
      BY <2>3, <3>2
    <3> QED
      BY <3>3, <3>4
  <2> QED
    BY <2>1, <2>4 DEF Contents
<1>5. ASSUME NEW k \in SpansOf(from, to)
      PROVE  /\ spans[k].page \in {cell.page : cell \in Contents(NewChunk)} \ {0}
             /\ spans[k].page \in DOMAIN book.pages
             /\ pages[PageOf(spans[k].page)].section = GroupSection
  <2>1. k \in DOMAIN spans /\ Larger(from, spans[k].start) < Smaller(to, spans[k].end)
    BY DEF SpansOf
  <2>2. spans[k].start \in Nat /\ spans[k].end \in Nat
    BY <2>1, SpanTypes
  <2>3. PICK q \in Nat : q = Larger(from, spans[k].start) + 1
    BY <2>2 DEF Larger
  <2>4. q \in from + 1 .. to /\ InSpan(k, q)
    BY <2>1, <2>2, <2>3 DEF Larger, Smaller, InSpan
  <2>5. text[q].page = spans[k].page /\ spans[k].page \in 1 .. Len(book.pages)
    BY <1>1, <2>1, <2>4, SpanCells
  <2>6. text[q] \in Contents(NewChunk)
    BY <1>4, <2>4
  <2>7. pages[PageOf(spans[k].page)].section = GroupSection
    BY <1>1, <2>1, SpanOfPage
  <2> QED
    BY <1>1, <2>5, <2>6, <2>7, BookTypes
<1>6. ASSUME NEW q \in from + 1 .. to, text[q].page # 0
      PROVE  \E k \in SpansOf(from, to) : text[q].page = spans[k].page
  <2>1. q \in 1 .. Len(text)
    BY <1>1, <1>2 DEF Cutting
  <2>2. PICK k \in DOMAIN spans : InSpan(k, q)
    BY <1>1, <1>6, <2>1, PageInSpan
  <2>3. spans[k].start \in Nat /\ spans[k].end \in Nat
    BY SpanTypes
  <2>4. k \in SpansOf(from, to)
    BY <2>1, <2>2, <2>3 DEF SpansOf, InSpan, Larger, Smaller
  <2>5. text[q].page = spans[k].page
    BY <1>1, <2>1, <2>2, SpanCells
  <2> QED
    BY <2>4, <2>5
<1> QED
  BY <1>3, <1>4, <1>5, <1>6

\* The title of the first span that has one is that of the first page under one.
LEMMA HeadingIsShown ==
    ASSUME TypeInv, PagesInv, HeadingInv, GroupInv, book.pdf, pc \in {"group", "cut"},
           NEW met \in SUBSET DOMAIN spans, GroupSection = "body"
    PROVE  HeadingOf(met) = Titles({spans[k].page : k \in met})
<1> DEFINE numbers == {spans[k].page : k \in met}
<1> SUFFICES ASSUME NEW kind \in DOMAIN NoHeading
             PROVE  LET titled == {k \in met : spans[k].heading[kind] # Untitled}
                        under == {n \in numbers : Shown(kind, n) # Untitled}
                    IN  (IF titled = {} THEN Untitled ELSE spans[Min(titled)].heading[kind])
                          = IF under = {} THEN Untitled ELSE Shown(kind, Min(under))
  BY Zenon DEF HeadingOf, Titles
<1> DEFINE titled == {k \in met : spans[k].heading[kind] # Untitled}
           under == {n \in numbers : Shown(kind, n) # Untitled}
<1>1. kind \in Kinds
  BY DEF NoHeading, Kinds
<1>2. \A k \in met : /\ k \in Nat /\ spans[k].page \in Nat
                     /\ spans[k].heading[kind] = Shown(kind, spans[k].page)
  <2> SUFFICES ASSUME NEW k \in met
               PROVE  /\ k \in Nat /\ spans[k].page \in Nat
                      /\ spans[k].heading[kind] = Shown(kind, spans[k].page)
    OBVIOUS
  <2>1. k \in DOMAIN spans /\ k \in Nat /\ spans[k].page \in Nat
    BY SpanTypes
  <2>2. PICK j \in DOMAIN pages : /\ pages[j].number = spans[k].page /\ pages[j].section = "body"
                                  /\ pages[j].heading = spans[k].heading
    BY <2>1, SpanOfPage
  <2>3. pages[j].heading[kind] = Shown(kind, pages[j].number)
    BY <1>1, <2>2 DEF HeadingInv, TitledPages
  <2> QED
    BY <2>1, <2>2, <2>3
<1>3. under = {spans[k].page : k \in titled}
  BY <1>2
<1>4. titled \in SUBSET Nat /\ under \in SUBSET Nat /\ titled \in SUBSET DOMAIN spans
  BY <1>2
<1>5. CASE titled = {}
  BY <1>3, <1>5
<1>6. CASE titled # {}
  <2>1. under # {}
    BY <1>3, <1>6
  <2>2. PICK k \in titled : k = Min(titled) /\ \A j \in titled : k <= j
    <3> HIDE DEF titled
    <3> QED
      BY <1>4, <1>6, MinFacts
  <2>3. PICK n \in under : n = Min(under) /\ \A m \in under : n <= m
    <3> HIDE DEF under
    <3> QED
      BY <1>4, <2>1, MinFacts
  <2>4. spans[k].page <= n
    <3>1. PICK j \in titled : n = spans[j].page
      BY <1>3
    <3> QED
      BY <1>4, <2>2, <3>1, SpansFollow
  <2>5. n <= spans[k].page
    BY <1>3, <2>3
  <2>6. spans[k].page = n
    BY <1>2, <1>4, <2>4, <2>5
  <2>7. spans[k].heading[kind] = Shown(kind, n)
    BY <1>2, <2>6
  <2> QED
    BY <1>6, <2>1, <2>2, <2>3, <2>7
<1> QED
  BY <1>5, <1>6

\* The titles of a new chunk are those of its pages, if they are of the body.
LEMMA NewChunkHeading ==
    ASSUME TypeInv, PagesInv, HeadingInv, GroupInv, OrderInv, CutSpan, Visible # {}
    PROVE  NewChunk.heading = IF NewChunk.section = "body" THEN Titles(NewChunk.pages) ELSE NoHeading
<1>1. pc = "cut" /\ book.pdf
  BY CutSpanSteps
<1>2. PICK met \in SUBSET DOMAIN spans : met = SpansOf(From, To)
  BY DEF SpansOf
<1>3. /\ NewChunk.section = GroupSection /\ NewChunk.pages = {spans[k].page : k \in met}
      /\ NewChunk.heading = HeadingOf(met)
  BY <1>2, NewChunkTypes
<1>4. CASE GroupSection = "body"
  <2>1. HeadingOf(met) = Titles({spans[k].page : k \in met})
    BY <1>1, <1>4, HeadingIsShown
  <2> QED
    BY <1>3, <1>4, <2>1
<1>5. CASE GroupSection # "body"
  <2>1. \A k \in met : spans[k].heading = NoHeading
    <3> SUFFICES ASSUME NEW k \in met PROVE spans[k].heading = NoHeading
      OBVIOUS
    <3>1. PICK j \in DOMAIN pages : pages[j].section = GroupSection /\ pages[j].heading = spans[k].heading
      BY <1>1, SpanOfPage
    <3> QED
      BY <1>5, <3>1 DEF HeadingInv, TitledPages
  <2>2. \A kind \in DOMAIN NoHeading : NoHeading[kind] = Untitled
    BY DEF NoHeading
  <2>3. HeadingOf(met) = NoHeading
    <3>1. \A kind \in DOMAIN NoHeading : {k \in met : spans[k].heading[kind] # Untitled} = {}
      BY <2>1, <2>2
    <3>2. HeadingOf(met) = [kind \in DOMAIN NoHeading |-> Untitled]
      BY <3>1 DEF HeadingOf
    <3> QED
      BY <3>2 DEF NoHeading
  <2> QED
    BY <1>3, <1>5, <2>3
<1> QED
  BY <1>4, <1>5

\* Where the q-th cell of a group is in the document: not before its place in the group.
LEMMA SpanOrigin ==
    ASSUME TypeInv, PagesInv, PlaceInv, GroupInv, CellInv, book.pdf, pc \in {"group", "cut"},
           NEW q \in Nat, NEW k \in DOMAIN spans, InSpan(k, q)
    PROVE  /\ Origin(text[q]) \in Nat /\ base + q <= Origin(text[q]) + 1
           /\ base + q < Origin(text[q]) + 1 => BlankBefore(text[q].page)
<1>1. /\ text[q].page = spans[k].page /\ text[q].at = q - spans[k].start
      /\ q \in 1 .. Len(text)
  BY SpanCells
<1>2. PICK j \in DOMAIN pages : /\ j = Before + k /\ pages[j].number = spans[k].page
                                /\ PageOf(spans[k].page) = j /\ pages[j].section = GroupSection
  BY SpanOfPage
<1>3. PICK at \in Nat : at = pages[j].start
  BY PageTypes
<1>4. Place[spans[k].page] = at
  BY <1>2, <1>3 DEF PlaceInv
<1>5. PICK from \in Nat, b \in Nat : from = spans[k].start /\ b = base
  BY SpanTypes DEF TypeInv
<1>6. Origin(text[q]) = at + (q - from) - 1
  BY <1>1, <1>4, <1>5 DEF Origin
<1>7. /\ b + from <= at
      /\ b + from < at => \E n \in SpanPage(1).number .. pages[j].number : Empty(n)
  BY <1>2, <1>3, <1>5 DEF GroupInv, SpanIsRight, SpanPage
<1>8. from < q
  BY <1>5 DEF InSpan
<1>9. ASSUME b + from < at PROVE BlankBefore(text[q].page)
  <2>1. PICK n \in SpanPage(1).number .. pages[j].number : Empty(n)
    BY <1>7, <1>9
  <2>2. PICK i : i = Before + 1
    OBVIOUS
  <2>3. 1 \in DOMAIN spans /\ k \in 1 .. Len(spans) /\ Len(spans) \in Nat
    BY SpanTypes
  <2>4. i \in DOMAIN pages /\ SpanPage(1).number = pages[i].number
    BY <2>2, <2>3, SpanOfPage DEF SpanPage
  <2>5. i \in 1 .. j /\ j \in Nat
    <3>1. Before \in Int /\ i \in Nat /\ j \in Nat /\ i >= 1
      BY <2>3, <2>4, PageTypes DEF Before, TypeInv
    <3> QED
      BY <1>2, <2>2, <2>3, <3>1
  <2> DEFINE run == {m \in 1 .. j : \A l \in m .. j : pages[l].section = pages[j].section}
  <2>6. i \in run
    <3>1. ASSUME NEW l \in i .. j PROVE pages[l].section = pages[j].section
      <4>1. Before \in Int
        BY <2>3 DEF Before, TypeInv
      <4>2. PICK m \in 1 .. Len(spans) : l = Before + m
        <5>1. l - Before \in 1 .. Len(spans) /\ l = Before + (l - Before)
          BY <1>2, <2>2, <2>3, <2>5, <4>1
        <5> QED
          BY <5>1
      <4>3. m \in DOMAIN spans
        BY SpanTypes
      <4> QED
        BY <1>2, <4>2, <4>3, SpanOfPage
    <3> QED
      BY <2>5, <3>1
  <2>7. Min(run) \in run /\ Min(run) <= i
    <3>1. run \in SUBSET Nat /\ run # {}
      BY <2>5, <2>6
    <3> HIDE DEF run
    <3> QED
      BY <2>6, <3>1, MinFacts
  <2>8. PICK o \in DOMAIN pages : o = Min(run) /\ o <= i
    <3>1. Min(run) \in 1 .. j
      BY <2>7
    <3> HIDE DEF run
    <3> QED
      BY <1>2, <2>7, <3>1, PageTypes
  <2>9. pages[o].number <= pages[i].number
    <3>1. pages[o].number \in Nat /\ pages[i].number \in Nat
      BY <2>4, PageTypes
    <3>2. CASE o = i
      BY <3>1, <3>2
    <3>3. CASE o # i
      <4>1. o < i
        BY <2>4, <2>8, <3>3, PageTypes
      <4>2. pages[o].number < pages[i].number
        BY <2>4, <4>1 DEF PagesInv
      <4> QED
        BY <3>1, <4>2
    <3> QED
      BY <3>2, <3>3
  <2>10. n \in pages[o].number .. pages[j].number
    <3>1. pages[o].number \in Nat /\ pages[i].number \in Nat /\ pages[j].number \in Nat
      BY <2>4, PageTypes
    <3> QED
      BY <2>1, <2>4, <2>9, <3>1
  <2>11. PICK number : number = text[q].page
    OBVIOUS
  <2>12. PageOf(number) = j /\ pages[j].number = number
    BY <1>1, <1>2, <2>11
  <2>13. BlankBefore(number)
    <3>1. \E m \in pages[Min(run)].number .. number : Blank(book.pages[m].text)
      BY <2>1, <2>8, <2>10, <2>12 DEF Empty
    <3> QED
      BY <2>12, <3>1 DEF BlankBefore
  <2> QED
    BY <2>11, <2>13
<1>10. PICK o \in Nat : o = Origin(text[q]) /\ o = at + (q - from) - 1
  BY <1>3, <1>5, <1>6, <1>8
<1> QED
  BY <1>3, <1>5, <1>7, <1>8, <1>9, <1>10

\* The offsets of a new chunk are those of its first and its last character, but for
\* blank pages.
LEMMA NewChunkOffsets ==
    ASSUME TypeInv, PagesInv, PlaceInv, GroupInv, CellInv, OrderInv, CutSpan, Visible # {}
    PROVE  OffsetsAreTrue(NewChunk, NewChunk.content[1], NewChunk.content[Len(NewChunk.content)])
<1>1. pc = "cut" /\ book.pdf /\ Cutting
  BY IsCutting, CutSpanSteps
<1>2. PICK from \in Nat, to \in Nat : /\ from = From /\ to = To /\ from < to /\ to <= Len(text)
                                      /\ from + 1 \in Visible /\ to \in Visible
  <2>1. /\ From \in start .. End /\ To \in From + 1 .. End /\ End \in start + 1 .. Len(text)
        /\ start \in Nat /\ Len(text) \in Nat /\ From + 1 \in Visible /\ To \in Visible
    BY <1>1, VisibleFacts, EndFacts DEF Cutting, EndIsNear
  <2> QED
    BY <2>1
<1>3. /\ NewChunk.start = base + from /\ NewChunk.end = base + to
      /\ Len(NewChunk.content) = to - from
      /\ \A i \in 1 .. to - from : NewChunk.content[i] = text[from + i]
  BY <1>2, NewChunkTypes
<1>4. NewChunk.content[1] = text[from + 1] /\ NewChunk.content[Len(NewChunk.content)] = text[to]
  <2>1. 1 \in 1 .. to - from /\ to - from \in 1 .. to - from /\ from + (to - from) = to
    BY <1>2
  <2> QED
    BY <1>3, <2>1
<1>5. ASSUME NEW q \in {from + 1, to}
      PROVE  /\ Origin(text[q]) \in Nat /\ base + q <= Origin(text[q]) + 1
             /\ base + q < Origin(text[q]) + 1 => BlankBefore(text[q].page)
  <2>1. q \in Nat /\ q \in 1 .. Len(text)
    BY <1>1, <1>2 DEF Cutting
  <2>2. text[q].char \notin Blanks
    BY <1>2 DEF Visible
  <2>3. PICK k \in DOMAIN spans : InSpan(k, q)
    BY <1>1, <2>1, <2>2, PageInSpan
  <2> QED
    BY <1>1, <2>1, <2>3, SpanOrigin
<1>6. PICK b \in Nat : b = base
  BY DEF TypeInv
<1>7. PICK one \in Nat : one = Origin(text[from + 1]) /\ b + from <= one
                         /\ (b + from < one => BlankBefore(text[from + 1].page))
  BY <1>2, <1>5, <1>6
<1>8. PICK last \in Nat : last = Origin(text[to]) /\ b + to <= last + 1
  BY <1>2, <1>5, <1>6
<1>9. b + to = (b + from) + (to - from)
  BY <1>2
<1> QED
  BY <1>3, <1>4, <1>6, <1>7, <1>8, <1>9 DEF OffsetsAreTrue

\* What is true of a chunk stays true of it.
LEMMA SameChunkIsTrue ==
    ASSUME book' = book, pages' = pages, NEW c, ChunkIsTrue(c)
    PROVE  ChunkIsTrue(c)'
<1>1. \A n : PageOf(n)' = PageOf(n)
  BY DEF PageOf
<1>2. Place' = Place
  BY DEF Place
<1>3. \A cell : Origin(cell)' = Origin(cell)
  BY <1>2 DEF Origin
<1>4. \A n : BlankBefore(n)' = BlankBefore(n)
  BY <1>1 DEF BlankBefore
<1>5. \A kind, n : Shown(kind, n)' = Shown(kind, n)
  BY SamePagesShow
<1>6. \A numbers : Titles(numbers)' = Titles(numbers)
  BY <1>5 DEF Titles
<1>7. \A head, tail : OffsetsAreTrue(c, head, tail)' = OffsetsAreTrue(c, head, tail)
  BY <1>3, <1>4 DEF OffsetsAreTrue
<1> QED
  BY <1>1, <1>6, <1>7 DEF ChunkIsTrue

\* The rows that are stored with the chunks are true.
LEMMA StoredRowsAreTrue ==
    ASSUME TypeInv, SourcesInv, StoreChunks
    PROVE  \A i \in DOMAIN stored' : RowIsTrue(i)'
<1> SUFFICES ASSUME NEW i \in DOMAIN stored' PROVE RowIsTrue(i)'
  OBVIOUS
<1>1. /\ chunks' = chunks /\ book' = book /\ DOMAIN stored' = DOMAIN chunks
      /\ \A j \in DOMAIN chunks :
            stored'[j] = IF book.pdf THEN [parent |-> ParentOf(j), method |-> Method(chunks[j])]
                         ELSE [parent |-> 0, method |-> "text"]
  BY DEF StoreChunks, cutVars
<1>2. i \in DOMAIN chunks /\ i \in Nat /\ DOMAIN chunks = 1 .. Len(chunks) /\ Len(chunks) \in Nat
  BY <1>1, ChunkTypes
<1>3. CASE ~book.pdf
  <2>1. stored'[i].parent = 0 /\ chunks[i].pages = {}
    BY <1>1, <1>2, <1>3 DEF SourcesInv
  <2> QED
    BY <1>1, <2>1 DEF RowIsTrue
<1>4. CASE book.pdf
  <2>1. \A j \in DOMAIN chunks : stored'[j].parent = ParentOf(j) /\ stored'[j].method = Method(chunks[j])
    BY <1>1, <1>4
  <2> DEFINE Under(j) == {k \in 1 .. j : <<chunks[k].section, chunks[k].heading>>
                                            = <<chunks[j].section, chunks[j].heading>>}
  <2>2. \A j \in DOMAIN chunks :
           ParentOf(j) = IF chunks[j].heading = NoHeading \/ Min(Under(j)) = j THEN 0 ELSE Min(Under(j))
    BY DEF ParentOf
  <2>3. ASSUME NEW above, above = ParentOf(i), above # 0
        PROVE  /\ above < i /\ ParentOf(above) = 0 /\ above \in DOMAIN chunks
               /\ chunks[above].heading = chunks[i].heading
               /\ chunks[above].section = chunks[i].section
    <3>1. above = Min(Under(i)) /\ above # i
      BY <1>2, <2>2, <2>3
    <3>2. above \in Under(i) /\ \A k \in Under(i) : above <= k
      <4>1. Under(i) \in SUBSET Nat /\ i \in Under(i)
        BY <1>2
      <4> HIDE DEF Under
      <4> QED
        BY <3>1, <4>1, MinFacts
    <3>3. /\ above \in 1 .. i /\ chunks[above].heading = chunks[i].heading
          /\ chunks[above].section = chunks[i].section
      BY <3>2
    <3>4. above < i /\ above \in DOMAIN chunks /\ above \in Nat
      BY <1>2, <3>1, <3>3
    <3>5. \A k \in Under(above) : k \in Under(i) /\ k <= above
      BY <1>2, <3>3, <3>4
    <3>6. Min(Under(above)) = above
      <4>1. Under(above) \in SUBSET Nat /\ above \in Under(above)
        <5>1. above \in 1 .. above /\ 1 .. above \subseteq Nat
          BY <1>2, <3>3, <3>4
        <5>2. above \in Under(above)
          BY <5>1
        <5> QED
          BY <5>1, <5>2
      <4>2. Min(Under(above)) \in Under(above)
        <5> HIDE DEF Under
        <5> QED
          BY <4>1, MinFacts
      <4>3. PICK m \in Under(above) : m = Min(Under(above))
        BY <4>2
      <4>4. m <= above /\ above <= m
        BY <3>2, <3>5
      <4>5. m = above
        BY <3>4, <4>1, <4>4
      <4> QED
        BY <4>3, <4>5
    <3>7. ParentOf(above) = 0
      BY <2>2, <3>4, <3>6
    <3> QED
      BY <3>3, <3>4, <3>7
  <2>4. ASSUME Method(chunks[i]) # "mixed", NEW n \in chunks[i].pages
        PROVE  book.pages[n].method = Method(chunks[i])
    <3> DEFINE numbers == chunks[i].pages
               methods == {book.pages[m].method : m \in Min(numbers) .. Max(numbers)}
    <3>1. PICK last \in Nat : last = Len(book.pages) /\ DOMAIN book.pages = 1 .. last
      BY BookTypes DEF TypeInv
    <3>2. numbers \in SUBSET (1 .. last)
      BY <1>2, <1>4, <3>1 DEF SourcesInv
    <3>3. /\ Min(numbers) \in 1 .. last /\ Max(numbers) \in 1 .. last
          /\ Min(numbers) <= n /\ n <= Max(numbers) /\ n \in Nat
      <4>1. numbers \in SUBSET Nat /\ numbers \in SUBSET (0 .. last) /\ numbers # {} /\ n \in numbers
        BY <3>2
      <4> HIDE DEF numbers
      <4> QED
        BY <3>2, <4>1, MinFacts, MaxFacts
    <3>4. book.pages[n].method \in methods
      BY <3>3
    <3>5. methods \in SUBSET {"text", "ocr"}
      <4>1. \A m \in 1 .. last : book.pages[m] \in Leaf
        BY <3>1, BookTypes DEF TypeInv
      <4>2. \A m \in 1 .. last : book.pages[m].method \in {"text", "ocr"}
        BY <4>1 DEF Leaf
      <4>3. \A m \in Min(numbers) .. Max(numbers) : m \in 1 .. last
        BY <3>3
      <4> QED
        BY <4>2, <4>3
    <3>6. IsFiniteSet(methods)
      <4>1. IsFiniteSet({"text", "ocr"})
        <5>1. {"text", "ocr"} = {"text"} \cup {"ocr"}
          OBVIOUS
        <5>2. IsFiniteSet({"text"})
          BY FS_Singleton
        <5>3. IsFiniteSet({"text"} \cup {"ocr"})
          BY <5>2, FS_AddElement
        <5> QED
          BY <5>1, <5>3, Zenon
      <4> HIDE DEF methods
      <4> QED
        BY <3>5, <4>1, FS_Subset
    <3>7. Method(chunks[i]) = IF Cardinality(methods) = 1 THEN CHOOSE m \in methods : TRUE ELSE "mixed"
      BY DEF Method
    <3>8. Cardinality(methods) = 1 /\ Method(chunks[i]) = CHOOSE m \in methods : TRUE
      BY <2>4, <3>7
    <3> HIDE DEF methods
    <3>9. PICK m : methods = {m}
      BY <3>6, <3>8, FS_Singleton
    <3> QED
      BY <3>4, <3>8, <3>9
  <2>5. PICK above : above = ParentOf(i)
    OBVIOUS
  <2>6. stored'[i].parent = above /\ stored'[i].method = Method(chunks[i])
    BY <1>2, <2>1, <2>5
  <2>7. above # 0 => stored'[above].parent = 0
    BY <2>1, <2>3, <2>5
  <2> QED
    BY <1>1, <2>3, <2>4, <2>5, <2>6, <2>7 DEF RowIsTrue
<1> QED
  BY <1>3, <1>4

\* Only the last step stores rows, and only the embedding vectors.
LEMMA RowSteps ==
    ASSUME TypeInv, SourcesInv, [Next]_vars
    PROVE  /\ \A i \in DOMAIN vectors' : vectors'[i] = i
           /\ pc' # "done" => stored' = <<>>
           /\ \A i \in DOMAIN stored' : RowIsTrue(i)'
<1>0. pc # "done" => stored = <<>> /\ DOMAIN stored = {}
  BY DEF SourcesInv
<1>1. CASE UNCHANGED vars
  BY <1>1 DEF vars, storeVars, cutVars, SourcesInv, RowIsTrue
<1>2. CASE EmbedBatch
  <2>1. pc = "embed" /\ stored' = stored /\ pc' = pc
    BY <1>2, EmbedBatchSteps
  <2>2. PICK size \in Nat : vectors' = vectors \o [n \in 1 .. size |-> Len(vectors) + n]
    BY <1>2, EmbedBatchSteps
  <2>3. PICK m \in Nat : m = Len(vectors) /\ DOMAIN vectors = 1 .. m
    BY DEF TypeInv
  <2> DEFINE batch == [n \in 1 .. size |-> m + n]
  <2>4. batch \in Seq(Nat) /\ Len(batch) = size /\ \A n \in 1 .. size : batch[n] = m + n
    <3>1. \A n \in 1 .. size : m + n \in Nat
      BY <2>2, <2>3
    <3> QED
      BY <2>2, <3>1
  <2>5. vectors \in Seq(Nat) /\ vectors' = vectors \o batch
    BY <2>2, <2>3 DEF TypeInv
  <2> HIDE DEF batch
  <2>6. /\ DOMAIN vectors' = 1 .. m + size
        /\ \A i \in 1 .. m : vectors'[i] = vectors[i]
        /\ \A i \in m + 1 .. m + size : vectors'[i] = batch[i - m]
    BY <2>2, <2>3, <2>4, <2>5
  <2>7. ASSUME NEW i \in 1 .. m + size PROVE vectors'[i] = i
    <3>1. CASE i <= m
      <4>1. i \in 1 .. m
        BY <2>2, <2>3, <3>1
      <4> QED
        BY <2>3, <2>6, <4>1 DEF SourcesInv
    <3>2. CASE i > m
      <4>1. i \in m + 1 .. m + size /\ i - m \in 1 .. size /\ m + (i - m) = i
        BY <2>2, <2>3, <3>2
      <4> QED
        BY <2>4, <2>6, <4>1
    <3> QED
      BY <2>2, <2>3, <3>1, <3>2
  <2> QED
    BY <1>0, <2>1, <2>6, <2>7
<1>3. CASE StoreChunks
  <2>1. vectors' = vectors /\ pc' = "done"
    BY <1>3 DEF StoreChunks
  <2> QED
    BY <1>3, <2>1, StoredRowsAreTrue DEF SourcesInv
<1>4. ASSUME ~UNCHANGED vars, ~EmbedBatch, ~StoreChunks
      PROVE  pc # "done" /\ vectors' = vectors /\ stored' = stored
  <2>1. CASE SkipPage \/ PreparePage \/ EndPrepare
    BY <2>1 DEF SkipPage, PreparePage, EndPrepare, storeVars
  <2>2. CASE TakePage \/ CloseGroup \/ ReadText \/ EndGroups
    BY <2>2 DEF TakePage, CloseGroup, ReadText, EndGroups, storeVars
  <2>3. CASE CutSpan \/ CutText
    BY <2>3 DEF CutSpan, CutText, Advance, storeVars
  <2>4. CASE EmbeddingFails
    BY <2>4 DEF EmbeddingFails, storeVars
  <2> QED
    BY <1>4, <2>1, <2>2, <2>3, <2>4 DEF Next
<1>5. CASE ~UNCHANGED vars /\ ~EmbedBatch /\ ~StoreChunks
  BY <1>0, <1>4, <1>5 DEF SourcesInv
<1> QED
  BY <1>1, <1>2, <1>3, <1>5

\* The chunks that were true stay true, and a new one is true.
LEMMA ChunkSteps ==
    ASSUME TypeInv, PagesInv, PlaceInv, HeadingInv, GroupInv, CellInv, OrderInv, SourcesInv,
           [Next]_vars
    PROVE  \A i \in DOMAIN chunks' :
              (IF book.pdf THEN ChunkIsTrue(chunks[i]) /\ chunks[i].pages \subseteq DOMAIN book.pages
               ELSE chunks[i].pages = {})'
<1> DEFINE Right(c) == IF book.pdf THEN ChunkIsTrue(c) /\ c.pages \subseteq DOMAIN book.pages
                       ELSE c.pages = {}
<1>0. \A i \in DOMAIN chunks : Right(chunks[i])
  BY DEF SourcesInv
<1>1. ASSUME book' = book, pages' = pages, NEW c, Right(c)
      PROVE  Right(c)'
  <2>1. CASE book.pdf
    <3>1. ChunkIsTrue(c)'
      BY <1>1, <2>1, SameChunkIsTrue
    <3> QED
      BY <1>1, <2>1, <3>1
  <2>2. CASE ~book.pdf
    BY <1>1, <2>2
  <2> QED
    BY <2>1, <2>2
<1>2. ASSUME book' = book, pages' = pages, NEW i \in DOMAIN chunks', NEW c, c = chunks'[i], Right(c)
      PROVE  Right(chunks[i])'
  <2>1. Right(c)'
    BY <1>1, <1>2
  <2> QED
    BY <1>2, <2>1
<1>3. CASE SkipPage \/ PreparePage \/ EndPrepare
  <2>1. pc = "prepare" /\ chunks' = chunks
    BY <1>3 DEF SkipPage, PreparePage, EndPrepare, cutVars
  <2>2. DOMAIN chunks' = {}
    BY <2>1 DEF OrderInv
  <2> QED
    BY <2>2
<1>4. CASE CutSpan \/ CutText
  <2>0. book' = book /\ pages' = pages
    BY <1>4 DEF CutSpan, CutText, Advance
  <2>1. CASE chunks' = chunks
    BY <1>0, <1>2, <2>0, <2>1
  <2>2. ASSUME NEW c, chunks' = Append(chunks, c), Right(c)
        PROVE  \A i \in DOMAIN chunks' : Right(chunks[i])'
    <3>1. PICK n \in Nat : n = Len(chunks) /\ DOMAIN chunks = 1 .. n
      BY ChunkTypes
    <3>2. DOMAIN chunks' = 1 .. n + 1 /\ chunks'[n + 1] = c /\ \A i \in 1 .. n : chunks'[i] = chunks[i]
      <4>1. chunks \in Seq(ChunkType)
        BY ChunkTypes
      <4> QED
        BY <2>2, <3>1, <4>1
    <3>3. \A i \in 1 .. n : Right(chunks[i])
      BY <1>0, <3>1
    <3>4. ASSUME NEW i \in 1 .. n + 1 PROVE Right(chunks'[i])
      <4>1. i = n + 1 \/ i \in 1 .. n
        BY <3>1
      <4> HIDE DEF Right
      <4> QED
        BY <2>2, <3>2, <3>3, <4>1
    <3> HIDE DEF Right
    <3> QED
      BY <1>2, <2>0, <3>2, <3>4
  <2>3. CASE CutSpan /\ Visible # {}
    <3>1. chunks' = Append(chunks, NewChunk) /\ book.pdf
      BY <2>3, CutSpanSteps
    <3>2. ChunkIsTrue(NewChunk) /\ NewChunk.pages \subseteq DOMAIN book.pages
      BY <2>3, NewChunkPages, NewChunkHeading, NewChunkOffsets DEF ChunkIsTrue
    <3> QED
      BY <2>2, <3>1, <3>2
  <2>4. CASE CutSpan /\ Visible = {}
    <3>1. chunks' = chunks
      BY <2>4, CutSpanSteps
    <3> QED
      BY <2>1, <3>1
  <2>5. CASE CutText
    <3>1. PICK c : chunks' = Append(chunks, c) /\ c.pages = {} /\ ~book.pdf
      <4> DEFINE c == Chunk(start, Smaller(start + PlainSize, Len(text)), {}, "body")
      <4>1. chunks' = Append(chunks, c) /\ ~book.pdf
        BY <2>5 DEF CutText
      <4>2. c.pages = {}
        BY DEF Chunk
      <4> HIDE DEF c
      <4> QED
        BY <4>1, <4>2
    <3> QED
      BY <2>2, <3>1
  <2> QED
    BY <1>4, <2>3, <2>4, <2>5
<1>5. CASE ~(SkipPage \/ PreparePage \/ EndPrepare) /\ ~(CutSpan \/ CutText)
  <2>1. book' = book /\ pages' = pages
    BY <1>5, LaterSteps
  <2>2. chunks' = chunks
    <3>1. CASE UNCHANGED vars
      BY <3>1 DEF vars, cutVars
    <3>2. CASE TakePage \/ CloseGroup \/ ReadText \/ EndGroups
      BY <3>2 DEF TakePage, CloseGroup, ReadText, EndGroups, cutVars
    <3>3. CASE EmbedBatch \/ EmbeddingFails \/ StoreChunks
      BY <3>3 DEF EmbedBatch, EmbeddingFails, StoreChunks, cutVars
    <3> QED
      BY <1>5, <3>1, <3>2, <3>3 DEF Next
  <2> QED
    BY <1>0, <1>2, <2>1, <2>2
<1> QED
  BY <1>3, <1>4, <1>5

\* What the chunks and the rows say stays true in every step.
LEMMA SourcesStep ==
    ASSUME TypeInv, PagesInv, PlaceInv, HeadingInv, GroupInv, CellInv, OrderInv, SourcesInv,
           [Next]_vars
    PROVE  SourcesInv'
  BY RowSteps, ChunkSteps DEF SourcesInv

\* The invariant holds at the start, and every step keeps it.
LEMMA InitShowsNothing ==
    ASSUME Init, NEW kind
    PROVE  Shown(kind, 0) = Untitled
<1>1. DOMAIN pages = {}
  BY DEF Init
<1> QED
  BY <1>1 DEF Shown

LEMMA InitIInv == Init => IInv
<1> SUFFICES ASSUME Init PROVE IInv
  OBVIOUS
<1>1. /\ DOMAIN pages = {} /\ DOMAIN chunks = {} /\ DOMAIN text = {} /\ DOMAIN spans = {}
      /\ Len(pages) = 0 /\ Len(chunks) = 0 /\ Len(spans) = 0 /\ pc \in {"prepare", "group"}
      /\ (pc = "prepare" => book.pdf)
  <2>1. DOMAIN pages = {} /\ DOMAIN chunks = {} /\ DOMAIN text = {} /\ DOMAIN spans = {}
    BY DEF Init
  <2>2. Len(pages) = 0 /\ Len(chunks) = 0 /\ Len(spans) = 0
    BY DEF Init
  <2>3. book.pdf \in BOOLEAN
    BY BooksAssumption DEF Init
  <2>4. pc \in {"prepare", "group"} /\ (pc = "prepare" => book.pdf)
    BY <2>3 DEF Init
  <2> QED
    BY <2>1, <2>2, <2>4
<1>2. TypeInv
  <2>1. /\ book \in Books /\ pc \in {"prepare", "group"} /\ heading \in Headings
        /\ next = 1 /\ front = 0 /\ offset = 0 /\ base = 0 /\ first = 0 /\ local = 0 /\ start = 0
        /\ section = "unknown" /\ skipped = FALSE
    BY <1>1, HeadingTypes DEF Init
  <2>2. /\ pages = <<>> /\ text = <<>> /\ spans = <<>> /\ chunks = <<>> /\ vectors = <<>>
    BY DEF Init
  <2>3. \A S : <<>> \in Seq(S)
    OBVIOUS
  <2>4. /\ pages \in Seq(PageType) /\ text \in Seq(CellType) /\ spans \in Seq(SpanType)
        /\ chunks \in Seq(ChunkType) /\ vectors \in Seq(Nat)
    BY <2>2, <2>3, Zenon
  <2>5. /\ next \in Nat \ {0} /\ front \in Nat /\ offset \in Nat /\ base \in Nat
        /\ first \in Nat /\ local \in Nat /\ start \in Nat
    BY <2>1
  <2>6. pc \in {"prepare", "group", "cut", "embed", "done", "failed"} /\ skipped \in BOOLEAN
    BY <2>1
  <2>7. section \in Sections \cup {"unknown"}
    BY <2>1
  <2> QED
    BY <2>1, <2>4, <2>5, <2>6, <2>7, Zenon DEF TypeInv
<1>3. Len(book.pages) \in Nat
  BY <1>2, BookTypes DEF TypeInv
<1>4. PagesInv
  BY <1>1, <1>3 DEF Init, PagesInv, Read
<1>5. FrontInv
  <2>1. MaxFront \in Nat \ {0}
    BY SizesAssumption
  <2>2. FrontMatterBounded
    BY <1>1, <2>1 DEF FrontMatterBounded
  <2> QED
    BY <1>1, <2>2 DEF Init, FrontInv, Front
<1>6. PlaceInv
  <2>1. pc = "prepare" => (next <= Len(book.pages) => offset = Place[next])
    BY <1>2, <1>3, PlaceFacts DEF Init
  <2> QED
    BY <1>1, <2>1 DEF Init, PlaceInv
<1>7. HeadingInv
  <2>1. \A kind \in Kinds : heading[kind] = Shown(kind, next - 1)
    <3> SUFFICES ASSUME NEW kind \in Kinds PROVE heading[kind] = Shown(kind, next - 1)
      OBVIOUS
    <3>1. next - 1 = 0 /\ heading[kind] = Untitled
      BY DEF Init, NoHeading, Kinds
    <3> QED
      BY <3>1, InitShowsNothing
  <2> QED
    BY <1>1, <2>1 DEF HeadingInv, TitledPages
<1>8. GroupInv /\ CellInv
  BY <1>1 DEF Init, GroupInv, CellInv
<1>9. CoverInv
  BY <1>1 DEF Init, CoverInv
<1>10. OrderInv
  BY <1>1 DEF Init, OrderInv, ChunksInv, Acceptable
<1>11. SourcesInv
  <2>1. DOMAIN vectors = {} /\ DOMAIN stored = {} /\ stored = <<>>
    BY DEF Init
  <2> QED
    BY <1>1, <2>1 DEF SourcesInv
<1> QED
  BY <1>2, <1>4, <1>5, <1>6, <1>7, <1>8, <1>9, <1>10, <1>11 DEF IInv

LEMMA StepIInv == IInv /\ [Next]_vars => IInv'
<1> SUFFICES ASSUME IInv, [Next]_vars PROVE IInv'
  OBVIOUS
<1>1. TypeInv' /\ PagesInv' /\ FrontInv' /\ PlaceInv' /\ HeadingInv'
  BY TypeStep, PagesStep, FrontStep, PlaceStep, HeadingStep DEF IInv
<1>2. GroupInv' /\ CellInv' /\ CoverInv' /\ OrderInv' /\ SourcesInv'
  BY GroupStep, CellStep, CoverStep, OrderStep, SourcesStep DEF IInv
<1> QED
  BY <1>1, <1>2 DEF IInv

\* In every state of the chunking the invariant holds: pages, groups, chunks and rows are
\* as _prepare_pdf_pages_for_chunking, _chunk_pdf_pages and index_library_item leave them.
THEOREM Invariant == Spec => []IInv
  BY InitIInv, StepIInv, PTL DEF Spec

\* Offsets, indexes and counters never leave the natural numbers, and a chunk is always one
\* of the records that index_library_item stores.
THEOREM TypesHold == Spec => []TypeInv
<1>1. IInv => TypeInv
  BY DEF IInv
<1> QED
  BY <1>1, Invariant, PTL

\* A list of contents and a preface never run on through the book: the counter of
\* _resolve_pdf_page_section_type ends them after MaxFront pages that do not look like it.
THEOREM FrontMatterIsBounded == Spec => []FrontMatterBounded
<1>1. IInv => FrontMatterBounded
  BY DEF IInv, FrontInv
<1> QED
  BY <1>1, Invariant, PTL

\* No chunk of _build_readable_chunk_spans or chunk_text is empty or longer than the size
\* and an added rest, their indexes differ unless a span was blank, and their order is that
\* of the document.
THEOREM ChunksAreAcceptable == Spec => []Acceptable
<1>1. IInv => Acceptable
  BY DEF IInv, OrderInv, ChunksInv
<1> QED
  BY <1>1, Invariant, PTL

\* Each start is behind the one before it, wherever the boundaries and the words are.
LEMMA AdvancesStep ==
    ASSUME IInv, Advances, [Next]_vars
    PROVE  local' <= start' \/ pc' # "cut"
<1>1. CASE CutSpan
  <2>1. pc = "cut" /\ Cutting /\ Advance(End, NextStart) /\ local <= start /\ local \in Nat
    BY <1>1, IsCutting, CutSpanSteps DEF IInv, TypeInv, Advances
  <2>2. End < Len(text) => NextStart \in Nat /\ start + 1 <= NextStart
    BY <2>1, NextFacts, EndFacts DEF Cutting, EndIsNear
  <2>3. End \in Nat /\ Len(text) \in Nat /\ start \in Nat
    BY <2>1, EndFacts DEF Cutting, EndIsNear
  <2> QED
    BY <2>1, <2>2, <2>3 DEF Advance
<1>2. CASE CutText
  <2> DEFINE end == Smaller(start + PlainSize, Len(text))
  <2>1. /\ pc = "cut" /\ start \in Nat /\ Len(text) \in Nat /\ end \in start + 1 .. Len(text)
        /\ Advance(end, start + PlainSize - PlainOverlap)
    BY <1>2, CutTextSteps DEF IInv
  <2>2. local \in Nat /\ local <= start
    BY <2>1 DEF IInv, TypeInv, Advances
  <2> HIDE DEF end
  <2> QED
    BY <2>1, <2>2, SizesAssumption DEF Advance
<1>3. CASE CloseGroup \/ ReadText
  BY <1>3 DEF CloseGroup, ReadText, BeginCuts
<1>4. CASE UNCHANGED vars
  BY <1>4 DEF vars, cutVars, Advances
<1>5. CASE SkipPage \/ PreparePage \/ EndPrepare \/ TakePage \/ EndGroups
  BY <1>5 DEF SkipPage, PreparePage, EndPrepare, TakePage, EndGroups
<1>6. CASE EmbedBatch \/ EmbeddingFails \/ StoreChunks
  BY <1>6 DEF EmbedBatch, EmbeddingFails, StoreChunks
<1> QED
  BY <1>1, <1>2, <1>3, <1>4, <1>5, <1>6 DEF Next

LEMMA SpansAdvance == Spec => []Advances
<1>1. Init => Advances
  BY DEF Init, Advances
<1>2. IInv /\ IInv' /\ Advances /\ [Next]_vars => Advances'
  BY AdvancesStep DEF IInv, OrderInv, Advances
<1> QED
  BY <1>1, <1>2, Invariant, PTL DEF Spec

\* Every written character of the document is in a stored chunk: between the end of a span
\* and the start that _adjust_chunk_start gives the next one, nothing is lost. The loop of
\* _build_readable_chunk_spans never stands still for it, for any sizes that are allowed.
THEOREM NothingIsLost == Spec => []NothingLost
<1>1. IInv /\ Advances => NothingLost
  <2> SUFFICES ASSUME IInv, pc = "done", NEW c \in Written
               PROVE  \E i \in DOMAIN chunks : c \in Contents(chunks[i])
    BY DEF NothingLost
  <2>1. PICK n \in DOMAIN book.pages : c \in {Cells(n)[i] : i \in DOMAIN Cells(n)}
    BY DEF Written
  <2>2. PICK i \in DOMAIN Cells(n) : c = Cells(n)[i]
    BY <2>1
  <2>3. i \in DOMAIN book.pages[n].text
    BY <2>2 DEF Cells
  <2>4. c.char \notin Blanks
    BY DEF Written
  <2>5. PageCovered(n)
    BY DEF IInv, CoverInv
  <2> QED
    BY <2>2, <2>3, <2>4, <2>5 DEF PageCovered, Covered
<1> QED
  BY <1>1, Invariant, SpansAdvance, PTL

\* What a stored chunk says of its pages, its section, its titles and its offsets is true,
\* and so are the parent and the method that _assign_parent_chunks and _enrich_pdf_chunks
\* give it; its vector is that of its own text, however a batch was answered.
THEOREM SourcesAreTrueOfAll == Spec => []SourcesAreTrue
<1>1. IInv => SourcesAreTrue
  <2> SUFFICES ASSUME IInv PROVE SourcesAreTrue
    OBVIOUS
  <2>1. SourcesInv
    BY DEF IInv
  <2>2. book.pdf => \A i \in DOMAIN chunks : ChunkIsTrue(chunks[i])
    BY <2>1 DEF SourcesInv
  <2>3. \A i \in DOMAIN stored : RowIsTrue(i)
    BY <2>1 DEF SourcesInv
  <2>4. \A i \in DOMAIN vectors : vectors[i] = i
    BY <2>1 DEF SourcesInv
  <2> QED
    BY <2>2, <2>3, <2>4, Zenon DEF SourcesAreTrue, ChunkIsTrue, OffsetsAreTrue, RowIsTrue
<1> QED
  BY <1>1, Invariant, PTL
=============================================================================
