------------------------------ MODULE Chunking ------------------------------
(***************************************************************************)
(* From the pages of a PDF, or the text of a file, to the stored chunks    *)
(* that are searched and cited: the section types and the headings of the  *)
(* pages, their grouping, the cutting of a group into overlapping spans at *)
(* readable places (backend/app/library/indexing.py, ingestion/chunking.py),*)
(* the embedding of the chunks batch by batch (embeddings/providers.py)    *)
(* and the parents they are given.                                         *)
(*                                                                         *)
(* A character is one of a few classes: a letter "x", the marks that end a *)
(* sentence, a blank " " and a newline "n". A cell is a character with the *)
(* page and the place it comes from, page 0 for what joins the pages; the  *)
(* code has only the characters and computes pages and offsets beside them.*)
(* Offsets count from 0: a span from s to e has the cells s + 1 .. e.      *)
(***************************************************************************)
EXTENDS Integers, Sequences, FiniteSetsExt, Functions

CONSTANTS
    Books,          \* documents: [pdf, pages], a page is a Leaf
    Size,           \* PDF_INDEX_CHUNK_SIZE_CHARS
    Overlap,        \* PDF_INDEX_CHUNK_OVERLAP_CHARS
    Least,          \* PDF_INDEX_MIN_CHUNK_CHARS
    Window,         \* how far before its end a chunk looks for a readable one
    Skip,           \* how far its start looks for a blank
    PlainSize,      \* DEFAULT_INDEX_CHUNK_SIZE
    PlainOverlap,   \* DEFAULT_INDEX_CHUNK_OVERLAP
    MaxFront,       \* MAX_EARLY_NON_BODY_PAGES
    HeadLines,      \* the lines of a page that may be headings
    Names,          \* the titles that the lines of the books show
    Batch           \* DEFAULT_ZHIPU_BATCH_SIZE

Chars == {"x", ".", "?", "!", " ", "n"}
Blanks == {" ", "n"}
Front == {"contents", "preface"}
NonBody == Front \cup {"index", "bibliography"}
\* What classify_pdf_section_type makes of the words of a page that is not blank.
Sections == NonBody \cup {"body"}

Untitled == "none"
\* A line that names a chapter, a section, or both as a running header does.
Headings == [{"chapter", "section"} -> Names]
NoHeading == [kind \in {"chapter", "section"} |-> Untitled]

\* ProcessedPDFPage; method: its text was in the PDF or was recognised.
Leaf == [text : Seq(Chars), class : Sections, opens : BOOLEAN, lines : Seq(Headings),
         method : {"text", "ocr"}]

ASSUME BooksAssumption ==
    \A book \in Books :
        /\ book \in [pdf : BOOLEAN, pages : Seq(Leaf)]
        /\ ~book.pdf => Len(book.pages) = 1

\* The production values are 2400, 400, 350, 500, 80, 800, 100, 12, 8 and 16.
ASSUME SizesAssumption ==
    /\ Size \in Nat /\ Overlap \in Nat /\ Least \in Nat /\ Window \in Nat /\ Skip \in Nat
    /\ Skip <= Overlap /\ Overlap + Window < Size /\ 0 < Least
    /\ PlainSize \in Nat /\ PlainOverlap \in Nat /\ PlainOverlap < PlainSize
    /\ Untitled \in Names /\ MaxFront \in Nat \ {0} /\ HeadLines \in Nat /\ Batch \in Nat \ {0}

VARIABLES
    book,     \* the document
    pc,       \* "prepare", "group", "cut", "embed", "done" or "failed"
    next,     \* the page of the current loop
    section,  \* current_section_type
    front,    \* current_non_body_pages
    offset,   \* document_offset
    heading,  \* current_chapter_title, current_section_title
    pages,    \* prepared_pages: number, section type, char_start, titles
    text,     \* combined_text of the group
    spans,    \* page_spans of the group
    base,     \* base_offset of the group
    first,    \* start_index of the group
    local,    \* local_index of the next span
    start,    \* where the next span starts
    chunks,   \* the chunks so far
    skipped,  \* history: a span was blank
    vectors,  \* embeddings: the n-th is that of the content of chunk vectors[n]
    stored    \* for each chunk, what its row has besides: parent, method

prepareVars == <<section, front, offset, heading>>
groupVars == <<text, spans, base>>
cutVars == <<first, local, start, chunks, skipped>>
storeVars == <<vectors, stored>>
vars == <<book, pc, next, pages, prepareVars, groupVars, cutVars, storeVars>>

-----------------------------------------------------------------------------
(* Texts.                                                                  *)

Blank(t) == \A i \in DOMAIN t : t[i] \in Blanks

Cell(page, at, char) == [page |-> page, at |-> at, char |-> char]
Cells(n) ==
    LET t == book.pages[n].text IN [i \in DOMAIN t |-> Cell(n, i, t[i])]
Joint == << Cell(0, 0, "n"), Cell(0, 0, "n") >>

Written == {c \in UNION {{Cells(n)[i] : i \in DOMAIN Cells(n)} : n \in DOMAIN book.pages} :
              c.char \notin Blanks}

Smaller(a, b) == IF a <= b THEN a ELSE b
Larger(a, b) == IF a <= b THEN b ELSE a

-----------------------------------------------------------------------------
(* _prepare_pdf_pages_for_chunking                                         *)

Init ==
    /\ book \in Books
    /\ pc = IF book.pdf THEN "prepare" ELSE "group"
    /\ next = 1 /\ pages = <<>>
    /\ section = "unknown" /\ front = 0 /\ offset = 0 /\ heading = NoHeading
    /\ text = <<>> /\ spans = <<>> /\ base = 0
    /\ first = 0 /\ local = 0 /\ start = 0 /\ chunks = <<>> /\ skipped = FALSE
    /\ vectors = <<>> /\ stored = <<>>

ResolvedForEver(page) ==
    IF page.class \in NonBody \/ page.opens \/ section \notin NonBody THEN page.class
    ELSE section

\* _resolve_pdf_page_section_type: a page that starts no chapter continues a list of
\* contents, a preface, an index or a bibliography; the first two not for ever.
Resolved(page) ==
    IF page.class \in NonBody \/ page.opens \/ section \notin NonBody THEN page.class
    ELSE IF section \in Front /\ front >= MaxFront THEN "body" ELSE section

PassedUnjoined(page) == Len(page.text)
Passed(page) == Len(page.text) + 2

\* detect_pdf_heading_context: the last chapter and the last section among the first
\* lines of the page.
Detected(page) ==
    [kind \in DOMAIN NoHeading |->
        LET named == {n \in 1 .. Smaller(HeadLines, Len(page.lines)) :
                        page.lines[n][kind] # Untitled}
        IN  IF named = {} THEN Untitled ELSE page.lines[Max(named)][kind]]

\* A page of the body that names neither continues the chapter and the section; a new
\* chapter does not end the section of the one before.
Continued(page) ==
    [kind \in DOMAIN NoHeading |->
        IF Detected(page)[kind] = Untitled THEN heading[kind] ELSE Detected(page)[kind]]

SkipPage ==
    /\ pc = "prepare" /\ next <= Len(book.pages) /\ Blank(book.pages[next].text)
    /\ next' = next + 1
    /\ offset' = offset + Passed(book.pages[next])
    /\ UNCHANGED <<book, pc, section, front, heading, pages, groupVars, cutVars, storeVars>>

PreparePage ==
    /\ pc = "prepare" /\ next <= Len(book.pages)
    /\ LET page == book.pages[next]
           type == Resolved(page)
       IN  /\ ~Blank(page.text)
           /\ front' = IF type \notin Front THEN 0
                       ELSE IF type = section THEN front + 1 ELSE 1
           /\ section' = type
           /\ heading' = IF type = "body" THEN Continued(page) ELSE heading
           /\ pages' = Append(pages, [number |-> next, section |-> type, start |-> offset,
                                      heading |-> IF type = "body" THEN heading' ELSE NoHeading])
           /\ offset' = offset + Passed(page)
    /\ next' = next + 1
    /\ UNCHANGED <<book, pc, groupVars, cutVars, storeVars>>

EndPrepare ==
    /\ pc = "prepare" /\ next > Len(book.pages)
    /\ pc' = "group" /\ next' = 1
    /\ UNCHANGED <<book, pages, prepareVars, groupVars, cutVars, storeVars>>

-----------------------------------------------------------------------------
(* _chunk_pdf_pages: groups of pages of one section type.                  *)

Span(page, from, to) ==
    [page |-> page.number, start |-> from, end |-> to, heading |-> page.heading]
GroupSection == pages[next - 1].section

TakePage ==
    /\ pc = "group" /\ book.pdf /\ next <= Len(pages)
    /\ LET page == pages[next]
           from == IF text = <<>> THEN 0 ELSE Len(text) + 2
       IN  /\ text # <<>> => page.section = GroupSection
           /\ text' = IF text = <<>> THEN Cells(page.number)
                      ELSE text \o Joint \o Cells(page.number)
           /\ spans' = Append(spans, Span(page, from, Len(text')))
           /\ base' = IF text = <<>> THEN page.start ELSE base
    /\ next' = next + 1
    /\ UNCHANGED <<book, pc, pages, prepareVars, cutVars, storeVars>>

BeginCuts == pc' = "cut" /\ first' = Len(chunks) /\ local' = 0 /\ start' = 0

CloseGroup ==
    /\ pc = "group" /\ book.pdf /\ text # <<>>
    /\ next <= Len(pages) => pages[next].section # GroupSection
    /\ BeginCuts
    /\ UNCHANGED <<book, next, pages, prepareVars, groupVars, chunks, skipped, storeVars>>

\* chunk_text: the whole text is one group.
ReadText ==
    /\ pc = "group" /\ ~book.pdf /\ next = 1
    /\ ~Blank(book.pages[1].text)
    /\ text' = Cells(1)
    /\ next' = 2
    /\ BeginCuts
    /\ UNCHANGED <<book, pages, prepareVars, spans, base, chunks, skipped, storeVars>>

EndGroups ==
    /\ pc = "group" /\ text = <<>>
    /\ IF book.pdf THEN next > Len(pages) ELSE next = 1 => Blank(book.pages[1].text)
    /\ pc' = "embed"
    /\ UNCHANGED <<book, next, pages, prepareVars, groupVars, cutVars, storeVars>>

-----------------------------------------------------------------------------
(* _build_readable_chunk_spans                                             *)

TargetLate ==
    LET target == Smaller(start + Size, Len(text))
    IN  IF Len(text) - target <= Least THEN Len(text) ELSE target

\* A rest of less than the least size is added to the chunk before it.
Target ==
    LET target == Smaller(start + Size, Len(text))
    IN  IF Len(text) - target < Least THEN Len(text) ELSE target

\* "\n\n", ". ", "? " and "! ", in the order in which they are looked for.
Boundaries == << <<"n", "n">>, <<".", " ">>, <<"?", " ">>, <<"!", " ">> >>

\* _adjust_chunk_end
Earliest(target) == Larger(start + Least, target - Window)
Ends(target, boundary) ==
    {e \in Earliest(target) + 2 .. target :
        /\ text[e - 1].char = boundary[1]
        /\ text[e].char = boundary[2]}
End ==
    LET found == {b \in DOMAIN Boundaries : Ends(Target, Boundaries[b]) # {}}
    IN  IF Target = Len(text) \/ found = {} THEN Target
        ELSE Max(Ends(Target, Boundaries[Min(found)]))

AdjustStartAnywhere(target) ==
    LET after == {i \in target + 1 .. Len(text) : text[i].char \in Blanks}
    IN  IF after = {} THEN target ELSE Min(after)

\* _adjust_chunk_start: behind the next blank, if it is near.
InWord(target) ==
    /\ 0 < target /\ target < Len(text)
    /\ text[target].char \notin Blanks /\ text[target + 1].char \notin Blanks
AdjustStart(target) ==
    LET after == {i \in target + 1 .. Smaller(Len(text), target + Skip) : text[i].char \in Blanks}
    IN  IF ~InWord(target) \/ after = {} THEN target ELSE Min(after)

NextStart ==
    LET adjusted == AdjustStart(Larger(0, End - Overlap))
    IN  IF adjusted <= start THEN Smaller(start + Size - Overlap, Len(text)) ELSE adjusted

\* _page_spans_for_chunk
SpansOf(from, to) ==
    {k \in DOMAIN spans : Larger(from, spans[k].start) < Smaller(to, spans[k].end)}

\* _heading_context_for_chunk: of the first page that has one.
HeadingOf(met) ==
    [kind \in DOMAIN NoHeading |->
        LET titled == {k \in met : spans[k].heading[kind] # Untitled}
        IN  IF titled = {} THEN Untitled ELSE spans[Min(titled)].heading[kind]]

Chunk(from, to, met, type) ==
    [index |-> first + local, content |-> SubSeq(text, from + 1, to),
     start |-> base + from, end |-> base + to, pages |-> {spans[k].page : k \in met},
     section |-> type, heading |-> HeadingOf(met)]

\* Where the next chunk starts; the group is left behind with its last chunk.
Advance(end, to) ==
    /\ local' = local + 1
    /\ IF end >= Len(text)
       THEN pc' = "group" /\ text' = <<>> /\ spans' = <<>> /\ UNCHANGED start
       ELSE start' = to /\ UNCHANGED <<pc, text, spans>>
    /\ UNCHANGED <<book, next, pages, prepareVars, base, first, storeVars>>

\* A chunk is trimmed, and left out when nothing remains.
CutSpan ==
    /\ pc = "cut" /\ book.pdf
    /\ LET visible == {i \in start + 1 .. End : text[i].char \notin Blanks}
           from == Min(visible) - 1
           to == Max(visible)
       IN  IF visible = {} THEN skipped' = TRUE /\ UNCHANGED chunks
           ELSE /\ chunks' = Append(chunks, Chunk(from, to, SpansOf(from, to), GroupSection))
                /\ UNCHANGED skipped
    /\ Advance(End, NextStart)

CutText ==
    /\ pc = "cut" /\ ~book.pdf
    /\ LET end == Smaller(start + PlainSize, Len(text))
       IN  /\ chunks' = Append(chunks, Chunk(start, end, {}, "body"))
           /\ Advance(end, start + PlainSize - PlainOverlap)
    /\ UNCHANGED skipped

-----------------------------------------------------------------------------
(* The embedding of the chunks, and their rows.                            *)

\* A service answers a batch with a row for each text: in their order, or in any order
\* when the rows have an index. Indexes count from 0.
NoIndex == 0 - 1
Row(of, index) == [of |-> of, index |-> index]
Responses(size) ==
    {[k \in 1 .. size |-> Row(k, NoIndex)]}
        \cup {[k \in 1 .. size |-> Row(order[k], order[k] - 1)] :
                 order \in {p \in [1 .. size -> 1 .. size] : IsInjective(p)}}

AsSent(rows) == [k \in DOMAIN rows |-> rows[k].of]

\* _extract_embeddings: by the index, or by the place of a row that has none.
Ordered(rows) ==
    LET Key(k) == IF rows[k].index = NoIndex THEN k - 1 ELSE rows[k].index
        Before(k) == {j \in DOMAIN rows : Key(j) < Key(k) \/ (Key(j) = Key(k) /\ j < k)}
    IN  [n \in DOMAIN rows |->
            rows[CHOOSE k \in DOMAIN rows : Cardinality(Before(k)) = n - 1].of]

EmbedBatch ==
    /\ pc = "embed" /\ Len(vectors) < Len(chunks)
    /\ \E rows \in Responses(Smaller(Batch, Len(chunks) - Len(vectors))) :
          vectors' = vectors \o [n \in DOMAIN rows |-> Len(vectors) + Ordered(rows)[n]]
    /\ UNCHANGED <<book, pc, next, pages, prepareVars, groupVars, cutVars, stored>>

\* The request fails, or rows are missing, or of another dimension: nothing is stored.
EmbeddingFails ==
    /\ pc = "embed" /\ Len(vectors) < Len(chunks)
    /\ pc' = "failed"
    /\ UNCHANGED <<book, next, pages, prepareVars, groupVars, cutVars, storeVars>>

\* _enrich_pdf_chunks: of all the pages from the first to the last of the chunk, the
\* blank ones too.
Method(c) ==
    LET methods == {book.pages[n].method : n \in Min(c.pages) .. Max(c.pages)}
    IN  IF Cardinality(methods) = 1 THEN CHOOSE m \in methods : TRUE ELSE "mixed"

\* _assign_parent_chunks: the first chunk under the same titles; 0 for none.
ParentOf(i) ==
    LET Key(c) == <<c.section, c.heading>>
        opening == Min({k \in 1 .. i : Key(chunks[k]) = Key(chunks[i])})
    IN  IF chunks[i].heading = NoHeading \/ opening = i THEN 0 ELSE opening

StoreChunks ==
    /\ pc = "embed" /\ Len(vectors) = Len(chunks)
    /\ pc' = "done"
    /\ stored' = [i \in DOMAIN chunks |->
                    IF book.pdf THEN [parent |-> ParentOf(i), method |-> Method(chunks[i])]
                    ELSE [parent |-> 0, method |-> "text"]]
    /\ UNCHANGED <<book, next, pages, prepareVars, groupVars, cutVars, vectors>>

Next ==
    \/ SkipPage \/ PreparePage \/ EndPrepare
    \/ TakePage \/ CloseGroup \/ ReadText \/ EndGroups
    \/ CutSpan \/ CutText
    \/ EmbedBatch \/ EmbeddingFails \/ StoreChunks

Spec == Init /\ [][Next]_vars

-----------------------------------------------------------------------------
(* Properties.                                                             *)

Contents(chunk) == {chunk.content[i] : i \in DOMAIN chunk.content}

\* The n-th span of a group starts n - 1 characters into it or further, and before its end.
Advances == pc = "cut" => local <= start /\ start < Len(text)

\* Whatever the page breaks, the blanks and the ends of sentences: every written
\* character of the document is in a chunk. A cut is moved back to a readable place, the
\* next start back by the overlap and then forward to a word: nothing falls between the
\* two, and the starts advance all the same, so that the loop over the spans ends.
NothingLost ==
    /\ Advances
    /\ pc = "done" => \A c \in Written : \E i \in DOMAIN chunks : c \in Contents(chunks[i])

PageOf(number) == CHOOSE i \in DOMAIN pages : pages[i].number = number
\* The place of a cell in the pages joined by two newlines, the blank ones too.
Place[n \in DOMAIN book.pages] ==
    IF n = 1 THEN 0 ELSE Place[n - 1] + (Len(book.pages[n - 1].text) + 2)
Origin(cell) == Place[cell.page] + cell.at - 1
\* A blank page between a page and the first one of its group.
BlankBefore(number) ==
    LET k == PageOf(number)
        opening == Min({i \in 1 .. k : \A j \in i .. k : pages[j].section = pages[k].section})
    IN  \E n \in pages[opening].number .. number : Blank(book.pages[n].text)

\* The title a reader of the body is under on a page: the last one shown there or before.
Shown(kind, number) ==
    LET under == {n \in DOMAIN book.pages :
                    /\ n <= number /\ Detected(book.pages[n])[kind] # Untitled
                    /\ \E i \in DOMAIN pages : pages[i].number = n /\ pages[i].section = "body"}
    IN  IF under = {} THEN Untitled ELSE Detected(book.pages[Max(under)])[kind]
\* The titles of the first page of a chunk where there is one.
Titles(numbers) ==
    [kind \in DOMAIN NoHeading |->
        LET under == {n \in numbers : Shown(kind, n) # Untitled}
        IN  IF under = {} THEN Untitled ELSE Shown(kind, Min(under))]

\* What a PDF chunk says of itself is true, since citations are made of it: it names the
\* pages its text comes from and no other, its section type and its titles are theirs,
\* and its offsets are those in the document - but a blank page inside a group is not
\* counted. Stored, it says how its text was read, and the parent whose text is shown
\* with it is an earlier chunk under the same titles that has none itself; the vector
\* stored with a chunk is that of its own text, in whatever order a batch was answered.
SourcesAreTrue ==
    /\ \A i \in DOMAIN vectors : vectors[i] = i
    /\ \A i \in DOMAIN stored :
        LET above == stored[i].parent IN
        /\ above # 0 => /\ above < i /\ stored[above].parent = 0
                        /\ chunks[above].heading = chunks[i].heading
                        /\ chunks[above].section = chunks[i].section
        /\ stored[i].method # "mixed" =>
              \A n \in chunks[i].pages : book.pages[n].method = stored[i].method
    /\ book.pdf => \A i \in DOMAIN chunks :
        LET c == chunks[i]
            head == c.content[1]
            tail == c.content[Len(c.content)]
        IN  /\ c.pages = {cell.page : cell \in Contents(c)} \ {0}
            /\ \A n \in c.pages : pages[PageOf(n)].section = c.section
            /\ c.heading = IF c.section = "body" THEN Titles(c.pages) ELSE NoHeading
            /\ c.start <= Origin(head) /\ c.end <= Origin(tail) + 1
            /\ c.start < Origin(head) => BlankBefore(head.page)
            /\ c.end = c.start + Len(c.content)

\* The provider accepts every chunk, and the table its index: no chunk is longer than the
\* size and an added rest, none is blank in a PDF, and no index is used twice unless a
\* span was blank. The chunks are in the order of the document.
Acceptable ==
    /\ \A i \in DOMAIN chunks :
        /\ Len(chunks[i].content) \in 1 .. IF book.pdf THEN Size + Least - 1 ELSE PlainSize
        /\ book.pdf => chunks[i].content[1].char \notin Blanks
    /\ \A i, j \in DOMAIN chunks : i < j =>
        /\ chunks[i].index = chunks[j].index => skipped
        /\ chunks[i].start <= chunks[j].start /\ chunks[i].end <= chunks[j].end

\* A list of contents and a preface do not run on through the book: among any MaxFront
\* pages of the kind that follow each other there is one that looks like it (AGENT.md: "Do
\* not let an early Contents or Preface classification propagate through the whole
\* scanned book").
FrontMatterBounded ==
    \A i \in 1 .. Len(pages) + 1 - MaxFront :
        (\A k \in i .. i + MaxFront - 1 : pages[k].section \in Front) =>
            \E k \in i .. i + MaxFront - 1 : book.pages[pages[k].number].class \in Front
=============================================================================
