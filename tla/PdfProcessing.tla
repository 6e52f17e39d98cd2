--------------------------- MODULE PdfProcessing ---------------------------
(***************************************************************************)
(* What processing makes of a PDF (backend/app/ingestion/legacy_pdf.py):   *)
(* its pages are inspected, the document is classified by how many of them *)
(* have usable text and images, and the pages without usable text of a     *)
(* scanned or mixed one are recognised by OCR. The text of a page is       *)
(* reduced to whether there is any and whether it is usable; the removal   *)
(* of repeated headers and the layout elements are left out.               *)
(***************************************************************************)
EXTENDS Naturals, Sequences, FiniteSets

CONSTANT MaxPages   \* bound: pages of a PDF

ASSUME MaxPagesAssumption == MaxPages \in Nat

\* PageDetectionMetrics. "usable" text has 20 characters and is mostly printable; image:
\* there is one, or a quarter of the page is covered; a page that cannot be extracted has
\* no text.
Page == {p \in [text : {"none", "some", "usable"}, image : BOOLEAN, font : BOOLEAN,
                error : BOOLEAN] : p.error => p.text = "none"}
Pdf == UNION {[1 .. n -> Page] : n \in 0 .. MaxPages}

\* What the machine offers: pdf_ocr_enabled, the Tesseract and the OCRmyPDF executables,
\* and what Tesseract makes of a page ("fails": it returns an error).
Machine == [ocr : BOOLEAN, tesseract : BOOLEAN, searchable : {"missing", "works", "fails"},
            recognized : {"some", "none", "fails"}]

Usable(pdf) == {n \in DOMAIN pdf : pdf[n].text = "usable"}
WithImage(pdf) == {n \in DOMAIN pdf : pdf[n].image}
WithFont(pdf) == {n \in DOMAIN pdf : pdf[n].font}
WithText(pdf) == {n \in DOMAIN pdf : pdf[n].text # "none"}
Unreadable(pdf) == {n \in DOMAIN pdf : pdf[n].error}

\* detect_pdf_type, its ratios in tenths of the pages.
Damaged(pdf) == Cardinality(Unreadable(pdf)) = Len(pdf)

BornDigital(pdf) ==
    LET texts == 10 * Cardinality(Usable(pdf))
        images == 10 * Cardinality(WithImage(pdf)) IN
    \/ texts >= 8 * Len(pdf)
    \/ texts >= 6 * Len(pdf) /\ images < 5 * Len(pdf)
    \/ images < 2 * Len(pdf) /\ WithFont(pdf) # {} /\ WithText(pdf) # {}

Scanned(pdf) ==
    /\ 10 * Cardinality(Usable(pdf)) <= 2 * Len(pdf)
    /\ 10 * Cardinality(WithImage(pdf)) >= 5 * Len(pdf)

PdfType(pdf) == CASE Damaged(pdf) -> "damaged"
                  [] ~Damaged(pdf) /\ BornDigital(pdf) -> "born_digital"
                  [] ~Damaged(pdf) /\ ~BornDigital(pdf) /\ Scanned(pdf) -> "scanned"
                  [] OTHER -> "mixed"

NeedsOcr(pdf) == PdfType(pdf) \in {"scanned", "mixed"}
ByOcr(pdf, m) == IF NeedsOcr(pdf) /\ m.ocr THEN DOMAIN pdf \ Usable(pdf) ELSE {}

\* LegacyPDFError or OCRRetryableError is raised.
Fails(pdf, m) ==
    \/ Damaged(pdf)
    \/ /\ NeedsOcr(pdf) /\ m.ocr
       /\ \/ ~m.tesseract
          \/ m.searchable = "fails"
          \/ m.recognized = "fails" /\ ByOcr(pdf, m) # {}

\* The pages with a text after the processing. Without OCR a page keeps what it had.
Readable(pdf, m) ==
    (WithText(pdf) \ ByOcr(pdf, m))
        \cup (IF m.recognized = "some" THEN ByOcr(pdf, m) ELSE {})

\* What an attempt to process a PDF can end with: an error, chunks, or not one chunk.
Outcome(pdf, m) == IF Fails(pdf, m) THEN "failed"
                   ELSE IF Readable(pdf, m) = {} THEN "empty" ELSE "text"
Outcomes == {Outcome(pdf, m) : pdf \in Pdf, m \in Machine}
=============================================================================
