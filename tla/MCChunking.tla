----------------------------- MODULE MCChunking -----------------------------
(* Small documents for Chunking: long pages over few characters, and books *)
(* of short pages of every section type with blank pages between them.     *)
EXTENDS Chunking

Texts(chars, length) == [1 .. length -> chars]
Page(t, class, opens) ==
    [text |-> t, class |-> class, opens |-> opens, lines |-> <<>>, method |-> "text"]
Body(t) == Page(t, "body", FALSE)
Book(pdf, leaves) == [pdf |-> pdf, pages |-> leaves]

LongTexts ==
    Texts({"x", ".", " "}, 10) \cup Texts({"x", "n"}, 10) \cup Texts({"?", "!", " "}, 7)
\* More blanks than a chunk is long.
WideText == <<"x", " ", " ", " ", " ", " ", " ", " ", " ", "x">>
ShortTexts == {<<>>, <<" ">>, <<"x">>, <<"x", " ", "x">>, WideText}

Leaves ==
    {Page(t, class, FALSE) : t \in ShortTexts, class \in {"contents", "index", "body"}}
        \cup {Page(t, "body", TRUE) : t \in ShortTexts}

Line(chapter, part) == [kind \in {"chapter", "section"} |-> IF kind = "chapter" THEN chapter ELSE part]
HeadedTexts == {<<"x">>, WideText}
HeadedLines ==
    {<<>>, <<Line("I", "none")>>, <<Line("none", "I.1"), Line("none", "I.2")>>,
     <<Line("II", "II.1")>>, <<Line("none", "none"), Line("none", "none"), Line("I", "none")>>}
Headed ==
    {[Page(t, "body", FALSE) EXCEPT !.lines = lines] : t \in HeadedTexts, lines \in HeadedLines}
        \cup {[Page(t, class, FALSE) EXCEPT !.method = "ocr"] :
                t \in {<<>>, <<"x">>}, class \in {"body", "index"}}

MCBooks ==
    {Book(TRUE, <<Body(t)>>) : t \in LongTexts}
        \cup {Book(FALSE, <<Body(t)>>) : t \in UNION {Texts({"x", " "}, n) : n \in 0 .. 8}}
        \cup {Book(TRUE, <<a, b, c>>) : a \in Leaves, b \in Leaves, c \in Leaves}
        \cup {Book(TRUE, <<a, b, c>>) : a \in Headed, b \in Headed, c \in Headed}
=============================================================================
