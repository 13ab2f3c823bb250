------------------------------ MODULE MCChunking ------------------------------
(* Small books for TLC: two pages each, texts of up to eleven units.         *)
EXTENDS StructuralGate

Unit(kind, name, id, tokens) == [kind |-> kind, name |-> name, id |-> id, tokens |-> tokens]

Word(name) == Unit("word", name, None, 1)
A == Word("a")
X == Word("x")
Y == Word("y")
Long == Unit("word", "l", None, 2)
Para == Unit("para", "", None, 0)
Sentence == Unit("sent", "", None, 0)
Span(id, title) == Unit("span", title, id, 2)
Untitled == Unit("title", "", None, 2)

Bodies ==
    {<<>>,
     <<A>>,
     <<A, A, A, A, Long, A>>,
     <<A, Sentence, A, Sentence, Long, Long, Sentence, A, Long, A, A>>,
     <<A, Long, Sentence, Long, Long, Sentence, A>>,
     <<A, Sentence, A, Sentence, A, A, Sentence, A, Para>>,
     <<A, A, Para, A, Para, A, A, Sentence, Long, A>>,
     <<X, A, A, Y, A, Sentence, Long, A>>,
     <<A, A, X, Y, A, A>>,
     <<Span(11, <<"x">>), A, A, Sentence, A, A>>,
     <<A, A, Span(12, <<"y">>), Span(13, <<"v">>), A, Long>>,
     <<Untitled, A, Long, Span(11, <<"x">>), A, A>>}

Notes == {<<>>, <<Para>>, <<A, Long, Sentence, A, A, Span(11, <<"x">>), A>>}

Entry(id, p, parent, title) ==
    [id |-> id, shamela |-> id + 10, page |-> p, parent |-> parent, title |-> title]

Tocs ==
    {<<>>,
     <<Entry(1, 1, None, <<"x">>)>>,
     <<Entry(2, 1, None, <<"y">>), Entry(1, 1, None, <<"x">>)>>,
     <<Entry(1, 1, None, <<"x">>), Entry(2, 1, 1, <<"x", "y">>),
       Entry(3, 2, None, <<"v">>)>>,
     <<Entry(1, 1, None, <<"x">>), Entry(2, 1, 1, <<"v">>), Entry(3, 1, None, <<"w">>)>>,
     <<Entry(1, 1, None, <<"x">>), Entry(2, 2, 1, <<"y">>), Entry(3, 2, 1, <<"y">>)>>,
     <<Entry(1, 1, 2, <<"x">>), Entry(2, 2, 9, <<"y">>)>>}

Roots == {<<>>, <<<<"x">>>>}

SmallLibrary ==
    {[root |-> root, toc |-> toc,
      pages |-> [p \in 1..2 |-> IF p = 1 THEN [body |-> one, footnotes |-> note]
                                ELSE [body |-> two, footnotes |-> <<>>]]] :
        root \in Roots, toc \in Tocs, one \in Bodies, two \in Bodies, note \in Notes}

(* A chunked book stays as it is. *)
Rest == stage = "stored" /\ UNCHANGED vars

RestingSpec == Init /\ [][Next \/ Rest]_vars
=============================================================================
