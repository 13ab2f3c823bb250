------------------------------- MODULE Chunking -------------------------------
(***************************************************************************)
(* chunk_book and the rows made of its result: page by page the boundary   *)
(* ladder, the trail that each heading leaves to the text below it, the    *)
(* packing of each segment (module Packing), footnotes, and in the end the *)
(* sections and section ids of _insert_sections and _insert_chunks.        *)
(*                                                                         *)
(* A text is a sequence of units: words, the breaks after a paragraph or a *)
(* sentence, and title spans, with or without a toc-N id.  A place is a    *)
(* number of units; the offsets of the code are places here.               *)
(***************************************************************************)
EXTENDS Packing, Integers, FiniteSets, FiniteSetsExt, SequencesExt

CONSTANTS
    Library,     \* books: root, toc (in file order), pages by page_id
    MinContent   \* min_content_tokens

ASSUME ContentAssumption == MinContent \in Nat

None == 0        \* no shamela_title_id, no parent_id, no section

(* What the readers of a book's files give: ids are numbers, and none is None. *)
ASSUME LibraryAssumption ==
    \A b \in Library :
        /\ b.toc \in Seq(ToSet(b.toc))
        /\ \A e \in ToSet(b.toc) :
              /\ e.id \in Nat /\ e.page \in Nat /\ e.shamela \in Nat \ {None}
              /\ e.title \in Seq(ToSet(e.title))
        /\ DOMAIN b.pages \subseteq Nat
        /\ \A p \in DOMAIN b.pages : \A units \in {b.pages[p].body, b.pages[p].footnotes} :
              /\ units \in Seq(ToSet(units))
              /\ \A u \in ToSet(units) : u.tokens \in Nat

VARIABLES
    book,      \* the book that is chunked
    unread,    \* its pages that are left
    page,      \* the page that is open
    todo,      \* the segments of the page that are left
    segment,   \* the one that is packed
    stage,     \* what chunk_book does
    trail,     \* the headings above the text
    under,     \* history: the TOC entry that set the trail, if one did
    chunks,    \* BookChunk records
    sections,  \* the section rows
    owners     \* section_id of each chunk row

bookVars == <<book, unread, page, todo, segment, stage, trail, under, chunks,
              sections, owners>>
vars == <<packVars, bookVars>>

-------------------------------------------------------------------------------
(* Order (SortSeq and SelectSeq are not known to the proof system) *)

(* The members of S one after the other, as the relation R orders them. *)
Enumerate(S, R) ==
    [n \in 1..Cardinality(S) |->
        CHOOSE a \in S : Cardinality({b \in S : <<b, a>> \in R}) = n - 1]

Sorted(S) == Enumerate(S, {p \in S \X S : p[1] < p[2]})

(* What a sequence has at some places. *)
Listed(s, places) == [n \in DOMAIN places |-> s[places[n]]]

-------------------------------------------------------------------------------
(* Texts *)

Slice(units, a, b) == SubSeq(units, a + 1, b)

Before(units) ==
    LET f[a \in 0..Len(units)] ==
            IF a = 0 THEN 0 ELSE f[a - 1] + units[a].tokens
    IN f

Starts(units, kind) == {a \in 0..Len(units) - 1 : units[a + 1].kind = kind}

Ends(units, kinds) == {a \in 1..Len(units) : units[a].kind \in kinds}

(* Words of a title, found in the page as they stand. *)
Found(units, title) ==
    {a \in 0..Len(units) - Len(title) :
        \A i \in 1..Len(title) :
            units[a + i].kind = "word" /\ units[a + i].name = title[i]}

Navigational(units) ==
    LET prose == SelectSeq(units, LAMBDA u : u.kind \notin {"span", "title"})
    IN  Before(prose)[Len(prose)] < MinContent

(* Where an atom longer than max_tokens is cut: after the words that fill  *)
(* a target. *)
WordCuts(units, a, b) ==
    LET t == Before(units)
        words == SelectSeq([i \in 1..(b - a) |-> a + i],
                           LAMBDA p : units[p].kind \notin {"para", "sent"})
    IN  FoldLeft(LAMBDA acc, p : IF t[p] - t[Last(acc)] >= SplitTarget
                                 THEN Append(acc, p) ELSE acc,
                 <<a>>, words)

AtomCuts(units) ==
    LET n == Len(units)
        t == Before(units)
        hard == {0, n} \union Starts(units, "span") \union Ends(units, {"para", "sent"})
        next(a) == CHOOSE b \in hard : b > a /\ \A c \in hard : c > a => b <= c
        long == {a \in hard : a < n /\ t[next(a)] - t[a] > MaxTokens}
    IN  SetToSortSeq(hard \union UNION {ToSet(WordCuts(units, a, next(a))) : a \in long},
                     <)

-------------------------------------------------------------------------------
(* The boundary ladder *)

Boundary(at, source, id, title) ==
    [at |-> at, source |-> source, id |-> id, title |-> title]

Inline(units) ==
    {Boundary(a, "inline_toc", units[a + 1].id, units[a + 1].name) :
        a \in Starts(units, "span")}
    \union {Boundary(a, "inline_title", None, <<>>) : a \in Starts(units, "title")}

Least(S) == CHOOSE a \in S : \A b \in S : a <= b

Recovered(units, e) ==
    Boundary(Least(Found(units, e.title)), "recovered_title", e.shamela, e.title)

Fallback(unmatched) ==
    CASE Len(unmatched) = 0 -> <<>>
      [] Len(unmatched) = 1 ->
           <<Boundary(0, "toc_page_fallback", unmatched[1].shamela, unmatched[1].title)>>
      [] OTHER -> <<Boundary(0, "ambiguous_toc_page", None, <<>>)>>

TocLadder(units, toc) ==
    LET hits == {i \in DOMAIN toc :
                    toc[i].title # <<>> /\ Found(units, toc[i].title) # {}}
        matched == Listed(toc, Sorted(hits))
    IN  [i \in DOMAIN matched |-> Recovered(units, matched[i])]
        \o Fallback(Listed(toc, Sorted(DOMAIN toc \ hits)))

(* Only the order of boundaries at one place matters to what follows.      *)
Boundaries(units, toc) ==
    IF Inline(units) # {} THEN SetToSeq(Inline(units))
    ELSE IF toc # <<>> THEN TocLadder(units, toc)
    ELSE LET starts == {0} \union Ends(units, {"para"})
         IN  SetToSeq({Boundary(a, "paragraph_fallback", None, <<>>) : a \in starts})

NoBoundary == Boundary(0, "none", None, <<>>)

(* Boundaries are sorted by offset, in a sort that keeps the order of      *)
(* equal ones, and empty segments are dropped: the last at a place stays.  *)
BoundaryAt(bs, a) ==
    LET here == {i \in DOMAIN bs : bs[i].at = a}
    IN  IF here = {} THEN NoBoundary ELSE bs[Max(here)]

(* Mutant: text before the first boundary has no segment. *)
SegmentsFromFirst(units, bs) ==
    LET starts == Sorted({b.at : b \in ToSet(bs)})
        end(i) == IF i < Len(starts) THEN starts[i + 1] ELSE Len(units)
    IN  [i \in DOMAIN starts |->
            [start |-> starts[i], end |-> end(i), boundary |-> BoundaryAt(bs, starts[i])]]

Segments(units, bs) ==
    LET points == {0} \union {bs[i].at : i \in DOMAIN bs}
        starts == Sorted({a \in points : a < Len(units)})
        end(i) == IF i < Len(starts) THEN starts[i + 1] ELSE Len(units)
    IN  [i \in DOMAIN starts |->
            [start |-> starts[i], end |-> end(i), boundary |-> BoundaryAt(bs, starts[i])]]

-------------------------------------------------------------------------------
(* Sections *)

(* By page, then by title_id, in a sort that keeps the order of equal ones. *)
InOrder(toc) ==
    LET before(e, f) == e.page < f.page \/ (e.page = f.page /\ e.id < f.id)
        earlier == {p \in (DOMAIN toc) \X (DOMAIN toc) :
                      \/ before(toc[p[1]], toc[p[2]])
                      \/ p[1] < p[2] /\ ~ before(toc[p[2]], toc[p[1]])}
    IN  Listed(toc, Enumerate(DOMAIN toc, earlier))

TocIds(toc) == {e.id : e \in ToSet(toc)}

(* context is the trail of the last structural entry, <<>> before any. *)
AddSection(toc, built, e) ==
    LET explicit == e.parent \in TocIds(toc)
        referenced == \E f \in ToSet(toc) : f.parent = e.id
        parent == CHOOSE f \in ToSet(toc) : f.id = e.parent
        above == {s \in ToSet(built.sections) : s.id = e.parent}
        prefix == CASE explicit /\ above # {} -> (CHOOSE s \in above : TRUE).trail
                    [] explicit /\ above = {} -> <<parent.title>>
                    [] ~ explicit /\ e.parent = None /\ ~ referenced -> built.context
                    [] OTHER -> <<>>
        line == Append(prefix, e.title)
    IN  [sections |-> Append(built.sections,
                             [id |-> e.id, shamela |-> e.shamela, trail |-> line]),
         context |-> IF explicit \/ referenced THEN line ELSE built.context]

Built(toc) ==
    LET f[n \in 0..Len(toc)] ==
            IF n = 0 THEN [sections |-> <<>>, context |-> <<>>]
            ELSE AddSection(toc, f[n - 1], InOrder(toc)[n])
    IN  f[Len(toc)]

BuildSections(toc) == Built(toc).sections

(* trail_by_title_id: of sections with the same id the last counts. *)
SectionsFor(id) ==
    {i \in DOMAIN BuildSections(book.toc) : BuildSections(book.toc)[i].shamela = id}

TrailFor(id) == BuildSections(book.toc)[Max(SectionsFor(id))].trail

(* _insert_sections: rows by depth, a trail leads to the last row that has it. *)
Rows(secs) ==
    LET depth(i) == Len(secs[i].trail)
        above == {p \in (DOMAIN secs) \X (DOMAIN secs) :
                    \/ depth(p[1]) < depth(p[2])
                    \/ depth(p[1]) = depth(p[2]) /\ p[1] < p[2]}
    IN  Listed(secs, Enumerate(DOMAIN secs, above))

RowOf(rows, line) ==
    LET those == {i \in DOMAIN rows : rows[i].trail = line}
    IN  IF those = {} THEN None ELSE CHOOSE i \in those : \A j \in those : j <= i

(* _resolve_section_id: the trail, or the trail without the book's title. *)
Resolve(rows, line) ==
    IF RowOf(rows, line) # None THEN RowOf(rows, line)
    ELSE IF line # <<>> /\ book.root # <<>> /\ <<Head(line)>> = book.root
         THEN RowOf(rows, Tail(line))
         ELSE None
-------------------------------------------------------------------------------
(* chunk_book *)

Init ==
    /\ PackInit
    /\ book \in Library
    /\ unread = DOMAIN book.pages
    /\ page = 0 /\ todo = <<>> /\ segment = <<>>
    /\ stage = "pages"
    /\ trail = book.root /\ under = None
    /\ chunks = <<>> /\ sections = <<>> /\ owners = <<>>

Body == book.pages[page].body
Footnotes == book.pages[page].footnotes

TocOn(p) == Listed(book.toc, Sorted({i \in DOMAIN book.toc : book.toc[i].page = p}))

(* Pages are read in the order of their page_id. *)
OpenPage ==
    /\ stage = "pages" /\ unread # {}
    /\ LET p == Least(unread)
           units == book.pages[p].body
       IN  /\ page' = p
           /\ unread' = unread \ {p}
           /\ todo' = Segments(units, Boundaries(units, TocOn(p)))
    /\ stage' = "segments"
    /\ UNCHANGED <<packVars, book, segment, trail, under, chunks, sections, owners>>

(* Mutant: the boundary's title is looked at before the section's trail. *)
HeadedByTitle(b) ==
    IF b.title # <<>>
    THEN /\ trail' = Append(book.root, b.title)
         /\ under' = IF SectionsFor(b.id) # {} THEN b.id ELSE None
    ELSE UNCHANGED <<trail, under>>

(* A heading without prose leaves its trail to what follows it. *)
Headed(b) ==
    \/ /\ SectionsFor(b.id) # {}
       /\ trail' = TrailFor(b.id) /\ under' = b.id
    \/ /\ SectionsFor(b.id) = {} /\ b.title # <<>>
       /\ trail' = Append(book.root, b.title) /\ under' = None
    \/ /\ SectionsFor(b.id) = {} /\ b.title = <<>>
       /\ UNCHANGED <<trail, under>>

(* Mutant: the fragments of the last text stay in the list. *)
LoadTextKeeping(units, short) ==
    /\ text' = Before(units) /\ cuts' = AtomCuts(units) /\ joins' = short
    /\ children' = <<>> /\ first' = 1 /\ taken' = 0 /\ looked' = 0
    /\ phase' = "packing" /\ UNCHANGED pieces

LoadText(units, short) ==
    /\ text' = Before(units) /\ cuts' = AtomCuts(units) /\ joins' = short
    /\ Load

(* Mutant: a heading left out as navigational loses its trail. *)
NextSegmentSkipping ==
    /\ stage = "segments" /\ todo # <<>>
    /\ segment' = Head(todo) /\ todo' = Tail(todo)
    /\ LET units == Slice(Body, segment'.start, segment'.end)
       IN  \/ /\ Navigational(units)
              /\ UNCHANGED <<packVars, stage, trail, under>>
           \/ /\ ~ Navigational(units)
              /\ Headed(segment'.boundary)
              /\ LoadText(units, TRUE) /\ stage' = "body"
    /\ UNCHANGED <<book, unread, page, chunks, sections, owners>>

NextSegment ==
    /\ stage = "segments" /\ todo # <<>>
    /\ segment' = Head(todo) /\ todo' = Tail(todo)
    /\ Headed(segment'.boundary)
    /\ LET units == Slice(Body, segment'.start, segment'.end)
       IN  \/ /\ Navigational(units)
              /\ UNCHANGED <<packVars, stage>>
           \/ /\ ~ Navigational(units)
              /\ LoadText(units, TRUE) /\ stage' = "body"
    /\ UNCHANGED <<book, unread, page, chunks, sections, owners>>

Pack ==
    /\ stage \in {"body", "footnotes"}
    /\ PackStep
    /\ UNCHANGED bookVars

Chunk(role, offset, p) ==
    [page |-> page, role |-> role, start |-> offset + p.start, end |-> offset + p.end,
     tokens |-> Tokens(p.start, p.end), trail |-> trail, under |-> under]

Emit(role, offset) ==
    /\ phase = "done"
    /\ chunks' = chunks \o [i \in DOMAIN pieces |-> Chunk(role, offset, pieces[i])]
    /\ UNCHANGED <<packVars, book, unread, page, todo, segment, trail, under,
                   sections, owners>>

EmitBody == stage = "body" /\ stage' = "segments" /\ Emit("body", segment.start)

(* Footnotes are cut like a section but never joined; they take the trail  *)
(* that the page's last segment left.                                      *)
OpenFootnotes ==
    /\ stage = "segments" /\ todo = <<>>
    /\ Before(Footnotes)[Len(Footnotes)] > 0
    /\ LoadText(Footnotes, FALSE) /\ stage' = "footnotes"
    /\ UNCHANGED <<book, unread, page, todo, segment, trail, under, chunks,
                   sections, owners>>

EmitFootnotes == stage = "footnotes" /\ stage' = "pages" /\ Emit("footnote", 0)

NoFootnotes ==
    /\ stage = "segments" /\ todo = <<>>
    /\ Before(Footnotes)[Len(Footnotes)] = 0
    /\ stage' = "pages"
    /\ UNCHANGED <<packVars, book, unread, page, todo, segment, trail, under, chunks,
                   sections, owners>>

(* The pipeline's transaction: section rows, then chunk rows. *)
Store ==
    /\ stage = "pages" /\ unread = {}
    /\ sections' = Rows(BuildSections(book.toc))
    /\ owners' = [i \in DOMAIN chunks |-> Resolve(sections', chunks[i].trail)]
    /\ stage' = "stored"
    /\ UNCHANGED <<packVars, book, unread, page, todo, segment, trail, under, chunks>>

Next ==
    \/ OpenPage \/ NextSegment \/ Pack \/ EmitBody
    \/ OpenFootnotes \/ EmitFootnotes \/ NoFootnotes \/ Store

Spec == Init /\ [][Next]_vars
=============================================================================
