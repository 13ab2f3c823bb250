---------------------------- MODULE StructuralGate ----------------------------
(***************************************************************************)
(* validate_book: the hard checks of eval/structural.py on what chunk_book *)
(* made of a book, and what should hold of a book that was chunked.  The   *)
(* checks of determinism and of roles say nothing here: the model has one  *)
(* result for a book and two roles.                                        *)
(***************************************************************************)
EXTENDS Chunking

Pages == DOMAIN book.pages

TextOf(p, role) ==
    IF role = "footnote" THEN book.pages[p].footnotes ELSE book.pages[p].body

Of(p, role) == {c \in ToSet(chunks) : c.page = p /\ c.role = role}

LadderOf(p) == Boundaries(book.pages[p].body, TocOn(p))

(* _segment_ranges, written again by the harness. *)
SegmentRanges(p) ==
    LET n == Len(book.pages[p].body)
        points == {0} \union {b.at : b \in ToSet(LadderOf(p))}
    IN  {r \in points \X (points \union {n}) :
            r[1] < r[2] /\ ~ \E c \in points : r[1] < c /\ c < r[2]}

IsContent(p, r) == ~ Navigational(Slice(book.pages[p].body, r[1], r[2]))

CheckVerbatim(p) ==
    \A role \in {"body", "footnote"} : \A c \in Of(p, role) :
        0 <= c.start /\ c.start <= c.end /\ c.end <= Len(TextOf(p, role))

CheckInlineToc(p) ==
    \A a \in Starts(book.pages[p].body, "span") :
        \E b \in ToSet(LadderOf(p)) :
            b.source = "inline_toc" /\ b.at = a /\ b.id = book.pages[p].body[a + 1].id

CheckSectionIntegrity(p) ==
    \A c \in Of(p, "body") : \E r \in SegmentRanges(p) :
        IsContent(p, r) /\ r[1] <= c.start /\ c.end <= r[2]

CheckOverlapWithinSection(p) ==
    \A c, d \in Of(p, "body") :
        c.start <= d.start /\ d.start < c.end => c.trail = d.trail

Ignored(p) == {r \in SegmentRanges(p) : ~ IsContent(p, r)}

Covered(p, role, a) ==
    \/ TextOf(p, role)[a].tokens = 0
    \/ \E c \in Of(p, role) : c.start < a /\ a <= c.end
    \/ role = "body" /\ \E r \in Ignored(p) : r[1] < a /\ a <= r[2]

CheckCoverage(p) ==
    \A role \in {"body", "footnote"} : \A a \in DOMAIN TextOf(p, role) : Covered(p, role, a)

HardFindings ==
    {<<"verbatim", p>> : p \in {q \in Pages : ~ CheckVerbatim(q)}}
    \union {<<"inline_toc", p>> : p \in {q \in Pages : ~ CheckInlineToc(q)}}
    \union {<<"section_integrity", p>> : p \in {q \in Pages : ~ CheckSectionIntegrity(q)}}
    \union {<<"overlap_scope", p>> : p \in {q \in Pages : ~ CheckOverlapWithinSection(q)}}
    \union {<<"coverage", p>> : p \in {q \in Pages : ~ CheckCoverage(q)}}

-------------------------------------------------------------------------------
(* Properties *)

(* The gate has nothing to find: whatever the headings, breaks and sizes   *)
(* of a book, each word of it is in a chunk of its own section or under a  *)
(* heading left out as navigational (structural.py, validate_book).        *)
GatePasses == stage = "stored" => HardFindings = {}

(* A boundary that carries a trail and has text of its page after it. *)
Headings ==
    {h \in UNION {{p} \X ToSet(LadderOf(p)) : p \in Pages} :
        /\ h[2].at < Len(book.pages[h[1]].body)
        /\ SectionsFor(h[2].id) # {} \/ h[2].title # <<>>}

NotAfter(h, c) == h[1] < c.page \/ (h[1] = c.page /\ h[2].at <= c.start)

Alone(h) == \A b \in ToSet(LadderOf(h[1])) : b.at = h[2].at => b = h[2]

HeadingTrail(b) ==
    IF SectionsFor(b.id) # {} THEN TrailFor(b.id)
    ELSE Append(book.root, b.title)

(* A chunk of a page's body has the trail of the nearest heading above it, *)
(* on its page or an earlier one, with or without prose of its own.  Two   *)
(* kinds of heading lose theirs (see the README): one that shares its      *)
(* place with another boundary, and one on a page without text.            *)
HeadingsKept ==
    \A c \in ToSet(chunks) :
        LET above == {h \in Headings : NotAfter(h, c)}
        IN  c.role = "body" =>
              IF above = {} THEN c.trail = book.root
              ELSE \E h \in above :
                     /\ \A g \in above : g[1] < h[1] \/ (g[1] = h[1] /\ g[2].at <= h[2].at)
                     /\ Alone(h) => c.trail = HeadingTrail(h[2])

TrailsDiffer ==
    LET secs == BuildSections(book.toc)
    IN  \A i, j \in DOMAIN secs : i # j => secs[i].trail # secs[j].trail

(* If no two sections of a book have the same trail, each chunk's row is   *)
(* in the section whose heading the chunk stands under.                    *)
ChunksInTheirSection ==
    stage = "stored" /\ TrailsDiffer =>
        \A i \in DOMAIN chunks :
            chunks[i].under # None =>
                owners[i] # None /\ sections[owners[i]].shamela = chunks[i].under

=============================================================================
