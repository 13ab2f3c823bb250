------------------------------ MODULE Retrieval ------------------------------
(***************************************************************************)
(* A question asked of the index: RetrievalService.retrieve_with_outcome   *)
(* with its hydration and expansion, under the two HTTP handlers that call *)
(* it.  POST /retrieve brings a deadline and wants bare passages, POST     *)
(* /ask has none, wants each passage with its neighbours and hands them to *)
(* the generator.                                                          *)
(*                                                                         *)
(* A request searches Qdrant first and then reads Postgres in statements   *)
(* of their own, none of them in a transaction that would hold the rows    *)
(* still.  What ingestion does to the stores meanwhile is the environment:  *)
(* ids are drawn, an edition of a book replaces the one before it as a     *)
(* whole, points are deleted and revealed.  SearchDuringIngest shows that  *)
(* Ingestion is such an environment.                                       *)
(*                                                                         *)
(* Scores and ranks are the business of another module: a search, a fusion *)
(* or a reranking may put any of the passages it has first, so each yields *)
(* some set of at most so many.                                            *)
(***************************************************************************)
EXTENDS Integers, Sequences, FiniteSets, FiniteSetsExt

CONSTANTS
    Books,
    Layout,            \* what chunk_book yields for each book
    Requests,
    Inquiries,         \* what a client may ask
    CandidateLimit,    \* candidate_limit: points per arm
    RerankInputLimit,  \* rerank_input_limit: fused points
    RerankTopK,        \* rerank_top_k of the service's own configuration
    UseRoot,           \* whether the root-expansion arm is configured
    Window,            \* neighbor_window
    MaxTokens          \* max_expanded_tokens

AnyBook == 0
NoSection == 0

ASSUME BooksAssumption == Books \subseteq Nat \ {AnyBook}

(* role is 1 for body and 2 for footnote, as their names sort. *)
PlaceType == [page : Nat \ {0}, offset : Nat, role : 1..2, section : Nat,
              tokens : Nat]

ASSUME LayoutAssumption == Layout \in [Books -> Seq(PlaceType)]

InquiryType == [kind : {"retrieve", "ask"}, book : Books \cup {AnyBook},
                k : Nat \ {0}]

ASSUME InquiriesAssumption == Inquiries \subseteq InquiryType

ASSUME LimitsAssumption ==
    /\ CandidateLimit \in Nat /\ RerankInputLimit \in Nat
    /\ RerankTopK \in Nat /\ Window \in Nat /\ MaxTokens \in Nat \ {0}
    /\ UseRoot \in BOOLEAN

VARIABLES
    chunks,      \* Postgres: ids of the committed chunk rows of each book
    points,      \* Qdrant: ids of the points whose payload names the book
    rows,        \* what the row of an id says; a chunk row is never updated
    req          \* the requests

index == <<chunks, points>>

Steps == {"idle", "translate", "dense", "sparse", "root", "hydrate",
          "sections", "rerank", "expand", "siblings", "ordinal", "answer",
          "done"}

Replies == {"none", "ok", "partial", "cited", "deflected", "400", "500", "502"}

Idle ==
    [step |-> "idle", inquiry |-> [kind |-> "ask", book |-> AnyBook, k |-> 1],
     late |-> FALSE, arms |-> {}, found |-> {}, candidates |-> {},
     real |-> {}, titled |-> {}, todo |-> {}, hit |-> 0, parts |-> {},
     passages |-> {}, degraded |-> {}, reranked |-> FALSE, cause |-> "none",
     reply |-> "none"]

vars == <<index, rows, req>>

Init ==
    /\ chunks = [b \in Books |-> {}]
    /\ points = [b \in Books |-> {}]
    /\ rows = <<>>
    /\ req = [r \in Requests |-> Idle]

-------------------------------------------------------------------------------
(* The environment *)

(* A transaction draws ids for a new edition of b, numbered by its first.  *)
Draw(b) ==
    /\ LET n == Cardinality(DOMAIN rows)
       IN  rows' = [i \in 1..(n + Len(Layout[b])) |->
                      IF i <= n THEN rows[i]
                      ELSE [book |-> b, at |-> i - n, edition |-> n + 1]]
    /\ UNCHANGED <<index, req>>

Newest(b) ==
    {i \in DOMAIN rows :
        /\ rows[i].book = b
        /\ \A j \in DOMAIN rows :
             rows[j].book = b => rows[j].edition <= rows[i].edition}

(* It commits: the rows of the edition before it are gone. *)
Publish(b) ==
    /\ chunks' = [chunks EXCEPT ![b] = Newest(b)]
    /\ UNCHANGED <<points, rows, req>>

DeletePoints(b) ==
    /\ points' = [points EXCEPT ![b] = {}]
    /\ UNCHANGED <<chunks, rows, req>>

(* Points are upserted in the order of their ids. *)
RevealPoints(b) ==
    /\ \E i \in chunks[b] :
         points' = [points EXCEPT ![b] = @ \cup {j \in chunks[b] : j <= i}]
    /\ UNCHANGED <<chunks, rows, req>>

Reindex(b) == Draw(b) \/ Publish(b) \/ DeletePoints(b) \/ RevealPoints(b)

-------------------------------------------------------------------------------
(* The rows *)

Committed == UNION {chunks[b] : b \in Books}

Place(i) == Layout[rows[i].book][rows[i].at]

Lexically(s, t) ==
    \E n \in DOMAIN s : s[n] < t[n] /\ \A m \in 1..(n - 1) : s[m] = t[m]

(* ORDER BY of _section_siblings and of _chunks_on_page. *)
SiblingBefore(i, j) ==
    Lexically(<<Place(i).page, Place(i).offset, i>>,
              <<Place(j).page, Place(j).offset, j>>)

PageBefore(i, j) ==
    Lexically(<<Place(i).offset, Place(i).role, i>>,
              <<Place(j).offset, Place(j).role, j>>)

(* A section row belongs to one edition of a book. *)
Siblings(i) ==
    {j \in Committed : /\ rows[j].edition = rows[i].edition
                       /\ rows[j].book = rows[i].book
                       /\ Place(j).section = Place(i).section
                       /\ Place(j).role = Place(i).role}

PageMates(i) ==
    {j \in Committed : /\ rows[j].book = rows[i].book
                       /\ Place(j).page = Place(i).page}

-------------------------------------------------------------------------------
(* How a request ends badly *)

(* Both handlers answer a ValueError with 400; /retrieve turns any other   *)
(* exception into a retryable error, /ask lets it through.                 *)
Raise(r, i, cause) ==
    req' = [req EXCEPT ![r] =
             [req[r] EXCEPT !.step = "done", !.cause = cause, !.hit = i,
                            !.todo = {},
                            !.reply = IF cause = "value" THEN "400"
                                      ELSE IF req[r].inquiry.kind = "ask" THEN "500"
                                      ELSE "502"]]

Working(r) == req[r].step \notin {"idle", "done"}

(* The translator, a model, Qdrant or Postgres does not answer. *)
Fail(r) ==
    /\ Working(r)
    /\ req[r].step = "answer" => req[r].inquiry.kind = "ask"
    /\ Raise(r, req[r].hit, "other")
    /\ UNCHANGED <<index, rows>>

(* A ValueError: the question is blank, a remote model answers with what   *)
(* cannot be read, the reranker with too few scores, or a passage to be    *)
(* cited has no stable id.  Module Answering tells them apart.             *)
Reject(r) ==
    /\ \/ req[r].step \in {"translate", "dense", "rerank"}
       \/ req[r].step = "answer" /\ req[r].inquiry.kind = "ask"
    /\ Raise(r, req[r].hit, "value")
    /\ UNCHANGED <<index, rows>>

(* Deadline: it may pass at any moment, and stays passed. *)
Expire(r) ==
    /\ Working(r)
    /\ req[r].inquiry.kind = "retrieve"
    /\ ~req[r].late
    /\ req' = [req EXCEPT ![r].late = TRUE]
    /\ UNCHANGED <<index, rows>>

-------------------------------------------------------------------------------
(* The stages *)

Ask(r) ==
    /\ req[r].step = "idle"
    /\ \E q \in Inquiries :
         req' = [req EXCEPT ![r] = [req[r] EXCEPT !.step = "translate",
                                                  !.inquiry = q]]
    /\ UNCHANGED <<index, rows>>

Translate(r) ==
    /\ req[r].step = "translate"
    /\ req' = [req EXCEPT ![r].step = "dense"]
    /\ UNCHANGED <<index, rows>>

AtMost(n, S) == IF n <= Cardinality(S) THEN n ELSE Cardinality(S)

(* The points a filter lets through: by payload, not by row. *)
Eligible(r) ==
    IF req[r].inquiry.book = AnyBook THEN UNION {points[b] : b \in Books}
                                     ELSE points[req[r].inquiry.book]

(* Nearest neighbours: any point is near to some degree. *)
SearchDense(r) ==
    /\ req[r].step = "dense"
    /\ \E S \in kSubset(AtMost(CandidateLimit, Eligible(r)), Eligible(r)) :
         req' = [req EXCEPT ![r] = [req[r] EXCEPT !.step = "sparse", !.found = S,
                                                  !.arms = {"dense"}]]
    /\ UNCHANGED <<index, rows>>

AfterSparse(r) ==
    IF UseRoot /\ req[r].inquiry.kind = "ask" THEN "root" ELSE "hydrate"

(* Points that share a term with the question: perhaps none. *)
Matches(r) ==
    {S \in SUBSET Eligible(r) : Cardinality(S) <= CandidateLimit}

(* Mutant of SearchSparse: the filter is left out of the second query. *)
SearchSparseUnfiltered(r) ==
    /\ req[r].step = "sparse"
    /\ ~req[r].late
    /\ \E S \in SUBSET UNION {points[b] : b \in Books} :
         /\ Cardinality(S) <= CandidateLimit
         /\ req' = [req EXCEPT ![r] = [req[r] EXCEPT !.step = AfterSparse(r),
                                                     !.found = @ \cup S,
                                                     !.arms = @ \cup {"bm25"}]]
    /\ UNCHANGED <<index, rows>>

SearchSparse(r) ==
    /\ req[r].step = "sparse"
    /\ ~req[r].late
    /\ \E S \in Matches(r) :
         req' = [req EXCEPT ![r] = [req[r] EXCEPT !.step = AfterSparse(r),
                                                  !.found = @ \cup S,
                                                  !.arms = @ \cup {"bm25"}]]
    /\ UNCHANGED <<index, rows>>

SkipSparse(r) ==
    /\ req[r].step = "sparse"
    /\ req[r].late
    /\ req' = [req EXCEPT ![r] = [req[r] EXCEPT
            !.step = "hydrate", !.degraded = @ \cup {"sparse_skipped"}]]
    /\ UNCHANGED <<index, rows>>

SearchRoot(r) ==
    /\ req[r].step = "root"
    /\ \E S \in Matches(r) :
         req' = [req EXCEPT ![r] = [req[r] EXCEPT !.step = "hydrate",
                                                  !.found = @ \cup S,
                                                  !.arms = @ \cup {"root"}]]
    /\ UNCHANGED <<index, rows>>

(* The fusion of the arms, cut to what the reranker may see. *)
Fusions(r) == kSubset(AtMost(RerankInputLimit, req[r].found), req[r].found)

AfterHydrate(kept) == IF kept = {} THEN "expand" ELSE "sections"

(* Mutant of Hydrate: a point whose row is gone stays a candidate. *)
HydrateUnchecked(r) ==
    /\ req[r].step = "hydrate"
    /\ \E F \in Fusions(r) :
         req' = [req EXCEPT ![r] = [req[r] EXCEPT !.step = AfterHydrate(F),
                                                  !.candidates = F,
                                                  !.real = F \cap Committed]]
    /\ UNCHANGED <<index, rows>>

(* _hydrate, first statement: points without a row are left out. *)
Hydrate(r) ==
    /\ req[r].step = "hydrate"
    /\ \E F \in Fusions(r) :
         LET kept == F \cap Committed
         IN  req' = [req EXCEPT ![r] = [req[r] EXCEPT !.step = AfterHydrate(kept),
                                                      !.candidates = kept,
                                                      !.real = kept]]
    /\ UNCHANGED <<index, rows>>

HasSection(i) == Place(i).section # NoSection

(* Mutant of HydrateSections: the second statement is spared when late. *)
HydrateSectionsUnlessLate(r) ==
    /\ req[r].step = "sections"
    /\ req' = [req EXCEPT ![r] = [req[r] EXCEPT
            !.step = "rerank",
            !.titled = IF req[r].late THEN {}
                       ELSE {i \in req[r].candidates :
                               HasSection(i) /\ i \in Committed}]]
    /\ UNCHANGED <<index, rows>>

(* _hydrate, second statement, in a session of its own: section rows go    *)
(* with their edition, and a missing one just leaves the trail empty.      *)
HydrateSections(r) ==
    /\ req[r].step = "sections"
    /\ req' = [req EXCEPT ![r] = [req[r] EXCEPT
            !.step = "rerank",
            !.titled = {i \in req[r].candidates :
                          HasSection(i) /\ i \in Committed}]]
    /\ UNCHANGED <<index, rows>>

(* How many hits are left to expand after reranking, boosting and k. *)
Kept(r) ==
    LET top == IF req[r].inquiry.kind = "ask" THEN RerankTopK
                                              ELSE req[r].inquiry.k
        asked == IF req[r].inquiry.k <= top THEN req[r].inquiry.k ELSE top
    IN  AtMost(asked, req[r].candidates)

(* Mutant of Rerank: the deadline is not looked at a second time. *)
RerankRegardless(r) ==
    /\ req[r].step = "rerank"
    /\ \E H \in kSubset(Kept(r), req[r].candidates) :
         req' = [req EXCEPT ![r] = [req[r] EXCEPT !.step = "expand", !.todo = H,
                                                  !.reranked = TRUE]]
    /\ UNCHANGED <<index, rows>>

Rerank(r) ==
    /\ req[r].step = "rerank"
    /\ ~req[r].late
    /\ \E H \in kSubset(Kept(r), req[r].candidates) :
         req' = [req EXCEPT ![r] = [req[r] EXCEPT !.step = "expand", !.todo = H,
                                                  !.reranked = TRUE]]
    /\ UNCHANGED <<index, rows>>

SkipRerank(r) ==
    /\ req[r].step = "rerank"
    /\ req[r].late
    /\ \E H \in kSubset(Kept(r), req[r].candidates) :
         req' = [req EXCEPT ![r] = [req[r] EXCEPT
              !.step = "expand", !.todo = H,
              !.degraded = @ \cup {"rerank_skipped"}]]
    /\ UNCHANGED <<index, rows>>

-------------------------------------------------------------------------------
(* ContextExpander.expand: one hit after the other *)

(* NEIGHBORS for /ask, NONE for /retrieve; nothing without a section. *)
AfterLoad(r, i) ==
    IF req[r].inquiry.kind = "ask" /\ HasSection(i) THEN "siblings"
                                                    ELSE "ordinal"

Load(r, i) ==
    req' = [req EXCEPT ![r] = [req[r] EXCEPT
        !.step = AfterLoad(r, i), !.hit = i, !.todo = @ \ {i},
        !.parts = {i}]]

(* Mutant of LoadHit: a hit whose row is gone is tried again. *)
LoadHitAgain(r) ==
    /\ req[r].step = "expand"
    /\ \E i \in req[r].todo :
         IF i \in Committed THEN Load(r, i) ELSE UNCHANGED req
    /\ UNCHANGED <<index, rows>>

(* session.get(Chunk): ChunkNotFoundError if the row is gone. *)
LoadHit(r) ==
    /\ req[r].step = "expand"
    /\ \E i \in req[r].todo :
         IF i \in Committed THEN Load(r, i) ELSE Raise(r, i, "lookup")
    /\ UNCHANGED <<index, rows>>

Rank(i, S) == Cardinality({j \in S : SiblingBefore(j, i)})

Neighbours(i, S) ==
    {j \in S : /\ Rank(j, S) <= Rank(i, S) + Window
               /\ Rank(i, S) <= Rank(j, S) + Window}

Tokens(T) == SumFunction([j \in T |-> Place(j).tokens])

FirstOf(T) == CHOOSE j \in T : \A k \in T : ~SiblingBefore(k, j)
LastOf(T) == CHOOSE j \in T : \A k \in T : ~SiblingBefore(j, k)

(* Mutant of FarEnd: the selection is cut at its end wherever the hit is. *)
FarEndIsLast(i, T, S) == LastOf(T)

(* The end of the selection that lies farther from the hit. *)
FarEnd(i, T, S) ==
    LET left == FirstOf(T)
        right == LastOf(T)
    IN  IF /\ right # i
           /\ \/ left = i
              \/ Rank(right, S) - Rank(i, S) >= Rank(i, S) - Rank(left, S)
        THEN right ELSE left

(* _apply_token_cap: ends are dropped until the selection fits. *)
TokenCap(i, T, S) ==
    LET cap[U \in SUBSET T] ==
            IF Cardinality(U) <= 1 \/ Tokens(U) <= MaxTokens
            THEN U ELSE cap[U \ {FarEnd(i, U, S)}]
    IN  cap[T]

(* _section_siblings is empty once the section's edition is replaced; a    *)
(* hit that is missing from siblings there are is a ChunkNotFoundError.    *)
ReadSiblings(r) ==
    /\ req[r].step = "siblings"
    /\ LET i == req[r].hit
           S == Siblings(i)
       IN  IF S # {} /\ i \notin S THEN Raise(r, i, "lookup")
           ELSE req' = [req EXCEPT ![r] = [req[r] EXCEPT
                     !.step = "ordinal",
                     !.parts = IF S = {} THEN {i}
                               ELSE TokenCap(i, Neighbours(i, S), S)]]
    /\ UNCHANGED <<index, rows>>

(* stable_chunk_id: book, page and place among the chunks on that page. *)
Ordinal(i, S) == Cardinality({j \in S : PageBefore(j, i)}) + 1

Passage(r, S) ==
    LET i == req[r].hit
    IN  [id |-> i, stable |-> <<rows[i].book, Place(i).page, Ordinal(i, S)>>,
         trail |-> HasSection(i) => i \in req[r].titled,
         parts |-> req[r].parts]

(* Mutant of ReadOrdinal: a chunk that is not on its page is counted last. *)
ReadOrdinalOrLast(r) ==
    /\ req[r].step = "ordinal"
    /\ LET mates == PageMates(req[r].hit)
           last == Cardinality(mates \cup {req[r].hit})
           passage == IF req[r].hit \in mates THEN Passage(r, mates)
                      ELSE [Passage(r, mates) EXCEPT !.stable[3] = last]
       IN  req' = [req EXCEPT ![r] = [req[r] EXCEPT
                !.step = "expand",
                !.passages = @ \cup {passage}]]
    /\ UNCHANGED <<index, rows>>

(* page_ordinal: LookupError if the chunk has left its page meanwhile. *)
ReadOrdinal(r) ==
    /\ req[r].step = "ordinal"
    /\ LET mates == PageMates(req[r].hit)
       IN  IF req[r].hit \in mates
           THEN req' = [req EXCEPT ![r] = [req[r] EXCEPT
                     !.step = "expand",
                     !.passages = @ \cup {Passage(r, mates)}]]
           ELSE Raise(r, req[r].hit, "lookup")
    /\ UNCHANGED <<index, rows>>

-------------------------------------------------------------------------------
(* The end of a request *)

(* _outcome: the deadline is looked at once more. *)
Conclude(r) ==
    /\ req[r].step = "expand"
    /\ req[r].todo = {}
    /\ req' = [req EXCEPT ![r] = [req[r] EXCEPT
            !.step = "answer",
            !.degraded = IF req[r].late THEN @ \cup {"deadline_hit"}
                                        ELSE @]]
    /\ UNCHANGED <<index, rows>>

(* The handlers: SearchMeta.status, or what AnswerAssembler makes of it. *)
Respond(r) ==
    /\ req[r].step = "answer"
    /\ req' = [req EXCEPT ![r] = [req[r] EXCEPT
            !.step = "done",
            !.reply =
              IF req[r].inquiry.kind = "ask"
              THEN IF req[r].passages = {} THEN "deflected" ELSE "cited"
              ELSE IF req[r].degraded = {} THEN "ok" ELSE "partial"]]
    /\ UNCHANGED <<index, rows>>

(* What a request does by itself once it has been made. *)
Step(r) ==
    \/ Translate(r)       \/ SearchDense(r) \/ SearchSparse(r) \/ SkipSparse(r)
    \/ SearchRoot(r)      \/ Hydrate(r)     \/ HydrateSections(r)
    \/ Rerank(r)          \/ SkipRerank(r)  \/ LoadHit(r)      \/ ReadSiblings(r)
    \/ ReadOrdinal(r)     \/ Conclude(r)    \/ Respond(r)

Request(r) == Ask(r) \/ Step(r) \/ Reject(r) \/ Fail(r) \/ Expire(r)

Next == (\E r \in Requests : Request(r)) \/ (\E b \in Books : Reindex(b))

Spec == Init /\ [][Next]_vars

(* A request that was made keeps going; the index may change or not. *)
FairSpec == Spec /\ \A r \in Requests : WF_vars(Step(r))

-------------------------------------------------------------------------------
(* Properties *)

(***************************************************************************)
(* "Stable citation ids (survive re-ingest)", stable_ids.py:1: the id a    *)
(* passage is cited by is the one it has in the book at rest, although the *)
(* row and its page are read by two statements with commits in between.    *)
(***************************************************************************)
StableId(b, n) ==
    LET place == Layout[b][n]
        before == {m \in DOMAIN Layout[b] :
                     /\ Layout[b][m].page = place.page
                     /\ Lexically(<<Layout[b][m].offset, Layout[b][m].role, m>>,
                                  <<place.offset, place.role, n>>)}
    IN  <<b, place.page, Cardinality(before) + 1>>

StableIdsHold ==
    \A r \in Requests : \A p \in req[r].passages :
        p.stable = StableId(rows[p.id].book, rows[p.id].at)

(***************************************************************************)
(* Asked about one book, a request answers from that book: the filter acts *)
(* on payloads, what is cited comes from rows.                             *)
(***************************************************************************)
FilterHonoured ==
    \A r \in Requests : \A p \in req[r].passages :
        req[r].inquiry.book # AnyBook => rows[p.id].book = req[r].inquiry.book

(***************************************************************************)
(* A passage is one unbroken run of one section in one edition and has the *)
(* hit in it; it is over the cap only if it is the hit alone.              *)
(***************************************************************************)
PassagesWhole ==
    \A r \in Requests : \A p \in req[r].passages :
        /\ p.id \in p.parts
        /\ Tokens(p.parts) <= MaxTokens \/ p.parts = {p.id}
        /\ \A i \in p.parts :
             /\ rows[i].edition = rows[p.id].edition
             /\ Place(i).section = Place(p.id).section
             /\ Place(i).role = Place(p.id).role
        /\ \A j \in Siblings(p.id) :
             (\E i, k \in p.parts : SiblingBefore(i, j) /\ SiblingBefore(j, k))
                => j \in p.parts

(***************************************************************************)
(* A passage that is returned carries its section's trail: if a re-ingest  *)
(* took the section between the two statements of _hydrate, the row of the *)
(* hit is found missing afterwards.                                        *)
(***************************************************************************)
TrailsComplete ==
    \A r \in Requests : \A p \in req[r].passages : p.trail

(***************************************************************************)
(* A request fails for a missing row only if a re-ingest took the row away *)
(* while the request was in progress; stale and torn points alone never    *)
(* fail one.                                                               *)
(***************************************************************************)
LookupFailsExplained ==
    \A r \in Requests : req[r].cause = "lookup" =>
        req[r].hit \in req[r].real /\ req[r].hit \notin Committed

(***************************************************************************)
(* The report is true: it names what was skipped and nothing else, says    *)
(* that the deadline was hit if anything was, never has a reranking after  *)
(* a skipped search, and is "ok" only if all was done.                     *)
(***************************************************************************)
ReportTrue ==
    \A r \in Requests : req[r].reply \in {"ok", "partial", "cited", "deflected"} =>
        /\ "sparse_skipped" \in req[r].degraded <=> req[r].arms = {"dense"}
        /\ req[r].candidates # {} =>
             (req[r].reranked <=> "rerank_skipped" \notin req[r].degraded)
        /\ req[r].degraded # {} => "deadline_hit" \in req[r].degraded
        /\ req[r].arms = {"dense"} => ~req[r].reranked
        /\ req[r].inquiry.kind = "ask" => req[r].degraded = {}

(***************************************************************************)
(* Every request is answered, whatever becomes of the rows it has found.   *)
(***************************************************************************)
Answered == \A r \in Requests : Working(r) ~> req[r].reply # "none"

=============================================================================
