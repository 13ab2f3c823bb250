-------------------------- MODULE SearchDuringIngest --------------------------
(***************************************************************************)
(* Requests to the retrieval service while books are ingested.  The two    *)
(* share Postgres and Qdrant and nothing else: no lock, no version, no     *)
(* message.  Every statement and every Qdrant call is one step; the steps  *)
(* of both sides interleave in any way.                                    *)
(***************************************************************************)
EXTENDS Ingestion, Sequences

CONSTANTS
    Layout, Requests, Inquiries, CandidateLimit, RerankInputLimit, RerankTopK,
    UseRoot, Window, MaxTokens

VARIABLES
    rows,    \* what the row of each id drawn so far says
    req      \* the requests

Search == INSTANCE Retrieval

ASSUME CountsAssumption ==
    \A b \in Books : Len(Layout[b]) = ChunkCount[b]

allVars == <<vars, rows, req>>

SearchInit == Init /\ rows = <<>> /\ Search!Init

(* The ids a step of w draws are given to the chunks of its book in order. *)
Drawn(w, i) ==
    [book |-> job[w].book, at |-> i - nextId + 1, edition |-> nextId]

IngestStep(w) ==
    /\ StartRun(w) \/ Step(w) \/ Fail(w) \/ Crash(w)
    /\ rows' = [i \in 1..(nextId' - 1) |->
                  IF i < nextId THEN rows[i] ELSE Drawn(w, i)]
    /\ UNCHANGED req

ingestOnly == <<bookRows, nextId, pc, plan, left, report, job, torn, runs>>

SearchStep(r) == Search!Request(r) /\ UNCHANGED ingestOnly

SearchNext ==
    \/ \E w \in Workers : IngestStep(w)
    \/ \E r \in Requests : SearchStep(r)

SearchSpec == SearchInit /\ [][SearchNext]_allVars

(* A request that was made keeps going; ingestion may come or not. *)
FairSearchSpec ==
    /\ SearchSpec
    /\ \A r \in Requests : WF_allVars(Search!Step(r) /\ UNCHANGED ingestOnly)

-------------------------------------------------------------------------------
(* Properties *)

(***************************************************************************)
(* While no two processes work on the same book, ingestion changes the     *)
(* stores in no other way than Retrieval takes into account: an edition    *)
(* replaces the one before it as a whole and is revealed in order.  What   *)
(* holds of every behaviour of Retrieval holds of requests to the system.  *)
(***************************************************************************)
IndexAsSearched == Search!Spec

(***************************************************************************)
(* Every request is answered, however much is ingested meanwhile.          *)
(***************************************************************************)
AnsweredDuringIngest == Search!Answered

=============================================================================
