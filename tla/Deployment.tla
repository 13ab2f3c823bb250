------------------------------ MODULE Deployment ------------------------------
(***************************************************************************)
(* Ingestion into a Qdrant that may still be empty.  Every ingest_book     *)
(* first calls ensure_collection: a look whether the collection exists, a  *)
(* call that creates it and one call for each payload index.  Nothing      *)
(* holds a lock from one call to the next, and nothing looks at the        *)
(* indexes of a collection that exists.                                    *)
(*                                                                         *)
(* Here Ingestion's step Embed is taken once these calls are through.      *)
(***************************************************************************)
EXTENDS Ingestion

VARIABLES
    collection,   \* does the collection exist?
    indexed,      \* how many payload indexes it has
    setup,        \* where each process stands in ensure_collection
    abandoned,    \* history: a creation stopped before its last index
    refused,      \* history: creations refused because the collection exists
    alone,        \* history: no other process had a worker's book so far
    whole         \* history: books whose last ingest was alone and ended well

qdrant == <<collection, indexed>>
setupVars == <<qdrant, setup, abandoned, refused>>
history == <<alone, whole>>
deployVars == <<vars, setupVars, history>>

(* book_id, category_id, content_role *)
FieldCount == 3

DeployInit ==
    /\ Init
    /\ collection = FALSE /\ indexed = 0
    /\ setup = [w \in Workers |-> "look"]
    /\ abandoned = FALSE /\ refused = 0
    /\ alone = [w \in Workers |-> FALSE] /\ whole = {}

Loading(w) == pc[w] = "load" /\ ~ plan[w].dry

(* Mutant: the collection is created without a look. *)
LookNever(w) ==
    /\ Loading(w) /\ setup[w] = "look"
    /\ setup' = [setup EXCEPT ![w] = "create"]
    /\ UNCHANGED <<vars, qdrant, abandoned, refused, history>>

Look(w) ==
    /\ Loading(w) /\ setup[w] = "look"
    /\ setup' = [setup EXCEPT ![w] = IF collection THEN "ready" ELSE "create"]
    /\ UNCHANGED <<vars, qdrant, abandoned, refused, history>>

Create(w) ==
    /\ Loading(w) /\ setup[w] = "create" /\ ~ collection
    /\ collection' = TRUE
    /\ setup' = [setup EXCEPT ![w] = "index"]
    /\ UNCHANGED <<vars, indexed, abandoned, refused, history>>

(* The other process was first: the call raises and the book fails. *)
Refuse(w) ==
    /\ Loading(w) /\ setup[w] = "create" /\ collection
    /\ LeaveBook(w)
    /\ setup' = [setup EXCEPT ![w] = "look"]
    /\ refused' = refused + 1
    /\ UNCHANGED <<runs, qdrant, abandoned, history>>

(* Mutant: the last field is left out. *)
CreateIndexButOne(w) ==
    /\ Loading(w) /\ setup[w] = "index"
    /\ indexed' = indexed + 1
    /\ setup' = [setup EXCEPT ![w] = IF indexed' = FieldCount - 1 THEN "ready" ELSE @]
    /\ UNCHANGED <<vars, collection, abandoned, refused, history>>

CreateIndex(w) ==
    /\ Loading(w) /\ setup[w] = "index"
    /\ indexed' = indexed + 1
    /\ setup' = [setup EXCEPT ![w] = IF indexed' = FieldCount THEN "ready" ELSE @]
    /\ UNCHANGED <<vars, collection, abandoned, refused, history>>

Prepare(w) == Look(w) \/ Create(w) \/ Refuse(w) \/ CreateIndex(w)

(* A failure or a death in the middle of ensure_collection. *)
BreakSetup(w) ==
    /\ setup' = [setup EXCEPT ![w] = "look"]
    /\ abandoned' = (abandoned \/ setup[w] = "index")
    /\ UNCHANGED <<qdrant, refused>>

EmbedReady(w) ==
    /\ setup[w] = "ready" /\ Embed(w)
    /\ setup' = [setup EXCEPT ![w] = "look"]
    /\ UNCHANGED <<qdrant, abandoned, refused, history>>

(* The process takes book b; whoever has b already is no longer alone. *)
Take(w) ==
    /\ TakeBook(w)
    /\ LET b == job'[w].book
           others == {v \in Workers \ {w} : job[v].book = b}
       IN  /\ alone' = [v \in Workers |-> IF v = w THEN others = {}
                                          ELSE alone[v] /\ v \notin others]
           /\ whole' = whole \ {b}
    /\ UNCHANGED setupVars

Complete(w) ==
    /\ FinishBook(w)
    /\ whole' = IF alone[w] THEN whole \union {job[w].book} ELSE whole
    /\ UNCHANGED <<alone, setupVars>>

Proceed(w) ==
    /\ \/ SkipBook(w) \/ FinishRun(w) \/ DryRun(w) \/ BeginTx(w) \/ StartDelete(w)
       \/ DeleteRows(w) \/ InsertRows(w) \/ CommitTx(w) \/ DeletePoints(w)
       \/ UpsertBatch(w) \/ BookConflict(w)
    /\ UNCHANGED <<setupVars, history>>

DeployStep(w) == Prepare(w) \/ EmbedReady(w) \/ Take(w) \/ Complete(w) \/ Proceed(w)

Begin(w) == StartRun(w) /\ UNCHANGED <<setupVars, history>>

Break(w) == (Fail(w) \/ Crash(w)) /\ BreakSetup(w) /\ UNCHANGED history

DeployNext == \E w \in Workers : Begin(w) \/ DeployStep(w) \/ Break(w)

DeploySpec == DeployInit /\ [][DeployNext]_deployVars

(* A running process keeps running; nobody has to start one. *)
FairDeploySpec == DeploySpec /\ \A w \in Workers : WF_deployVars(DeployStep(w))

-------------------------------------------------------------------------------
(* Properties *)

(***************************************************************************)
(* A collection lacks a payload index only while the process that created  *)
(* it is at work on them, or for good because that process stopped there:  *)
(* ensure_collection never repairs a collection it finds.                  *)
(***************************************************************************)
IndexesExplained ==
    collection /\ indexed < FieldCount =>
        abandoned \/ \E w \in Workers : setup[w] = "index"

(***************************************************************************)
(* Processes that start on an empty Qdrant together lose fewer books to    *)
(* the race for the collection than they are, however often they start.    *)
(***************************************************************************)
FewRefused == refused = 0 \/ refused < Cardinality(Workers)

(***************************************************************************)
(* Whatever overlapping ingests, failures and deaths left in the two       *)
(* stores, one ingest of the book without another beside it puts both in   *)
(* order: a row for each chunk and a point for each row.                   *)
(***************************************************************************)
OneIngestRepairs ==
    \A b \in whole : points[b] = chunks[b] /\ Cardinality(chunks[b]) = ChunkCount[b]

=============================================================================
