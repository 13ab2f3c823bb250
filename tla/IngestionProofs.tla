--------------------------- MODULE IngestionProofs ---------------------------
(***************************************************************************)
(* Theorems about Ingestion, for every corpus, batch size, set of          *)
(* processes and set of invocations.                                       *)
(***************************************************************************)
EXTENDS Ingestion, TLAPS

(* A job stays one when a field is given a value of the field's type. *)
LEMMA JobUpdate ==
    ASSUME NEW j \in JobType, NEW k \in BOOLEAN, NEW D \in SUBSET Nat,
           NEW n \in Nat
    PROVE  /\ [j EXCEPT !.known = k] \in JobType
           /\ [j EXCEPT !.doomed = D] \in JobType
           /\ [j EXCEPT !.first = n] \in JobType
           /\ [j EXCEPT !.sent = n] \in JobType
  BY DEF JobType

(* Every variable keeps its type: what the steps write where, for every     *)
(* corpus and every number of processes.                                    *)
THEOREM TypeCorrect == Spec => []TypeOK
<1> USE BooksAssumption, ChunkCountAssumption, BatchSizeAssumption,
        PlansAssumption
<1>1. Init => TypeOK
  BY DEF Init, TypeOK, Steps, Statuses, PlanType, NoPlan, JobType, NoJob, NoBook
<1>2. TypeOK /\ [Next]_vars => TypeOK'
  <2> SUFFICES ASSUME TypeOK, [Next]_vars PROVE TypeOK'
    OBVIOUS
  <2>0. CASE UNCHANGED vars
    BY <2>0 DEF vars, TypeOK
  <2> SUFFICES ASSUME NEW w \in Workers,
                      StartRun(w) \/ Step(w) \/ Fail(w) \/ Crash(w)
               PROVE TypeOK'
    BY <2>0 DEF Next
  <2> USE DEF TypeOK, Steps, stores
  <2>1. CASE StartRun(w)
    BY <2>1 DEF StartRun, PlanType
  <2>2. CASE SkipBook(w)
    BY <2>2 DEF SkipBook, Statuses
  <2>3. CASE TakeBook(w)
    <3>1. PICK b \in left[w] : job' = [job EXCEPT ![w] = [NoJob EXCEPT !.book = b]]
                               /\ left' = [left EXCEPT ![w] = @ \ {b}]
      BY <2>3 DEF TakeBook
    <3>2. b \in Books
      OBVIOUS
    <3>3. [NoJob EXCEPT !.book = b] \in JobType
      BY <3>2 DEF NoJob, JobType
    <3>4. job' \in [Workers -> JobType] /\ job'[w].book = b
      BY <3>1, <3>3 DEF NoJob
    <3>5. \A v \in Workers : v # w => job'[v] = job[v] /\ pc'[v] = pc[v]
      BY <2>3, <3>1 DEF TakeBook
    <3>6. QED
      BY <2>3, <3>1, <3>2, <3>4, <3>5 DEF TakeBook
  <2>4. CASE FinishRun(w)
    BY <2>4 DEF FinishRun
  <2>5. CASE DryRun(w)
    <3>1. NoJob \in JobType
      BY DEF NoJob, JobType
    <3>2. job[w].book \in Books
      BY <2>5 DEF DryRun
    <3>3. report' \in [Workers -> SUBSET (Books \X Statuses)]
      BY <2>5, <3>2 DEF DryRun, BookDone, Statuses
    <3>4. QED
      BY <2>5, <3>1, <3>3 DEF DryRun, BookDone
  <2>6. CASE Embed(w)
    BY <2>6 DEF Embed
  <2>7. CASE BeginTx(w)
    <3>0. (job[w].book \in bookRows) \in BOOLEAN
      BY <2>7 DEF BeginTx
    <3>1. job' \in [Workers -> JobType]
      BY <2>7, <3>0, JobUpdate DEF BeginTx
    <3>2. \A v \in Workers : job'[v].book = job[v].book
      BY <2>7 DEF BeginTx, JobType
    <3>3. QED
      BY <2>7, <3>1, <3>2 DEF BeginTx
  <2>8. CASE StartDelete(w)
    <3>0. chunks[job[w].book] \in SUBSET Nat
      BY <2>8 DEF StartDelete
    <3>1. job' \in [Workers -> JobType]
      BY <2>8, <3>0, JobUpdate DEF StartDelete
    <3>2. \A v \in Workers : job'[v].book = job[v].book
      BY <2>8 DEF StartDelete, JobType
    <3>3. QED
      BY <2>8, <3>1, <3>2 DEF StartDelete
  <2>9. CASE DeleteRows(w)
    <3>1. job' \in [Workers -> JobType]
      BY <2>9 DEF DeleteRows, JobType
    <3>2. \A v \in Workers : job'[v].book = job[v].book
      BY <2>9 DEF DeleteRows, JobType
    <3>3. QED
      BY <2>9, <3>1, <3>2 DEF DeleteRows
  <2>10. CASE InsertRows(w)
    <3>0. nextId \in Nat
      BY <2>10 DEF InsertRows
    <3>1. job' \in [Workers -> JobType]
      BY <2>10, <3>0, JobUpdate DEF InsertRows
    <3>2. \A v \in Workers : job'[v].book = job[v].book
      BY <2>10 DEF InsertRows, JobType
    <3>3. QED
      BY <2>10, <3>1, <3>2 DEF InsertRows
  <2>11. CASE CommitTx(w)
    <3>1. job' \in [Workers -> JobType]
      BY <2>11 DEF CommitTx, JobType
    <3>2. \A v \in Workers : job'[v].book = job[v].book
      BY <2>11 DEF CommitTx, JobType
    <3>3. job[w].book \in Books /\ job[w].first \in Nat
      BY <2>11 DEF CommitTx, JobType
    <3>4. Ids(w) \subseteq Nat
      BY <3>3 DEF Ids
    <3>5. chunks' \in [Books -> SUBSET Nat]
      BY <2>11, <3>3, <3>4 DEF CommitTx
    <3>6. QED
      BY <2>11, <3>1, <3>2, <3>3, <3>5 DEF CommitTx
  <2>12. CASE DeletePoints(w)
    BY <2>12 DEF DeletePoints
  <2>13. CASE UpsertBatch(w)
    <3>1. job[w].book \in Books /\ job[w].first \in Nat /\ job[w].sent \in Nat
      BY <2>13 DEF UpsertBatch, JobType
    <3>2. BatchEnd(w) \in Nat
      BY <3>1, ChunkCount[job[w].book] \in Nat DEF BatchEnd
    <3>3. (job[w].first + job[w].sent) .. (job[w].first + BatchEnd(w) - 1)
            \subseteq Nat
      BY <3>1, <3>2
    <3>4. points' \in [Books -> SUBSET Nat]
      BY <2>13, <3>1, <3>3 DEF UpsertBatch
    <3>5. job' \in [Workers -> JobType]
      BY <2>13, <3>2 DEF UpsertBatch, JobType
    <3>6. \A v \in Workers : job'[v].book = job[v].book
      BY <2>13 DEF UpsertBatch, JobType
    <3>7. QED
      BY <2>13, <3>4, <3>5, <3>6 DEF UpsertBatch
  <2>14. CASE FinishBook(w)
    <3>1. NoJob \in JobType
      BY DEF NoJob, JobType
    <3>2. job[w].book \in Books
      BY <2>14 DEF FinishBook
    <3>3. report' \in [Workers -> SUBSET (Books \X Statuses)]
      BY <2>14, <3>2 DEF FinishBook, BookDone, Statuses
    <3>4. QED
      BY <2>14, <3>1, <3>3 DEF FinishBook, BookDone
  <2>15. CASE LeaveBook(w) /\ pc[w] \notin {"idle", "next"}
    <3>1. NoJob \in JobType
      BY DEF NoJob, JobType
    <3>2. job[w].book \in Books
      BY <2>15
    <3>3. torn' \in SUBSET Books
      BY <2>15, <3>2 DEF LeaveBook, Tear
    <3>4. report' \in [Workers -> SUBSET (Books \X Statuses)]
      BY <2>15, <3>2 DEF LeaveBook, BookDone, Statuses
    <3>5. QED
      BY <2>15, <3>1, <3>3, <3>4 DEF LeaveBook, BookDone
  <2>16. CASE Crash(w)
    <3>1. NoJob \in JobType
      BY DEF NoJob, JobType
    <3>2. torn' \in SUBSET Books
      BY <2>16 DEF Crash, Tear
    <3>3. QED
      BY <2>16, <3>1, <3>2 DEF Crash
  <2>17. QED
    BY <2>1, <2>2, <2>3, <2>4, <2>5, <2>6, <2>7, <2>8, <2>9, <2>10, <2>11,
       <2>12, <2>13, <2>14, <2>15, <2>16 DEF Step, Fail
<1>3. QED
  BY <1>1, <1>2, PTL DEF Spec

-------------------------------------------------------------------------------
(***************************************************************************)
(* Ownership of ids.  IdsHaveOneOwner and CommittedBeforePublished are not *)
(* inductive: they rest on where the ids still to be stored come from.     *)
(***************************************************************************)

(* The processes that have been given ids and may still store them. *)
Allocated(w) == pc[w] \in {"commit", "qdelete", "upsert"}

Stored(b) == chunks[b] \cup points[b]

Size(w) == ChunkCount[job[w].book]

(* Ids in use are below the sequence. *)
BelowSequence ==
    /\ \A b \in Books : \A i \in Stored(b) : i < nextId
    /\ \A w \in Workers : Allocated(w) => job[w].first + Size(w) <= nextId

(* A process's ids are its own, and stored for its own book only. *)
OwnIds ==
    /\ \A v, w \in Workers :
         v # w /\ Allocated(v) /\ Allocated(w) => Ids(v) \cap Ids(w) = {}
    /\ \A w \in Workers : Allocated(w) =>
         \A b \in Books : b # job[w].book => Ids(w) \cap Stored(b) = {}

IdInv ==
    /\ TypeOK
    /\ BelowSequence
    /\ OwnIds
    /\ IdsHaveOneOwner
    /\ CommittedBeforePublished

(* A step that stores nothing, draws no id and gives no process new ids. *)
Quiet ==
    /\ UNCHANGED <<chunks, points, nextId>>
    /\ \A v \in Workers : Allocated(v)' =>
         /\ pc'[v] = pc[v]
         /\ job'[v].book = job[v].book
         /\ job'[v].first = job[v].first

LEMMA QuietKeepsIdInv == IdInv /\ TypeOK' /\ Quiet => IdInv'
<1> SUFFICES ASSUME IdInv, TypeOK', Quiet PROVE IdInv'
  OBVIOUS
<1>1. \A v \in Workers : Allocated(v)' =>
        Allocated(v) /\ Ids(v)' = Ids(v) /\ Size(v)' = Size(v)
  BY DEF Quiet, Allocated, Ids, Size
<1>2. \A b \in Books : Stored(b)' = Stored(b)
  BY DEF Quiet, Stored
<1>3. BelowSequence'
  BY <1>1, <1>2 DEF IdInv, BelowSequence, Quiet
<1>4. OwnIds'
  BY <1>1, <1>2 DEF IdInv, OwnIds, Quiet
<1>5. IdsHaveOneOwner'
  BY <1>2 DEF IdInv, IdsHaveOneOwner, Quiet
<1>6. CommittedBeforePublished'
  BY <1>1 DEF IdInv, CommittedBeforePublished, Quiet, Allocated
<1>7. QED
  BY <1>3, <1>4, <1>5, <1>6 DEF IdInv

LEMMA InsertRowsKeepsIdInv ==
    ASSUME IdInv, TypeOK', NEW w \in Workers, InsertRows(w)
    PROVE  IdInv'
<1> USE ChunkCountAssumption, BooksAssumption
<1> DEFINE n == ChunkCount[job[w].book]
<1>1. /\ job[w].book \in Books /\ n \in Nat /\ nextId \in Nat
      /\ job'[w].book = job[w].book /\ job'[w].first = nextId
      /\ nextId' = nextId + n /\ pc'[w] = "commit"
      /\ UNCHANGED <<chunks, points>>
  BY DEF InsertRows, IdInv, TypeOK, JobType, Steps
<1>2. \A v \in Workers : v # w => pc'[v] = pc[v] /\ job'[v] = job[v]
  BY DEF InsertRows, IdInv, TypeOK
<1>3. \A v \in Workers : v # w /\ Allocated(v)' =>
        /\ Allocated(v) /\ Ids(v)' = Ids(v) /\ Size(v)' = Size(v)
        /\ job[v].first \in Nat /\ Size(v) \in Nat
        /\ job[v].first + Size(v) <= nextId
  BY <1>2 DEF Allocated, Ids, Size, IdInv, BelowSequence, TypeOK, JobType, Steps
<1>4. Ids(w)' = nextId .. (nextId + n - 1) /\ Size(w)' = n
  BY <1>1 DEF Ids, Size
<1>5. \A b \in Books : Stored(b)' = Stored(b) /\ \A i \in Stored(b) : i \in Nat /\ i < nextId
  BY <1>1 DEF Stored, IdInv, BelowSequence, TypeOK
<1>6. BelowSequence'
  <2>1. \A b \in Books : \A i \in Stored(b)' : i < nextId'
    BY <1>1, <1>5
  <2>2. ASSUME NEW v \in Workers, Allocated(v)'
        PROVE  job'[v].first + Size(v)' <= nextId'
    <3>1. CASE v = w
      BY <3>1, <1>1, <1>4
    <3>2. CASE v # w
      BY <2>2, <3>2, <1>1, <1>2, <1>3
    <3>3. QED
      BY <3>1, <3>2
  <2>3. QED
    BY <2>1, <2>2 DEF BelowSequence
<1>7. \A b \in Books : Ids(w)' \cap Stored(b) = {}
  BY <1>1, <1>4, <1>5
<1>8. \A v \in Workers : v # w /\ Allocated(v)' => Ids(v)' \cap Ids(w)' = {}
  <2> SUFFICES ASSUME NEW v \in Workers, v # w, Allocated(v)',
                      NEW i \in Ids(v)
               PROVE  i \notin Ids(w)'
    BY <1>3
  <2>1. i \in Int /\ i <= job[v].first + Size(v) - 1
    BY <1>3 DEF Ids, Size
  <2>2. i < nextId
    BY <2>1, <1>1, <1>3
  <2>3. QED
    BY <1>1, <1>4, <2>1, <2>2
<1>9. OwnIds'
  BY <1>1, <1>2, <1>3, <1>5, <1>7, <1>8 DEF IdInv, OwnIds
<1>10. IdsHaveOneOwner'
  BY <1>1 DEF IdInv, IdsHaveOneOwner
<1>11. CommittedBeforePublished'
  <2> SUFFICES ASSUME NEW v \in Workers, pc'[v] = "commit", NEW b \in Books
               PROVE  Ids(v)' \cap Stored(b) = {}
    BY <1>1 DEF CommittedBeforePublished, Stored
  <2>1. CASE v = w
    BY <2>1, <1>7
  <2>2. CASE v # w
    BY <2>2, <1>2, <1>3 DEF IdInv, CommittedBeforePublished, Stored, Allocated
  <2>3. QED
    BY <2>1, <2>2
<1>12. QED
  BY <1>6, <1>9, <1>10, <1>11 DEF IdInv

LEMMA CommitTxKeepsIdInv ==
    ASSUME IdInv, TypeOK', NEW w \in Workers, CommitTx(w)
    PROVE  IdInv'
<1> USE ChunkCountAssumption, BooksAssumption
<1>1. /\ job[w].book \in Books /\ Size(w) \in Nat /\ nextId \in Nat
      /\ job[w].first \in Nat /\ job[w].first + Size(w) <= nextId
      /\ pc[w] = "commit" /\ pc'[w] = "qdelete"
      /\ UNCHANGED <<points, nextId>>
  BY DEF CommitTx, IdInv, TypeOK, JobType, Steps, BelowSequence, Allocated, Size
<1>2. \A v \in Workers : v # w => pc'[v] = pc[v]
  BY DEF CommitTx, IdInv, TypeOK
<1>3. \A v \in Workers : Ids(v)' = Ids(v) /\ Size(v)' = Size(v)
                         /\ job'[v].book = job[v].book
                         /\ job'[v].first = job[v].first
  BY DEF CommitTx, IdInv, TypeOK, JobType, Ids, Size
<1>4. \A v \in Workers : Allocated(v)' => Allocated(v)
  BY <1>1, <1>2 DEF Allocated
<1>5. \A b \in Books : b = job[w].book => Stored(b)' \subseteq Stored(b) \cup Ids(w)
  BY <1>1 DEF CommitTx, Stored, IdInv, TypeOK
<1>6. \A b \in Books : b # job[w].book => Stored(b)' = Stored(b)
  BY <1>1 DEF CommitTx, Stored, IdInv, TypeOK
<1>7. \A i \in Ids(w) : i < nextId
  BY <1>1 DEF Ids, Size
<1>8. BelowSequence'
  BY <1>1, <1>3, <1>4, <1>5, <1>6, <1>7 DEF IdInv, BelowSequence
<1>9. OwnIds'
  <2>1. \A u, v \in Workers :
          u # v /\ Allocated(u)' /\ Allocated(v)' => Ids(u)' \cap Ids(v)' = {}
    BY <1>3, <1>4 DEF IdInv, OwnIds
  <2>2. ASSUME NEW v \in Workers, Allocated(v), NEW b \in Books,
               b # job[v].book
        PROVE  Ids(v) \cap Stored(b)' = {}
    <3>1. Ids(v) \cap Stored(b) = {}
      BY <2>2 DEF IdInv, OwnIds
    <3>2. b = job[w].book => v # w /\ Ids(v) \cap Ids(w) = {}
      BY <2>2, <1>1 DEF IdInv, OwnIds, Allocated
    <3>3. QED
      BY <3>1, <3>2, <1>5, <1>6
  <2>3. QED
    BY <2>1, <2>2, <1>3, <1>4 DEF OwnIds
<1>10. IdsHaveOneOwner'
  <2>1. \A b, c \in Books : b # c => Stored(b)' \cap Stored(c)' = {}
    <3>1. \A b, c \in Books : b # c => Stored(b) \cap Stored(c) = {}
      BY DEF IdInv, IdsHaveOneOwner, Stored
    <3>2. \A b \in Books : b # job[w].book => Ids(w) \cap Stored(b) = {}
      BY <1>1 DEF IdInv, OwnIds, Allocated
    <3>3. QED
      BY <3>1, <3>2, <1>5, <1>6
  <2>2. QED
    BY <2>1 DEF IdsHaveOneOwner, Stored
<1>11. CommittedBeforePublished'
  <2> SUFFICES ASSUME NEW v \in Workers, pc'[v] = "commit", NEW b \in Books
               PROVE  Ids(v) \cap Stored(b)' = {}
    BY <1>3 DEF CommittedBeforePublished, Stored
  <2>1. v # w /\ pc[v] = "commit"
    BY <1>1, <1>2
  <2>2. Ids(v) \cap Stored(b) = {}
    BY <2>1 DEF IdInv, CommittedBeforePublished, Stored
  <2>3. Ids(v) \cap Ids(w) = {}
    BY <2>1, <1>1 DEF IdInv, OwnIds, Allocated
  <2>4. QED
    BY <2>2, <2>3, <1>5, <1>6
<1>12. QED
  BY <1>8, <1>9, <1>10, <1>11 DEF IdInv

(* Deleting a book's points, or upserting a batch of a process's own ids. *)
LEMMA QdrantStepKeepsIdInv ==
    ASSUME IdInv, TypeOK', NEW w \in Workers, Allocated(w), pc[w] # "commit",
           UNCHANGED <<chunks, nextId>>,
           pc'[w] # "commit",
           \A v \in Workers : v # w => pc'[v] = pc[v],
           \A v \in Workers : /\ job'[v].book = job[v].book
                               /\ job'[v].first = job[v].first,
           \A b \in Books : b # job[w].book => points'[b] = points[b],
           points'[job[w].book] \subseteq points[job[w].book] \cup Ids(w)
    PROVE  IdInv'
<1> USE ChunkCountAssumption, BooksAssumption
<1>1. /\ job[w].book \in Books /\ Size(w) \in Nat /\ nextId \in Nat
      /\ job[w].first \in Nat /\ job[w].first + Size(w) <= nextId
  BY DEF IdInv, TypeOK, JobType, Steps, BelowSequence, Allocated, Size
<1>2. \A v \in Workers : Ids(v)' = Ids(v) /\ Size(v)' = Size(v)
  BY DEF Ids, Size
<1>3. \A v \in Workers : Allocated(v)' => Allocated(v)
  BY DEF Allocated
<1>4. \A b \in Books : b = job[w].book => Stored(b)' \subseteq Stored(b) \cup Ids(w)
  BY DEF Stored
<1>5. \A b \in Books : b # job[w].book => Stored(b)' = Stored(b)
  BY DEF Stored
<1>6. \A i \in Ids(w) : i < nextId
  BY <1>1 DEF Ids, Size
<1>7. BelowSequence'
  BY <1>1, <1>2, <1>3, <1>4, <1>5, <1>6 DEF IdInv, BelowSequence
<1>8. \A b \in Books : b # job[w].book => Ids(w) \cap Stored(b) = {}
  BY DEF IdInv, OwnIds
<1>9. \A v \in Workers : v # w /\ Allocated(v) => Ids(v) \cap Ids(w) = {}
  BY DEF IdInv, OwnIds
<1>10. OwnIds'
  BY <1>2, <1>3, <1>4, <1>5, <1>9 DEF IdInv, OwnIds
<1>11. IdsHaveOneOwner'
  <2>1. \A b, c \in Books : b # c => Stored(b) \cap Stored(c) = {}
    BY DEF IdInv, IdsHaveOneOwner, Stored
  <2>2. \A b, c \in Books : b # c => Stored(b)' \cap Stored(c)' = {}
    BY <2>1, <1>4, <1>5, <1>8
  <2>3. QED
    BY <2>2 DEF IdsHaveOneOwner, Stored
<1>12. CommittedBeforePublished'
  <2> SUFFICES ASSUME NEW v \in Workers, pc'[v] = "commit", NEW b \in Books
               PROVE  Ids(v) \cap Stored(b)' = {}
    BY <1>2 DEF CommittedBeforePublished, Stored
  <2>1. v # w /\ pc[v] = "commit" /\ Allocated(v)
    BY DEF Allocated
  <2>2. Ids(v) \cap Stored(b) = {}
    BY <2>1 DEF IdInv, CommittedBeforePublished, Stored
  <2>3. QED
    BY <2>1, <2>2, <1>4, <1>5, <1>9
<1>13. QED
  BY <1>7, <1>10, <1>11, <1>12 DEF IdInv

(* However many processes ingest, and whatever fails: the id ownership     *)
(* invariant holds in every reachable state.                               *)
LEMMA IdInvariant == Spec => []IdInv
<1> USE ChunkCountAssumption, BooksAssumption, BatchSizeAssumption
<1>1. Init => IdInv
  <2> SUFFICES ASSUME Init PROVE IdInv
    OBVIOUS
  <2>1. TypeOK
    BY DEF Init, TypeOK, Steps, Statuses, PlanType, NoPlan, JobType, NoJob, NoBook
  <2>2. QED
    BY <2>1 DEF Init, IdInv, BelowSequence, OwnIds, IdsHaveOneOwner,
                CommittedBeforePublished, Allocated, Stored
<1>2. IdInv /\ TypeOK' /\ [Next]_vars => IdInv'
  <2> SUFFICES ASSUME IdInv, TypeOK', [Next]_vars PROVE IdInv'
    OBVIOUS
  <2> USE QuietKeepsIdInv DEF Quiet, Allocated, stores
  <2>0. CASE UNCHANGED vars
    BY <2>0 DEF vars
  <2> SUFFICES ASSUME NEW w \in Workers,
                      StartRun(w) \/ Step(w) \/ Fail(w) \/ Crash(w)
               PROVE IdInv'
    BY <2>0 DEF Next
  <2>t. pc \in [Workers -> Steps] /\ job \in [Workers -> JobType]
    BY DEF IdInv, TypeOK
  <2>1. CASE StartRun(w) \/ SkipBook(w) \/ FinishRun(w) \/ Embed(w)
    BY <2>1, <2>t DEF StartRun, SkipBook, FinishRun, Embed
  <2>2. CASE TakeBook(w)
    BY <2>2, <2>t DEF TakeBook
  <2>3. CASE BeginTx(w) \/ StartDelete(w) \/ DeleteRows(w)
    BY <2>3, <2>t DEF BeginTx, StartDelete, DeleteRows
  <2>4. CASE DryRun(w) \/ FinishBook(w) \/ LeaveBook(w)
    BY <2>4, <2>t DEF DryRun, FinishBook, LeaveBook, BookDone
  <2>5. CASE Crash(w)
    BY <2>5, <2>t DEF Crash
  <2>6. CASE InsertRows(w)
    BY <2>6, InsertRowsKeepsIdInv
  <2>7. CASE CommitTx(w)
    BY <2>7, CommitTxKeepsIdInv
  <2>8. CASE DeletePoints(w)
    BY <2>8, <2>t, QdrantStepKeepsIdInv DEF DeletePoints, IdInv, TypeOK
  <2>9. CASE UpsertBatch(w)
    <3>1. /\ job[w].book \in Books /\ Size(w) \in Nat
          /\ job[w].first \in Nat /\ job[w].sent \in Nat
      BY <2>9 DEF UpsertBatch, IdInv, TypeOK, JobType, Size
    <3>2. BatchEnd(w) \in Nat /\ BatchEnd(w) <= Size(w)
      BY <2>9, <3>1 DEF BatchEnd, Size
    <3>3. (job[w].first + job[w].sent) .. (job[w].first + BatchEnd(w) - 1)
            \subseteq Ids(w)
      BY <3>1, <3>2 DEF Ids, Size
    <3>4. points'[job[w].book] \subseteq points[job[w].book] \cup Ids(w)
      BY <2>9, <3>1, <3>3 DEF UpsertBatch, IdInv, TypeOK
    <3>5. \A v \in Workers : /\ job'[v].book = job[v].book
                              /\ job'[v].first = job[v].first
      BY <2>9, <2>t DEF UpsertBatch, JobType
    <3>6. \A b \in Books : b # job[w].book => points'[b] = points[b]
      BY <2>9 DEF UpsertBatch, IdInv, TypeOK
    <3>7. QED
      BY <2>9, <3>4, <3>5, <3>6, QdrantStepKeepsIdInv DEF UpsertBatch
  <2>10. QED
    BY <2>1, <2>2, <2>3, <2>4, <2>5, <2>6, <2>7, <2>8, <2>9
       DEF Step, Fail
<1>3. QED
  BY <1>1, <1>2, TypeCorrect, PTL DEF Spec

(* A point never leads to a row of another book, however many processes    *)
(* ingest (pipeline.py gives a point its row's serial id).                 *)
THEOREM OneOwner == Spec => []IdsHaveOneOwner
  BY IdInvariant, PTL DEF IdInv

(* No point exists for a row that a rollback may still take back.          *)
THEOREM PublishedAfterCommit == Spec => []CommittedBeforePublished
  BY IdInvariant, PTL DEF IdInv

-------------------------------------------------------------------------------
(***************************************************************************)
(* Processes with disjoint selections.  What is shown here fails without   *)
(* Exclusive: NeverDuplicates is the run that shows how.                   *)
(***************************************************************************)

Selects(w, b) == \E p \in Plans[w] : b \in p.books

InHand(w) == pc[w] \notin {"idle", "next"}

InWindow(w) == pc[w] \in {"qdelete", "upsert"}

(* The books a process has selected, has in hand and has reported. *)
Itinerary(w) ==
    /\ \A b \in left[w] : Selects(w, b)
    /\ InHand(w) => Selects(w, job[w].book) /\ job[w].book \notin left[w]
    /\ \A b \in Books : <<b, "ok">> \in report[w] =>
         /\ Selects(w, b)
         /\ points[b] = chunks[b]
         /\ pc[w] # "idle" => b \notin left[w]
         /\ InHand(w) => b # job[w].book

(* What the process knows of its book's rows and points at each step. *)
Progress(w) ==
    /\ pc[w] \in {"lock", "insert", "commit"} =>
         job[w].doomed = chunks[job[w].book]
    /\ InWindow(w) => chunks[job[w].book] = Ids(w)
    /\ pc[w] = "qdelete" => points[job[w].book] \cap chunks[job[w].book] = {}
    /\ InHand(w) /\ pc[w] # "upsert" => job[w].sent = 0
    /\ pc[w] = "upsert" =>
         /\ job[w].sent <= Size(w)
         /\ points[job[w].book] =
              job[w].first .. (job[w].first + job[w].sent - 1)

ExclusiveInv ==
    /\ TypeOK
    /\ \A w \in Workers : Itinerary(w) /\ Progress(w)
    /\ GapExplained

(* What a step of w leaves alone. *)
Frame(w) ==
    /\ \A v \in Workers : v # w =>
         /\ pc'[v] = pc[v] /\ job'[v] = job[v]
         /\ left'[v] = left[v] /\ report'[v] = report[v]
    /\ \A b \in Books : ~(InHand(w) /\ b = job[w].book) =>
         /\ chunks'[b] = chunks[b] /\ points'[b] = points[b]
         /\ b \in torn' <=> b \in torn

LEMMA StepFrame ==
    ASSUME TypeOK, NEW w \in Workers,
           StartRun(w) \/ Step(w) \/ Fail(w) \/ Crash(w)
    PROVE  Frame(w)
<1> USE DEF TypeOK, Frame, InHand, stores
<1>1. CASE StartRun(w) \/ SkipBook(w) \/ TakeBook(w) \/ FinishRun(w)
  BY <1>1 DEF StartRun, SkipBook, TakeBook, FinishRun
<1>2. CASE DryRun(w) \/ Embed(w) \/ BeginTx(w) \/ StartDelete(w)
  BY <1>2 DEF DryRun, BookDone, Embed, BeginTx, StartDelete
<1>3. CASE DeleteRows(w) \/ InsertRows(w)
  BY <1>3 DEF DeleteRows, InsertRows
<1>4. CASE CommitTx(w)
  BY <1>4 DEF CommitTx
<1>5. CASE DeletePoints(w) \/ UpsertBatch(w)
  BY <1>5 DEF DeletePoints, UpsertBatch
<1>6. CASE FinishBook(w)
  BY <1>6 DEF FinishBook, BookDone
<1>7. CASE LeaveBook(w) /\ pc[w] \notin {"idle", "next"}
  BY <1>7 DEF LeaveBook, BookDone, Tear
<1>8. CASE Crash(w)
  BY <1>8 DEF Crash, Tear
<1>9. QED
  BY <1>1, <1>2, <1>3, <1>4, <1>5, <1>6, <1>7, <1>8 DEF Step, Fail

(* Whatever has become of its book before: from the snapshot on a process  *)
(* knows the book's rows, and from the commit on its points, as long as    *)
(* nobody else is at them.                                                 *)
LEMMA ProgressKept ==
    ASSUME IdInv, TypeOK', NEW w \in Workers, Progress(w),
           StartRun(w) \/ Step(w) \/ Fail(w) \/ Crash(w)
    PROVE  Progress(w)'
<1> USE ChunkCountAssumption, BatchSizeAssumption DEF IdInv, stores
<1>1. CASE ~ InHand(w)'
  BY <1>1 DEF Progress, InHand, InWindow
<1>2. CASE TakeBook(w)
  <2>1. pc'[w] = "load" /\ job'[w].sent = 0
    BY <1>2 DEF TakeBook, NoJob, TypeOK
  <2> QED  BY <2>1 DEF Progress, InWindow
<1>3. CASE Embed(w) \/ BeginTx(w) \/ StartDelete(w) \/ DeleteRows(w) \/ InsertRows(w)
  <2>1. /\ InHand(w) /\ ~InWindow(w) /\ ~InWindow(w)'
        /\ job'[w].book = job[w].book /\ UNCHANGED <<chunks, points>>
    BY <1>3 DEF Embed, BeginTx, StartDelete, DeleteRows, InsertRows, InHand,
                InWindow, TypeOK, JobType
  <2>2. pc'[w] \in {"lock", "insert", "commit"} =>
          job'[w].doomed = chunks[job[w].book]
    <3> USE DEF TypeOK, JobType, Progress
    <3>1. CASE Embed(w) \/ BeginTx(w)
      BY <3>1 DEF Embed, BeginTx
    <3>2. CASE StartDelete(w)
      BY <3>2 DEF StartDelete
    <3>3. CASE DeleteRows(w)
      BY <3>3 DEF DeleteRows
    <3>4. CASE InsertRows(w)
      BY <3>4 DEF InsertRows
    <3> QED  BY <1>3, <3>1, <3>2, <3>3, <3>4
  <2>3. pc'[w] # "upsert" /\ job'[w].sent = job[w].sent /\ job[w].sent = 0
    BY <1>3, <2>1 DEF Embed, BeginTx, StartDelete, DeleteRows, InsertRows,
                TypeOK, JobType, Progress, InWindow
  <2> QED  BY <2>1, <2>2, <2>3 DEF Progress, InWindow
<1>4. CASE CommitTx(w)
  <2>1. /\ pc[w] = "commit" /\ pc'[w] = "qdelete"
        /\ job'[w].book = job[w].book /\ job'[w].sent = job[w].sent
        /\ job[w].book \in Books /\ Ids(w)' = Ids(w) /\ UNCHANGED points
    BY <1>4 DEF CommitTx, TypeOK, JobType, Ids
  <2>2. job[w].doomed = chunks[job[w].book]
    BY <2>1 DEF Progress
  <2>3. chunks'[job[w].book] = Ids(w)
    BY <1>4, <2>1, <2>2 DEF CommitTx, TypeOK
  <2>4. points[job[w].book] \cap Ids(w) = {}
    BY <2>1 DEF CommittedBeforePublished
  <2>5. (points[job[w].book] \cap chunks[job[w].book] = {})'
    BY <2>1, <2>3, <2>4
  <2> QED  BY <2>1, <2>3, <2>5 DEF Progress, InWindow, InHand
<1>5. CASE DeletePoints(w)
  <2>1. /\ pc[w] = "qdelete" /\ pc'[w] = "upsert" /\ job[w].book \in Books
        /\ points'[job[w].book] = {}
        /\ Ids(w)' = Ids(w) /\ Size(w)' = Size(w) /\ UNCHANGED <<chunks, job>>
    BY <1>5 DEF DeletePoints, TypeOK, JobType, Ids, Size
  <2>2. job[w].sent = 0 /\ chunks[job[w].book] = Ids(w)
    BY <2>1 DEF Progress, InHand, InWindow
  <2>3. Size(w) \in Nat /\ job[w].first \in Nat
    BY <2>1 DEF Size, TypeOK, JobType
  <2>4. job[w].first .. (job[w].first + job[w].sent - 1) = {}
    BY <2>2, <2>3
  <2>5. (chunks[job[w].book] = Ids(w))' /\ (job[w].sent <= Size(w))'
    BY <2>1, <2>2, <2>3
  <2>6. points'[job'[w].book] = {} /\ job' = job
    BY <2>1
  <2> QED  BY <2>1, <2>4, <2>5, <2>6 DEF Progress
<1>6. CASE UpsertBatch(w)
  <2>1. /\ pc[w] = "upsert" /\ pc'[w] = "upsert" /\ job[w].book \in Books
        /\ job'[w].book = job[w].book /\ job'[w].first = job[w].first
        /\ job'[w].sent = BatchEnd(w)
        /\ Ids(w)' = Ids(w) /\ Size(w)' = Size(w) /\ UNCHANGED chunks
    BY <1>6 DEF UpsertBatch, TypeOK, JobType, Ids, Size
  <2>2. /\ chunks[job[w].book] = Ids(w)
        /\ points[job[w].book] =
             job[w].first .. (job[w].first + job[w].sent - 1)
    BY <2>1 DEF Progress, InWindow
  <2>3. /\ Size(w) \in Nat /\ job[w].first \in Nat /\ job[w].sent \in Nat
        /\ BatchEnd(w) \in Nat /\ BatchEnd(w) <= Size(w)
        /\ job[w].sent <= BatchEnd(w)
    <3>1. Size(w) \in Nat /\ job[w].first \in Nat /\ job[w].sent \in Nat
      BY <2>1 DEF Size, TypeOK, JobType
    <3>2. job[w].sent < Size(w)
      BY <1>6 DEF UpsertBatch, Size
    <3> QED  BY <3>1, <3>2 DEF BatchEnd, Size
  <2>4. points'[job[w].book] =
          points[job[w].book] \cup
            ((job[w].first + job[w].sent) .. (job[w].first + BatchEnd(w) - 1))
    BY <1>6, <2>1 DEF UpsertBatch, TypeOK
  <2>5. points'[job[w].book] = job[w].first .. (job[w].first + BatchEnd(w) - 1)
    <3> DEFINE first == job[w].first
               sent == job[w].sent
               end == BatchEnd(w)
    <3>1. first \in Nat /\ sent \in Nat /\ end \in Nat /\ sent <= end
      BY <2>3
    <3> HIDE DEF first, sent, end
    <3>2. (first .. (first + sent - 1)) \cup ((first + sent) .. (first + end - 1))
            = first .. (first + end - 1)
      BY <3>1
    <3> QED  BY <2>2, <2>4, <3>2 DEF first, sent, end
  <2> QED  BY <2>1, <2>2, <2>3, <2>5 DEF Progress, InWindow
<1>7. CASE StartRun(w) \/ SkipBook(w) \/ FinishRun(w) \/ DryRun(w) \/ FinishBook(w)
             \/ Fail(w) \/ Crash(w)
  <2>1. pc'[w] \in {"idle", "next"}
    BY <1>7 DEF StartRun, SkipBook, FinishRun, DryRun, FinishBook, Fail, LeaveBook,
                Crash, BookDone, TypeOK
  <2> QED  BY <1>1, <2>1 DEF InHand
<1> QED  BY <1>2, <1>3, <1>4, <1>5, <1>6, <1>7 DEF Step

LEMMA SelectedByOne ==
    ASSUME Exclusive, NEW v \in Workers, NEW w \in Workers, NEW b,
           Selects(v, b), Selects(w, b)
    PROVE  v = w
  BY DEF Exclusive, Selects

LEMMA OthersKeep ==
    ASSUME Exclusive, ExclusiveInv, NEW w \in Workers, Frame(w),
           NEW v \in Workers, v # w
    PROVE  Itinerary(v)' /\ Progress(v)'
<1>1. /\ pc'[v] = pc[v] /\ job'[v] = job[v] /\ left'[v] = left[v]
      /\ report'[v] = report[v]
  BY DEF Frame
<1>2. \A b \in Books : Selects(v, b) => points'[b] = points[b] /\ chunks'[b] = chunks[b]
  BY SelectedByOne DEF ExclusiveInv, Itinerary, Frame
<1>3. Itinerary(v)'
  BY <1>1, <1>2 DEF ExclusiveInv, Itinerary, Selects, InHand
<1>4. InHand(v) => job[v].book \in Books /\ Selects(v, job[v].book)
  BY DEF ExclusiveInv, Itinerary, TypeOK, InHand
<1>5. Progress(v)'
  BY <1>1, <1>2, <1>4 DEF ExclusiveInv, Progress, InHand, InWindow, Ids, Size
<1>6. QED
  BY <1>3, <1>5

(* Before a step of w, another's book in the window is not w's. *)
LEMMA GapKept ==
    ASSUME Exclusive, ExclusiveInv, NEW w \in Workers, Frame(w),
           InHand(w) =>
             \/ points'[job[w].book] = chunks'[job[w].book]
             \/ job[w].book \in torn'
             \/ InWindow(w)' /\ job'[w].book = job[w].book
    PROVE  GapExplained'
<1> SUFFICES ASSUME NEW b \in Books, points'[b] # chunks'[b]
             PROVE  b \in torn' \/ \E u \in Workers :
                      InWindow(u)' /\ job'[u].book = b
  BY DEF GapExplained, InWindow
<1>1. CASE InHand(w) /\ b = job[w].book
  BY <1>1
<1>2. CASE ~(InHand(w) /\ b = job[w].book)
  <2>1. points[b] # chunks[b] /\ (b \in torn' <=> b \in torn)
    BY <1>2 DEF Frame
  <2>2. CASE b \in torn
    BY <2>1, <2>2
  <2>3. CASE b \notin torn
    <3>1. PICK u \in Workers : InWindow(u) /\ job[u].book = b
      BY <2>1, <2>3 DEF ExclusiveInv, GapExplained, InWindow
    <3>2. u # w
      BY <3>1, <1>2 DEF InWindow, InHand
    <3>3. QED
      BY <3>1, <3>2 DEF Frame, InWindow
  <2>4. QED
    BY <2>2, <2>3
<1>3. QED
  BY <1>1, <1>2

(* A book in hand outside the window has a gap only if it is torn. *)
LEMMA OwnGap ==
    ASSUME Exclusive, ExclusiveInv, NEW w \in Workers, InHand(w), ~InWindow(w)
    PROVE  points[job[w].book] = chunks[job[w].book] \/ job[w].book \in torn
<1>1. job[w].book \in Books /\ Selects(w, job[w].book)
  BY DEF ExclusiveInv, Itinerary, TypeOK, InHand
<1>2. \A u \in Workers : InWindow(u) /\ job[u].book = job[w].book => u = w
  BY <1>1, SelectedByOne DEF ExclusiveInv, Itinerary, InHand, InWindow
<1>3. QED
  BY <1>1, <1>2 DEF ExclusiveInv, GapExplained, InWindow

(* What w's own step leaves of its itinerary, its progress and its gap.    *)
OwnGapClosed(w) ==
    InHand(w) =>
        \/ points'[job[w].book] = chunks'[job[w].book]
        \/ job[w].book \in torn'
        \/ InWindow(w)' /\ job'[w].book = job[w].book

LEMMA DriverStepOwn ==
    ASSUME Exclusive, ExclusiveInv, TypeOK', NEW w \in Workers,
           \/ StartRun(w) \/ SkipBook(w) \/ TakeBook(w) \/ FinishRun(w)
    PROVE  Itinerary(w)' /\ OwnGapClosed(w)
<1> USE DEF ExclusiveInv, Itinerary, OwnGapClosed, InHand, InWindow,
            TypeOK, stores, Selects
<1>1. CASE StartRun(w)
  BY <1>1, PlansAssumption DEF StartRun
<1>2. CASE SkipBook(w)
  BY <1>2 DEF SkipBook
<1>3. CASE TakeBook(w)
  <2>1. PICK b \in left[w] : job' = [job EXCEPT ![w] = [NoJob EXCEPT !.book = b]]
                             /\ left' = [left EXCEPT ![w] = @ \ {b}]
    BY <1>3 DEF TakeBook
  <2>2. /\ job'[w].book = b /\ job'[w].sent = 0
        /\ left'[w] = left[w] \ {b} /\ pc[w] = "next" /\ pc'[w] = "load"
        /\ UNCHANGED <<chunks, points, torn, report>>
    BY <1>3, <2>1 DEF TakeBook, NoJob, JobType
  <2>3. Itinerary(w)'
    BY <2>1, <2>2
  <2>4. OwnGapClosed(w)
    BY <2>2
  <2>5. QED
    BY <2>3, <2>4
<1>4. CASE FinishRun(w)
  BY <1>4 DEF FinishRun
<1>5. QED
  BY <1>1, <1>2, <1>3, <1>4

LEMMA TxStepOwn ==
    ASSUME Exclusive, ExclusiveInv, TypeOK', NEW w \in Workers,
           \/ Embed(w) \/ BeginTx(w) \/ StartDelete(w) \/ DeleteRows(w)
           \/ InsertRows(w)
    PROVE  Itinerary(w)' /\ OwnGapClosed(w)
<1>1. /\ InHand(w) /\ ~InWindow(w) /\ InHand(w)' /\ ~InWindow(w)'
      /\ job'[w].book = job[w].book
      /\ UNCHANGED <<chunks, points, torn, left, report>>
  BY DEF Embed, BeginTx, StartDelete, DeleteRows, InsertRows, stores, InHand,
         InWindow, ExclusiveInv, TypeOK, JobType
<1>2. OwnGapClosed(w)
  BY <1>1, OwnGap DEF OwnGapClosed
<1>3. Itinerary(w)'
  BY <1>1 DEF ExclusiveInv, Itinerary, Selects, InHand
<1>4. QED
  BY <1>2, <1>3

LEMMA CommitTxOwn ==
    ASSUME Exclusive, ExclusiveInv, IdInv, TypeOK', NEW w \in Workers,
           CommitTx(w)
    PROVE  Itinerary(w)' /\ OwnGapClosed(w)
<1>1. /\ pc[w] = "commit" /\ pc'[w] = "qdelete"
      /\ job'[w].book = job[w].book /\ job'[w].sent = job[w].sent
      /\ job[w].book \in Books /\ Ids(w)' = Ids(w)
      /\ UNCHANGED <<points, torn, left, report>>
  BY DEF CommitTx, ExclusiveInv, TypeOK, JobType, Ids
<1>2. job[w].doomed = chunks[job[w].book]
  BY <1>1 DEF ExclusiveInv, Progress
<1>3. chunks'[job[w].book] = Ids(w)
  BY <1>1, <1>2 DEF CommitTx, ExclusiveInv, TypeOK
<1>4. \A b \in Books : b # job[w].book => chunks'[b] = chunks[b]
  BY DEF CommitTx, ExclusiveInv, TypeOK
<1>5. Itinerary(w)'
  BY <1>1, <1>4 DEF ExclusiveInv, Itinerary, Selects, InHand
<1>6. QED
  BY <1>1, <1>5 DEF OwnGapClosed, InWindow

LEMMA DeletePointsOwn ==
    ASSUME Exclusive, ExclusiveInv, TypeOK', NEW w \in Workers, DeletePoints(w)
    PROVE  Itinerary(w)' /\ OwnGapClosed(w)
<1> USE ChunkCountAssumption
<1>1. /\ pc[w] = "qdelete" /\ pc'[w] = "upsert" /\ job[w].book \in Books
      /\ points'[job[w].book] = {}
      /\ Ids(w)' = Ids(w) /\ Size(w)' = Size(w)
      /\ UNCHANGED <<chunks, torn, left, report, job>>
  BY DEF DeletePoints, ExclusiveInv, TypeOK, JobType, Ids, Size
<1>2. \A b \in Books : b # job[w].book => points'[b] = points[b]
  BY DEF DeletePoints, ExclusiveInv, TypeOK
<1>3. Itinerary(w)'
  BY <1>1, <1>2 DEF ExclusiveInv, Itinerary, Selects, InHand
<1>4. QED
  BY <1>1, <1>3 DEF OwnGapClosed, InWindow

LEMMA UpsertBatchOwn ==
    ASSUME Exclusive, ExclusiveInv, TypeOK', NEW w \in Workers, UpsertBatch(w)
    PROVE  Itinerary(w)' /\ OwnGapClosed(w)
<1> USE ChunkCountAssumption, BatchSizeAssumption
<1>1. /\ pc[w] = "upsert" /\ pc'[w] = "upsert" /\ job[w].book \in Books
      /\ job'[w].book = job[w].book /\ job'[w].first = job[w].first
      /\ job'[w].sent = BatchEnd(w)
      /\ Ids(w)' = Ids(w) /\ Size(w)' = Size(w)
      /\ UNCHANGED <<chunks, torn, left, report>>
  BY DEF UpsertBatch, ExclusiveInv, TypeOK, JobType, Ids, Size
<1>2. \A b \in Books : b # job[w].book => points'[b] = points[b]
  BY DEF UpsertBatch, ExclusiveInv, TypeOK
<1>3. Itinerary(w)'
  BY <1>1, <1>2 DEF ExclusiveInv, Itinerary, Selects, InHand
<1>4. QED
  BY <1>1, <1>3 DEF OwnGapClosed, InWindow

LEMMA FinishBookOwn ==
    ASSUME Exclusive, ExclusiveInv, TypeOK', NEW w \in Workers, FinishBook(w)
    PROVE  Itinerary(w)' /\ OwnGapClosed(w)
<1> USE ChunkCountAssumption
<1>1. /\ pc[w] = "upsert" /\ pc'[w] = "next" /\ job[w].book \in Books
      /\ report'[w] = report[w] \cup {<<job[w].book, "ok">>}
      /\ UNCHANGED <<chunks, points, left>>
  BY DEF FinishBook, BookDone, stores, ExclusiveInv, TypeOK
<1>2. points[job[w].book] = chunks[job[w].book]
  BY <1>1 DEF FinishBook, ExclusiveInv, Progress, InWindow, Ids, Size
<1>3. \A b \in Books : <<b, "ok">> \in report'[w] =>
        <<b, "ok">> \in report[w] \/ b = job[w].book
  BY <1>1
<1>4. Itinerary(w)'
  BY <1>1, <1>2, <1>3 DEF ExclusiveInv, Itinerary, Selects, InHand
<1>5. QED
  BY <1>1, <1>2, <1>4 DEF OwnGapClosed

(* A dry run, an exception and a death leave the book as it was and mark   *)
(* it as torn if it was in the window.                                     *)
LEMMA LeavingOwn ==
    ASSUME Exclusive, ExclusiveInv, TypeOK', NEW w \in Workers,
           \/ DryRun(w)
           \/ InHand(w) /\ LeaveBook(w)
           \/ Crash(w)
    PROVE  Itinerary(w)' /\ OwnGapClosed(w)
<1>1. /\ pc'[w] \in {"idle", "next"} /\ pc[w] # "idle"
      /\ pc'[w] = "next" => InHand(w)
      /\ UNCHANGED <<chunks, points, left>>
  BY DEF DryRun, LeaveBook, Crash, BookDone, stores, InHand, ExclusiveInv,
         TypeOK
<1>2. \A b \in Books : <<b, "ok">> \in report'[w] => <<b, "ok">> \in report[w]
  BY DEF DryRun, LeaveBook, Crash, BookDone, ExclusiveInv, TypeOK
<1>3. Itinerary(w)'
  BY <1>1, <1>2 DEF ExclusiveInv, Itinerary, Selects, InHand
<1>4. OwnGapClosed(w)
  <2>1. CASE InWindow(w)
    BY <2>1 DEF OwnGapClosed, InWindow, DryRun, LeaveBook, Crash, Tear
  <2>2. CASE ~InWindow(w)
    <3>1. \A b \in Books : b \in torn => b \in torn'
      BY DEF DryRun, LeaveBook, Crash, Tear
    <3>2. InHand(w) => job[w].book \in Books
      BY DEF InHand, ExclusiveInv, TypeOK
    <3>3. QED
      BY <1>1, <2>2, <3>1, <3>2, OwnGap DEF OwnGapClosed
  <2>3. QED
    BY <2>1, <2>2
<1>5. QED
  BY <1>3, <1>4

(* While selections are disjoint, every process knows what it believes. *)
LEMMA ExclusiveInvariant == ASSUME Exclusive PROVE Spec => []ExclusiveInv
<1> USE ChunkCountAssumption, BooksAssumption, BatchSizeAssumption
<1>1. Init => ExclusiveInv
  <2> SUFFICES ASSUME Init PROVE ExclusiveInv
    OBVIOUS
  <2>1. TypeOK
    BY DEF Init, TypeOK, Steps, Statuses, PlanType, NoPlan, JobType, NoJob, NoBook
  <2>2. QED
    BY <2>1 DEF Init, ExclusiveInv, Itinerary, Progress, GapExplained, InHand,
                InWindow
<1>2. ExclusiveInv /\ IdInv /\ TypeOK' /\ [Next]_vars => ExclusiveInv'
  <2> SUFFICES ASSUME ExclusiveInv, IdInv, TypeOK', [Next]_vars PROVE ExclusiveInv'
    OBVIOUS
  <2>0. CASE UNCHANGED vars
    BY <2>0 DEF vars, ExclusiveInv, TypeOK, Itinerary, Progress, GapExplained,
                InHand, InWindow, Ids, Size, Selects
  <2> SUFFICES ASSUME NEW w \in Workers,
                      StartRun(w) \/ Step(w) \/ Fail(w) \/ Crash(w)
               PROVE ExclusiveInv'
    BY <2>0 DEF Next
  <2>1. Frame(w)
    BY StepFrame DEF ExclusiveInv
  <2>2. Itinerary(w)' /\ OwnGapClosed(w)
    BY DriverStepOwn, TxStepOwn, CommitTxOwn, DeletePointsOwn, UpsertBatchOwn,
       FinishBookOwn, LeavingOwn DEF Step, Fail, InHand
  <2>p. Progress(w)'
    BY ProgressKept DEF ExclusiveInv
  <2>3. \A v \in Workers : Itinerary(v)' /\ Progress(v)'
    BY <2>1, <2>2, <2>p, OthersKeep
  <2>4. GapExplained'
    BY <2>1, <2>2, GapKept DEF OwnGapClosed
  <2>5. QED
    BY <2>3, <2>4 DEF ExclusiveInv
<1>3. QED
  BY <1>1, <1>2, TypeCorrect, IdInvariant, PTL DEF Spec

(* With disjoint selections a book logged as ok is searchable in full, for *)
(* any number of processes, books, chunks and batches.                     *)
THEOREM OkIsIndexed == ASSUME Exclusive PROVE Spec => []OkMeansIndexed
<1>1. ExclusiveInv => OkMeansIndexed
  BY DEF ExclusiveInv, Itinerary, OkMeansIndexed
<1>2. QED
  BY <1>1, ExclusiveInvariant, PTL

(* With disjoint selections the stores disagree about a book only between  *)
(* its commit and its last batch, or after an ingest that stopped there.   *)
THEOREM GapsExplained == ASSUME Exclusive PROVE Spec => []GapExplained
<1>1. ExclusiveInv => GapExplained
  BY DEF ExclusiveInv
<1>2. QED
  BY <1>1, ExclusiveInvariant, PTL

-------------------------------------------------------------------------------
(***************************************************************************)
(* Ingestion implements BookIndex: the commit replaces the edition, every  *)
(* batch reveals some of it, and all else, the deletion of the old points  *)
(* included, is invisible to a search.                                     *)
(***************************************************************************)

LEMMA Unseen ==
    ASSUME chunks' = chunks,
           \A b \in Books : points'[b] \cap chunks[b] = points[b] \cap chunks[b]
    PROVE  UNCHANGED <<chunks, Searchable>>
  BY DEF Searchable

LEMMA CommitReplaces ==
    ASSUME ExclusiveInv, IdInv, TypeOK', NEW w \in Workers, CommitTx(w)
    PROVE  Index!Next
<1> DEFINE b == job[w].book
<1>1. /\ pc[w] = "commit" /\ b \in Books /\ points' = points
      /\ chunks \in [Books -> SUBSET Nat] /\ chunks' \in [Books -> SUBSET Nat]
  BY DEF CommitTx, ExclusiveInv, TypeOK
<1>2. chunks'[b] = Ids(w) /\ \A c \in Books \ {b} : chunks'[c] = chunks[c]
  BY <1>1 DEF CommitTx, ExclusiveInv, Progress
<1>3. \A c \in Books : Ids(w) \cap chunks[c] = {} /\ Ids(w) \cap points[c] = {}
  BY <1>1 DEF IdInv, CommittedBeforePublished
<1> HIDE DEF b
<1>4. Searchable' = [Searchable EXCEPT ![b] = {}]
  BY <1>1, <1>2, <1>3 DEF Searchable
<1>5. Index!Replace(b)
  BY <1>1, <1>2, <1>3, <1>4 DEF Index!Replace
<1>6. QED
  BY <1>1, <1>5 DEF Index!Next

LEMMA BatchReveals ==
    ASSUME ExclusiveInv, TypeOK', NEW w \in Workers, UpsertBatch(w)
    PROVE  Index!Next
<1> DEFINE b == job[w].book
<1>1. /\ pc[w] = "upsert" /\ b \in Books /\ chunks' = chunks
      /\ chunks \in [Books -> SUBSET Nat]
      /\ points \in [Books -> SUBSET Nat] /\ points' \in [Books -> SUBSET Nat]
  BY DEF UpsertBatch, ExclusiveInv, TypeOK
<1>2. /\ points[b] \subseteq points'[b]
      /\ \A c \in Books \ {b} : points'[c] = points[c]
  BY <1>1 DEF UpsertBatch
<1> HIDE DEF b
<1>3. /\ Searchable' \in [Books -> SUBSET Nat]
      /\ \A c \in Books \ {b} : Searchable'[c] = Searchable[c]
      /\ Searchable[b] \subseteq Searchable'[b]
      /\ Searchable'[b] \subseteq chunks[b]
  BY <1>1, <1>2 DEF Searchable
<1>4. Index!Reveal(b)
  BY <1>1, <1>3 DEF Index!Reveal
<1>5. QED
  BY <1>1, <1>4 DEF Index!Next

LEMMA StepImplementsIndex ==
    ASSUME ExclusiveInv, IdInv, TypeOK', [Next]_vars
    PROVE  [Index!Next]_(Index!vars)
<1>0. CASE UNCHANGED vars
  BY <1>0 DEF vars, Searchable, Index!vars
<1> SUFFICES ASSUME NEW w \in Workers,
                    StartRun(w) \/ Step(w) \/ Fail(w) \/ Crash(w)
             PROVE [Index!Next]_(Index!vars)
  BY <1>0 DEF Next
<1>1. CASE UNCHANGED <<chunks, points>>
  BY <1>1, Unseen DEF Index!vars
<1>2. CASE CommitTx(w)
  BY <1>2, CommitReplaces
<1>3. CASE UpsertBatch(w)
  BY <1>3, BatchReveals
<1>4. CASE DeletePoints(w)
  <2>1. /\ pc[w] = "qdelete" /\ job[w].book \in Books /\ chunks' = chunks
        /\ points' = [points EXCEPT ![job[w].book] = {}]
    BY <1>4 DEF DeletePoints, ExclusiveInv, TypeOK
  <2>2. points[job[w].book] \cap chunks[job[w].book] = {}
    BY <2>1 DEF ExclusiveInv, Progress
  <2>3. \A b \in Books :
          points'[b] \cap chunks[b] = points[b] \cap chunks[b]
    BY <2>1, <2>2 DEF ExclusiveInv, TypeOK
  <2>4. QED
    BY <2>1, <2>3, Unseen DEF Index!vars
<1>5. QED
  BY <1>1, <1>2, <1>3, <1>4
     DEF StartRun, Step, Fail, Crash, SkipBook, TakeBook, FinishRun, DryRun,
         BookDone, Embed, BeginTx, StartDelete, DeleteRows, InsertRows,
         FinishBook, LeaveBook, stores

(* With disjoint selections ingestion implements BookIndex: a search sees  *)
(* a book edition by edition, whatever fails or dies in between.           *)
THEOREM ImplementsIndex == ASSUME Exclusive PROVE Spec => IndexSpec
<1>1. Init => Index!Init
  BY DEF Init, Index!Init, Searchable
<1>2. ExclusiveInv /\ IdInv /\ TypeOK' /\ [Next]_vars
        => [Index!Next]_(Index!vars)
  BY StepImplementsIndex
<1>3. QED
  BY <1>1, <1>2, TypeCorrect, IdInvariant, ExclusiveInvariant, PTL
     DEF Spec, IndexSpec, Index!Spec

===============================================================================
