------------------------------ MODULE Ingestion ------------------------------
(***************************************************************************)
(* Ingestion of books into the two stores a search reads: Postgres (the    *)
(* rows of record) and Qdrant (one point per chunk row, whose id is the    *)
(* row's serial id).  Modelled from ingestion/pipeline.py, the driver      *)
(* loops of cli.py and of ingest_corpus, and vectorstore/qdrant_store.py.  *)
(*                                                                         *)
(* An ingest process walks over a selection of books.  For each book it    *)
(* chunks and embeds, replaces the book's rows in one Postgres transaction *)
(* and only then, outside of it, deletes the book's points and upserts the *)
(* new ones batch by batch.  It may fail or die at any of these steps, and *)
(* an operator may start it again, with or without --resume.  Several      *)
(* processes may run at once: nothing in the code excludes it.             *)
(*                                                                         *)
(* Postgres is READ COMMITTED (db/engine.py sets no isolation level): a    *)
(* DELETE works on the rows committed when the statement starts, waits for *)
(* rows another transaction is deleting, and skips them if that commits.   *)
(* Serial ids are not given back by a rollback.                            *)
(***************************************************************************)
EXTENDS Integers, FiniteSets

CONSTANTS
    Workers,       \* ingest processes
    Books,         \* the corpus, numbered in discovery order
    ChunkCount,    \* chunks chunk_book yields for a book (it is deterministic)
    BatchSize,     \* UPSERT_BATCH_SIZE
    Plans,         \* the invocations an operator may issue to each process
    MaxRuns        \* bound: how many invocations are issued in all

NoBook == 0

PlanType ==
    [driver : {"cli", "corpus"}, resume : BOOLEAN, dry : BOOLEAN,
     books : SUBSET Books]

ASSUME BooksAssumption == Books \subseteq Nat \ {NoBook}
ASSUME ChunkCountAssumption == ChunkCount \in [Books -> Nat]
ASSUME BatchSizeAssumption == BatchSize \in Nat \ {0}
ASSUME PlansAssumption == Plans \in [Workers -> SUBSET PlanType]
ASSUME MaxRunsAssumption == MaxRuns \in Nat

VARIABLES
    bookRows,      \* Postgres: the books with a committed books row
    chunks,        \* Postgres: ids of the committed chunk rows of each book
    nextId,        \* Postgres: the serial sequence of chunks.id
    points,        \* Qdrant: ids of the points whose payload names the book
    pc,            \* where each process stands
    plan,          \* the arguments of its current or last invocation
    left,          \* the books that invocation has still to visit
    report,        \* the outcomes it has logged: <<book, status>>
    job,           \* the book in hand
    torn,          \* history: books whose ingest stopped after its commit
    runs           \* bound: invocations so far

stores == <<bookRows, chunks, nextId, points>>
vars == <<bookRows, chunks, nextId, points, pc, plan, left, report, job,
          torn, runs>>

Steps == {"idle", "next", "load", "begin", "delete", "lock", "insert",
          "commit", "qdelete", "upsert"}

Statuses == {"ok", "dry-run", "already_ingested", "error"}

(***************************************************************************)
(* The book in hand: its id, whether session.get(Book) found its row, the  *)
(* rows the transaction's DELETE is to remove, the first id its INSERT was *)
(* given and how many of its points have been upserted.                    *)
(***************************************************************************)
JobType ==
    [book : Books \cup {NoBook}, known : BOOLEAN, doomed : SUBSET Nat,
     first : Nat, sent : Nat]

NoJob == [book |-> NoBook, known |-> FALSE, doomed |-> {}, first |-> 0,
          sent |-> 0]

NoPlan == [driver |-> "cli", resume |-> FALSE, dry |-> FALSE, books |-> {}]

(* The ids of the rows w has inserted, in chunk order. *)
Ids(w) == job[w].first .. (job[w].first + ChunkCount[job[w].book] - 1)

(* The least book still to visit: the loops follow discovery order. *)
IsNext(w, b) == b \in left[w] /\ \A c \in left[w] : b <= c

Init ==
    /\ bookRows = {}
    /\ chunks = [b \in Books |-> {}]
    /\ nextId = 1
    /\ points = [b \in Books |-> {}]
    /\ pc = [w \in Workers |-> "idle"]
    /\ plan = [w \in Workers |-> NoPlan]
    /\ left = [w \in Workers |-> {}]
    /\ report = [w \in Workers |-> {}]
    /\ job = [w \in Workers |-> NoJob]
    /\ torn = {}
    /\ runs = 0

-------------------------------------------------------------------------------
(* The driver loops: run_ingest of the CLI, ingest_corpus of the service. *)

(* run_ingest with no matching book logs an error and returns at once. *)
StartRun(w) ==
    /\ pc[w] = "idle"
    /\ runs < MaxRuns
    /\ \E p \in Plans[w] :
        /\ p.driver = "cli" => p.books # {}
        /\ plan' = [plan EXCEPT ![w] = p]
        /\ left' = [left EXCEPT ![w] = p.books]
    /\ report' = [report EXCEPT ![w] = {}]
    /\ pc' = [pc EXCEPT ![w] = "next"]
    /\ runs' = runs + 1
    /\ UNCHANGED <<stores, job, torn>>

(* already_ingested looks for one chunk row in Postgres and nowhere else. *)
AlreadyIngested(b) == chunks[b] # {}

Skips(w, b) == plan[w].resume /\ ~plan[w].dry /\ AlreadyIngested(b)

SkipBook(w) ==
    /\ pc[w] = "next"
    /\ \E b \in left[w] :
        /\ IsNext(w, b)
        /\ Skips(w, b)
        /\ left' = [left EXCEPT ![w] = @ \ {b}]
        /\ report' = [report EXCEPT ![w] = @ \cup {<<b, "already_ingested">>}]
    /\ UNCHANGED <<stores, pc, plan, job, torn, runs>>

(* Mutant of TakeBook: ingest_book is entered with no book in hand. *)
TakeBookEmptyHanded(w) ==
    /\ pc[w] = "next"
    /\ \E b \in left[w] : left' = [left EXCEPT ![w] = @ \ {b}]
    /\ pc' = [pc EXCEPT ![w] = "load"]
    /\ UNCHANGED <<stores, plan, report, job, torn, runs>>

TakeBook(w) ==
    /\ pc[w] = "next"
    /\ \E b \in left[w] :
        /\ IsNext(w, b)
        /\ ~Skips(w, b)
        /\ left' = [left EXCEPT ![w] = @ \ {b}]
        /\ job' = [job EXCEPT ![w] = [NoJob EXCEPT !.book = b]]
    /\ pc' = [pc EXCEPT ![w] = "load"]
    /\ UNCHANGED <<stores, plan, report, torn, runs>>

FinishRun(w) ==
    /\ pc[w] = "next"
    /\ left[w] = {}
    /\ pc' = [pc EXCEPT ![w] = "idle"]
    /\ UNCHANGED <<stores, plan, left, report, job, torn, runs>>

(* ingest_book returned: its summary is logged and the loop goes on. *)
BookDone(w, status) ==
    /\ report' = [report EXCEPT ![w] = @ \cup {<<job[w].book, status>>}]
    /\ job' = [job EXCEPT ![w] = NoJob]
    /\ pc' = [pc EXCEPT ![w] = "next"]

-------------------------------------------------------------------------------
(* ingest_book *)

(* A dry run chunks, counts and returns. *)
DryRun(w) ==
    /\ pc[w] = "load"
    /\ plan[w].dry
    /\ BookDone(w, "dry-run")
    /\ UNCHANGED <<stores, plan, left, torn, runs>>

(* Chunking, ensure_collection and the embedding calls all went through. *)
Embed(w) ==
    /\ pc[w] = "load"
    /\ ~plan[w].dry
    /\ pc' = [pc EXCEPT ![w] = "begin"]
    /\ UNCHANGED <<stores, plan, left, report, job, torn, runs>>

(* _upsert_book: session.get(Book).  Autoflush is off, so the row itself is *)
(* written by the first flush, after the deletes.                           *)
BeginTx(w) ==
    /\ pc[w] = "begin"
    /\ job' = [job EXCEPT ![w].known = job[w].book \in bookRows]
    /\ pc' = [pc EXCEPT ![w] = "delete"]
    /\ UNCHANGED <<stores, plan, left, report, torn, runs>>

(* The DELETE starts: it is to remove the rows it sees committed now. *)
StartDelete(w) ==
    /\ pc[w] = "delete"
    /\ job' = [job EXCEPT ![w].doomed = chunks[job[w].book]]
    /\ pc' = [pc EXCEPT ![w] = "lock"]
    /\ UNCHANGED <<stores, plan, left, report, torn, runs>>

(* A row that another open transaction has deleted is waited for ... *)
HoldsRows(v) == pc[v] \in {"insert", "commit"}

Blocked(w) ==
    \E v \in Workers \ {w} :
        HoldsRows(v) /\ job[v].doomed \cap job[w].doomed # {}

(* ... and left out once that transaction has committed. *)
DeleteRows(w) ==
    /\ pc[w] = "lock"
    /\ ~Blocked(w)
    /\ job' = [job EXCEPT ![w].doomed = @ \cap chunks[job[w].book]]
    /\ pc' = [pc EXCEPT ![w] = "insert"]
    /\ UNCHANGED <<stores, plan, left, report, torn, runs>>

(* Another open transaction has inserted the same books row: an INSERT of  *)
(* it waits for that transaction to end.                                   *)
BookKeyHeld(w) ==
    \E v \in Workers \ {w} :
        /\ pc[v] = "commit"
        /\ job[v].book = job[w].book
        /\ ~job[v].known

(* Mutant of InsertRows: the sequence moves on only when rows are committed. *)
InsertRowsReusingIds(w) ==
    /\ pc[w] = "insert"
    /\ job[w].known \/ (~BookKeyHeld(w) /\ job[w].book \notin bookRows)
    /\ job' = [job EXCEPT ![w].first = nextId]
    /\ pc' = [pc EXCEPT ![w] = "commit"]
    /\ UNCHANGED <<stores, plan, left, report, torn, runs>>

(* Mutant of InsertRows: the points are upserted inside the transaction. *)
InsertRowsAndPublish(w) ==
    /\ pc[w] = "insert"
    /\ job[w].known \/ (~BookKeyHeld(w) /\ job[w].book \notin bookRows)
    /\ job' = [job EXCEPT ![w].first = nextId]
    /\ nextId' = nextId + ChunkCount[job[w].book]
    /\ points' = [points EXCEPT ![job[w].book] =
                    nextId .. (nextId + ChunkCount[job[w].book] - 1)]
    /\ pc' = [pc EXCEPT ![w] = "commit"]
    /\ UNCHANGED <<bookRows, chunks, plan, left, report, torn, runs>>

(* The flushes: the books row when it is new, the sections, the chunks;    *)
(* _build_points takes the ids the chunk rows were given.                  *)
InsertRows(w) ==
    /\ pc[w] = "insert"
    /\ job[w].known \/ (~BookKeyHeld(w) /\ job[w].book \notin bookRows)
    /\ job' = [job EXCEPT ![w].first = nextId]
    /\ nextId' = nextId + ChunkCount[job[w].book]
    /\ pc' = [pc EXCEPT ![w] = "commit"]
    /\ UNCHANGED <<bookRows, chunks, points, plan, left, report, torn, runs>>

(* Mutant of CommitTx: the old rows are not deleted. *)
CommitTxAppending(w) ==
    /\ pc[w] = "commit"
    /\ bookRows' = bookRows \cup {job[w].book}
    /\ chunks' = [chunks EXCEPT ![job[w].book] = @ \cup Ids(w)]
    /\ job' = [job EXCEPT ![w].doomed = {}]
    /\ pc' = [pc EXCEPT ![w] = "qdelete"]
    /\ UNCHANGED <<nextId, points, plan, left, report, torn, runs>>

CommitTx(w) ==
    /\ pc[w] = "commit"
    /\ bookRows' = bookRows \cup {job[w].book}
    /\ chunks' = [chunks EXCEPT
                    ![job[w].book] = (@ \ job[w].doomed) \cup Ids(w)]
    /\ job' = [job EXCEPT ![w].doomed = {}]
    /\ pc' = [pc EXCEPT ![w] = "qdelete"]
    /\ UNCHANGED <<nextId, points, plan, left, report, torn, runs>>

(* Mutant of DeletePoints: old points are trusted to be overwritten. *)
DeletePointsNever(w) ==
    /\ pc[w] = "qdelete"
    /\ pc' = [pc EXCEPT ![w] = "upsert"]
    /\ UNCHANGED <<stores, plan, left, report, job, torn, runs>>

(* _replace_qdrant_points: delete by book_id, then upsert in batches. *)
DeletePoints(w) ==
    /\ pc[w] = "qdelete"
    /\ points' = [points EXCEPT ![job[w].book] = {}]
    /\ pc' = [pc EXCEPT ![w] = "upsert"]
    /\ UNCHANGED <<bookRows, chunks, nextId, plan, left, report, job, torn,
                   runs>>

(* What a batch that starts after sent points ends at. *)
BatchEnd(w) ==
    IF job[w].sent + BatchSize <= ChunkCount[job[w].book]
    THEN job[w].sent + BatchSize
    ELSE ChunkCount[job[w].book]

(* Mutant of UpsertBatch: a last batch that is not full is forgotten. *)
UpsertFullBatchesOnly(w) ==
    /\ pc[w] = "upsert"
    /\ job[w].sent < ChunkCount[job[w].book]
    /\ points' = IF job[w].sent + BatchSize <= ChunkCount[job[w].book]
                 THEN [points EXCEPT ![job[w].book] =
                        @ \cup ((job[w].first + job[w].sent)
                                    .. (job[w].first + BatchEnd(w) - 1))]
                 ELSE points
    /\ job' = [job EXCEPT ![w].sent = BatchEnd(w)]
    /\ UNCHANGED <<bookRows, chunks, nextId, pc, plan, left, report, torn,
                   runs>>

UpsertBatch(w) ==
    /\ pc[w] = "upsert"
    /\ job[w].sent < ChunkCount[job[w].book]
    /\ points' = [points EXCEPT ![job[w].book] =
                    @ \cup ((job[w].first + job[w].sent)
                                .. (job[w].first + BatchEnd(w) - 1))]
    /\ job' = [job EXCEPT ![w].sent = BatchEnd(w)]
    /\ UNCHANGED <<bookRows, chunks, nextId, pc, plan, left, report, torn,
                   runs>>

FinishBook(w) ==
    /\ pc[w] = "upsert"
    /\ job[w].sent = ChunkCount[job[w].book]
    /\ BookDone(w, "ok")
    /\ torn' = torn \ {job[w].book}
    /\ UNCHANGED <<stores, plan, left, runs>>

-------------------------------------------------------------------------------
(* What goes wrong *)

Tear(w) ==
    torn' = IF pc[w] \in {"qdelete", "upsert"} THEN torn \cup {job[w].book}
                                               ELSE torn

(* Mutant of LeaveBook: ingest_corpus puts a failed book back in its queue. *)
LeaveBookForRetry(w) ==
    /\ Tear(w)
    /\ left' = [left EXCEPT ![w] = @ \cup {job[w].book}]
    /\ BookDone(w, "error")
    /\ UNCHANGED <<stores, plan, runs>>

(* An exception leaves ingest_book: an open transaction is rolled back.    *)
(* ingest_corpus logs it and goes on with the next book, the CLI lets it   *)
(* end the process.                                                        *)
LeaveBook(w) ==
    /\ Tear(w)
    /\ \/ plan[w].driver = "corpus" /\ BookDone(w, "error")
       \/ /\ plan[w].driver = "cli"
          /\ job' = [job EXCEPT ![w] = NoJob]
          /\ pc' = [pc EXCEPT ![w] = "idle"]
          /\ UNCHANGED report
    /\ UNCHANGED <<stores, plan, left, runs>>

(* A remote call or a file of the book fails. *)
Fail(w) ==
    /\ pc[w] \notin {"idle", "next"}
    /\ LeaveBook(w)

(* A failure that is certain: the books row did not exist when looked up  *)
(* and does by now, so that InsertRows cannot be taken.                    *)
BookConflict(w) ==
    /\ pc[w] = "insert"
    /\ ~job[w].known
    /\ ~BookKeyHeld(w)
    /\ job[w].book \in bookRows
    /\ LeaveBook(w)

(* The process dies, or already_ingested, which no driver guards, raises. *)
Crash(w) ==
    /\ pc[w] # "idle"
    /\ Tear(w)
    /\ job' = [job EXCEPT ![w] = NoJob]
    /\ pc' = [pc EXCEPT ![w] = "idle"]
    /\ UNCHANGED <<stores, plan, left, report, runs>>

-------------------------------------------------------------------------------
(* A step the process takes by itself once it has been started. *)
Step(w) ==
    \/ SkipBook(w)    \/ TakeBook(w)     \/ FinishRun(w)
    \/ DryRun(w)      \/ Embed(w)        \/ BeginTx(w)
    \/ StartDelete(w) \/ DeleteRows(w)   \/ InsertRows(w)
    \/ CommitTx(w)    \/ DeletePoints(w) \/ UpsertBatch(w)
    \/ FinishBook(w)

Next == \E w \in Workers : StartRun(w) \/ Step(w) \/ Fail(w) \/ Crash(w)

Spec == Init /\ [][Next]_vars

-------------------------------------------------------------------------------
(* Properties *)

TypeOK ==
    /\ bookRows \in SUBSET Books
    /\ chunks \in [Books -> SUBSET Nat]
    /\ nextId \in Nat
    /\ points \in [Books -> SUBSET Nat]
    /\ pc \in [Workers -> Steps]
    /\ plan \in [Workers -> PlanType]
    /\ left \in [Workers -> SUBSET Books]
    /\ report \in [Workers -> SUBSET (Books \X Statuses)]
    /\ job \in [Workers -> JobType]
    /\ \A w \in Workers : pc[w] \notin {"idle", "next"} => job[w].book \in Books
    /\ torn \in SUBSET Books
    /\ runs \in Nat

(***************************************************************************)
(* A search takes a point's id to the chunk row of that id and cites that  *)
(* row's book.  However many processes ingest, fail and are rolled back,   *)
(* an id never comes to stand for a row of another book than the one its   *)
(* point was filtered by: stale points resolve to their own row or none.   *)
(***************************************************************************)
IdsHaveOneOwner ==
    \A b, c \in Books :
        b # c => (chunks[b] \cup points[b]) \cap (chunks[c] \cup points[c]) = {}

(***************************************************************************)
(* No point exists for a row that is not committed: whatever a process     *)
(* still has in its transaction, a rollback can take back unseen.          *)
(***************************************************************************)
CommittedBeforePublished ==
    \A w \in Workers : pc[w] = "commit" =>
        \A b \in Books : Ids(w) \cap (chunks[b] \cup points[b]) = {}

(* No book can be selected by two processes. *)
Exclusive ==
    \A v, w \in Workers : v # w =>
        \A p \in Plans[v], q \in Plans[w] : p.books \cap q.books = {}

(***************************************************************************)
(* While no two processes work on the same book, a book logged as ok is    *)
(* searchable in full: its points are exactly its committed rows, also     *)
(* after later books failed or the process died.                           *)
(***************************************************************************)
OkMeansIndexed ==
    \A w \in Workers, b \in Books :
        <<b, "ok">> \in report[w] => points[b] = chunks[b]

(***************************************************************************)
(* While no two processes work on the same book, the two stores disagree   *)
(* about it only between its commit and its last batch, or because an      *)
(* ingest of it stopped there and none has completed since.                *)
(***************************************************************************)
GapExplained ==
    \A b \in Books : points[b] # chunks[b] =>
        \/ b \in torn
        \/ \E w \in Workers : pc[w] \in {"qdelete", "upsert"} /\ job[w].book = b

(***************************************************************************)
(* While no two processes work on the same book, what a search can return  *)
(* of it (points that have a row) changes as BookIndex says: edition by    *)
(* edition, never mixed and never taken back.                              *)
(***************************************************************************)
Searchable == [b \in Books |-> points[b] \cap chunks[b]]

Index == INSTANCE BookIndex WITH current <- chunks, searchable <- Searchable

IndexSpec == Index!Spec

(***************************************************************************)
(* Processes that work on the same books wait for each other's rows and    *)
(* for each other's books row, but never for ever.                         *)
(***************************************************************************)
RunsEnd == \A w \in Workers : pc[w] # "idle" ~> pc[w] = "idle"

(***************************************************************************)
(* "--resume: Skip books that already have chunks in Postgres (resume a    *)
(* crashed run)", cli.py:61: what a resumed run skips needs no ingest.     *)
(***************************************************************************)
SkippedIsIndexed ==
    \A w \in Workers, b \in Books :
        <<b, "already_ingested">> \in report[w] => points[b] = chunks[b]

(***************************************************************************)
(* "so re-ingesting never duplicates", pipeline.py:4: Postgres never has   *)
(* more chunk rows of a book than the book has chunks.                     *)
(***************************************************************************)
NeverDuplicates ==
    \A b \in Books : Cardinality(chunks[b]) <= ChunkCount[b]

===============================================================================
