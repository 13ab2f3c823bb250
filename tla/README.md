# A verification of shamela-rag

TLA+ models, model checks and machine-checked proofs about the retrieval system
under `src/`: Arabic books are chunked and indexed into PostgreSQL and Qdrant, and
questions are answered from what is found there. Every definition is translated
from the code; `PROJECT.json` (`map`) names the lines each one stands for.

## 1. The system

| part | state it keeps | operations | talks to |
|---|---|---|---|
| ingestion (`ingestion/pipeline.py`, `cli.py ingest`) | none of its own: a run's selection and summaries | `ingest_book`, `ingest_corpus`, `already_ingested` | chunking, embedders, encoders, PostgreSQL, Qdrant |
| relational schema (`db/`) | `books`, `sections`, `chunks` with serial ids | transactions, READ COMMITTED, no explicit locks | ingestion writes, retrieval reads |
| vector store (`vectorstore/qdrant_store.py`) | one collection: a point per chunk row, id = row id | `ensure_collection`, `delete_by_filter`, `upsert` in batches, `search_*` | ingestion writes, retrieval reads |
| retrieval (`retrieval/service.py`) | one request: arms, candidates, degraded reasons, a deadline | translate, dense, sparse, root, fuse, hydrate, rerank, boost, expand | both stores, models |
| expansion, stable ids (`retrieval/expand.py`, `stable_ids.py`) | none | neighbours of a hit under a token cap; `shamela:book:page:ordinal` | PostgreSQL |
| ranking (`fusion.py`, `rerank.py`, `authority.py`) | none | reciprocal rank fusion, rerank, authority boost | - |
| sparse encoders (`embeddings/bm25.py`, `root_field.py`) | a vocabulary of term ids, kept in a JSON file | fit, encode, save, load | ingestion, retrieval, `build-bm25` |
| remote embedding (`embeddings/openrouter.py`) | a pool of threads with one shared pause | `embed_documents`: batches, retries, back-off | an HTTP service |
| chunking (`chunking/`) | none: a deterministic function of a book's files | sections, boundaries, sizes, overlap, merging, recovery | corpus readers |
| API and answers (`api/`, `generation/`) | the wired services, shared by the threads that answer | `/health`, `/retrieve`, `/ask` | retrieval, a translator, a generator |
| structural gate (`eval/structural.py`) | findings of a book | `validate_book` | chunking |
| comparison commands (`eval/qwen_quant.py`, `eval/model_ab.py`) | an artifacts directory: chunks, vectors, a BM25 state, reports | `compare-qwen-quant`, `compare-dense-models` | chunking, embedders |
| metrics, benchmark (`eval/metrics.py`, `benchmark.py`) | reports | recall, latency, size | retrieval, ingestion |

How they meet: **ingestion and retrieval share two stores and no lock**. A book's
rows are replaced in one PostgreSQL transaction, its points afterwards in several
Qdrant requests. A search goes the other way, points first, then rows in several
statements of their own. Any number of ingest processes and requests may run.

What is hard here, part by part, and what would make it right (the lines are under
`hazards` in `PROJECT.json`):

- *ingestion*: a death or an error between commit and last batch, rolled-back
  transactions whose ids were already drawn, several processes over one book,
  `--resume` judging by one of the two stores. Right means: an id never comes to
  name two books' text, nothing uncommitted is searchable, a book logged `ok` is
  searchable in full, a gap between the stores has a cause and an end, no run hangs.
- *retrieval under re-ingest*: rows that vanish between search, hydrate and
  expansion. Right means: text, citation and stable id always belong together, and
  what was dropped or skipped is said.
- *deadline*: it may pass between any two stages. Right means: what the response
  reports as skipped is what was skipped.
- *encoders*: term ids live in a file and in every stored sparse vector. Right means:
  a stored vector and a query mean the same term by the same id.
- *embedding pool*: any completion order, one shared pause. Right means: vectors in
  input order, bounded attempts, no starvation.
- *chunking*: overlap, limits and merges; headings found in three ways, some without
  prose. Right means: no word lost, pieces bounded, every chunk under its heading
  and in the row of its section, nothing for the structural gate to find.
- *collection set-up*: check-then-create by several processes. Right means: it is
  known who loses the race, and when a payload index stays missing.
- *API*: one service shared by threads, models that answer anything, passages that
  cannot be cited, tokens that cannot be compared. Right means: citations match the sources
  the generator saw, no model is asked in vain, and a status says what went wrong.
- *comparison commands*: caches that outlive a golden set, a corpus and a backend,
  and deaths while a file is written. Right means: a report is about the chunks it
  lists, one forced run settles whose the files are, a refusal has a cause.

## 2. Plan

| order | module | about | runs | proofs |
|---|---|---|---|---|
| 1 | `Ingestion`, `BookIndex` | the two stores under concurrent ingest and failure; abstract specification and refinement | 3 | `IngestionProofs`: all safety, the refinement |
| 2 | `Retrieval`, `SearchDuringIngest` | a request statement by statement while the index changes; the composition with real ingests | 2 | `RetrievalProofs`: all safety |
| 3 | `EmbeddingPool` | batches, threads, shared pause, retries | 1 | `EmbeddingPoolProofs`: all safety |
| 4 | `SparseTerms` | the term spaces of the two encoders across commands and restarts | 2 | `SparseTermsProofs`: both invariants |
| 5 | `Deployment` | ingestion that starts on an empty Qdrant | 1 | `DeploymentProofs`: implements `Ingestion`, the race, repair by one ingest |
| 6 | `Packing`, `Chunking`, `StructuralGate` | a book's text becomes chunks and rows; what the gate checks | 1 | `ChunkingProofs`: the packing, for every book; the gate, the headings, the sections |
| 7 | `Answering` | the server's start, the handlers, answers of models, citations | 1 | `AnsweringProofs`: all three invariants |
| 8 | `EvalFiles`, `QuantComparison`, `DenseComparison`, `Evaluation` | the comparison commands and their files | 1 | `EvaluationProofs`: all four invariants |

All are written. Every invariant of a passing run is a theorem. What remains open: a
proof that `Ingestion` is the environment `Retrieval` assumes (`IndexAsSearched`).

`SearchDuringIngest` EXTENDS `Ingestion` and INSTANCEs `Retrieval`; `Deployment`
EXTENDS `Ingestion`; `Chunking` EXTENDS `Packing` and `StructuralGate` extends it;
`Evaluation` conjoins its two commands over `EvalFiles`; the other modules stand
alone. No module declares a RECURSIVE operator.

## 3. The modules and the code

### Ingestion, BookIndex

`Ingestion.tla` is `ingestion/pipeline.py` (`ingest_book`, `ingest_corpus`,
`already_ingested`), the driver loop of `cli.py ingest` and the two writes of
`vectorstore/qdrant_store.py`. An ingest process `w` stands at `pc[w]`; each value
of it is the place before a statement or a remote call:

| `pc` | action | code |
|---|---|---|
| idle | `StartRun` | an operator starts a command of `Plans[w]` |
| next | `SkipBook`, `TakeBook`, `FinishRun` | the `for` loop, `--resume` |
| load | `DryRun`, `Embed` | chunk, encode and embed; `--dry-run` returns |
| begin, delete, lock, insert, commit | `BeginTx`, `StartDelete`, `DeleteRows`, `InsertRows`, `CommitTx` | `_write_postgres_and_build_points` |
| qdelete, upsert | `DeletePoints`, `UpsertBatch`, `FinishBook` | `_replace_qdrant_points` |
| any | `Fail`, `BookConflict`, `Crash` | an exception; the end of the process |

PostgreSQL is READ COMMITTED: `StartDelete` takes the snapshot of rows the DELETE is
to remove, `DeleteRows` waits while another transaction holds any of them and removes
those that are still there, `InsertRows` waits for another transaction's new row of
`books` (a unique key). Serial ids are drawn as one block by `InsertRows`, not given
back by a rollback. A chunk row is its id; the point of a row has the same id.

Left out, and why it does not matter here: the files of a book do not change (its
chunk count is a constant); sections are replaced with the chunk rows (two DELETE
statements are one step; the hazard this hides is listed: the later one also removes
sections that another ingest committed in between); `skipped_reason="missing_files"` is not
reached, `iter_valid_books` lists only complete books; a wait-for cycle PostgreSQL
breaks by itself is an instance of `Fail`; requests to Qdrant take effect before the
client's timeout or not at all, those of a dead process included; a root encoder is in
`SparseTerms`, creating the collection in `Deployment`. `BookConflict` is the one
failure that is certain (a process that found no row of the book meets one when it
inserts); `Next` has it as an instance of `Fail`, and `Deployment` owes it to the
process, since no other step is possible there. `torn`, and `report` until the process's next run, remember
the past; `runs` bounds how often an operator starts a command.

`BookIndex.tla` is what ingestion promises a searcher: an edition is replaced as a
whole, by ids never in use, then revealed bit by bit and not taken back. `IndexSpec`
maps `current` to the committed rows and `searchable` to the points that have a row.

### Deployment

`Deployment.tla` puts `ensure_collection` (`vectorstore/qdrant_store.py`), call by
call, before `Ingestion`'s `Embed`: `Look`, `Create` or `Refuse`, then `CreateIndex` for
each of three fields. `setup[w]` is where the process stands in it. `abandoned` and
`refused`, and for the repair of books `alone` and `whole`, are history: a book is
`whole` from the end of an ingest that no other ingest of the book overlapped until
the next one takes it.

### Retrieval, SearchDuringIngest

`Retrieval.tla` is one request: `retrieve_with_outcome` (`retrieval/service.py`), the
expander and stable ids, and the handlers `/retrieve` and `/ask` of `api/app.py`. The
step of a request is the stage it is before; every statement and every call of
Qdrant is an action of its own, because each sees what is committed by then. `Hydrate` and
`HydrateSections` are the two statements of `_hydrate`; for each hit, `LoadHit`,
`ReadSiblings` and `ReadOrdinal` are those of `expand` and `stable_chunk_id`. `Expire`
is the passing of the deadline of `/retrieve`, at any moment; the code looks at it
before sparse search, before reranking and at the end. `Fail` is any model or store
that raises, and `cause` what is raised (a `LookupError` for a missing row, the
`ValueError` that handlers map to 400, or other). A `ValueError` may come from any
stage that calls a model, and from the answer.

The environment (`Draw`, `Publish`, `DeletePoints`, `RevealPoints`) is ingestion as
seen from a search. It takes for granted that editions are replaced whole, which is
what exclusive ingests guarantee: `SearchDuringIngest.tla` runs the requests beside
`Ingestion`'s own actions and shows that each of its steps is one of that
environment (`IndexAsSearched`).

Abstractions: a search, a fusion and a rerank yield *some* set of at most so many
(scores are not modelled); one Qdrant query is one step; a book filter
stands for category and role filters; a row never changes once inserted, so that the
session's identity map is immaterial; `start_page_id` is always set (`chunk_book` sets
it); the root arm is a constant of the service; tokens of a chunk are a number.
Authorisation, "not ready" replies and what becomes of
passages are in `Answering`. `real` and `cause` are history.

### EmbeddingPool

One call of `OpenRouterEmbeddingProvider.embed_documents` (`embeddings/openrouter.py`).
Each batch goes queued, waiting, (sleeping, waiting)*, cleared, posted, and then done,
failed or waiting again. `Wait` is a look at the shared pause under its lock, `Post`
the request; nothing holds the pause still in between. `Signalled` is
`_SharedBackoff.signal`. Time is counted in seconds as what is left of a pause
or a sleep; `Tick` is the clock, and a thread may wake late. `Retry` stands for the
six status codes and `URLError`; `GiveUp` for those on the last attempt and for any
other exception on any attempt (a malformed reply, a plain `TimeoutError` while
reading). `Responses` is the service, which may list rows in any order or leave
`index` out. The caller is a process of its own: `Collect`, `CollectError`, `Leave`
(the end of the `with` block, which lets every queued batch be posted after a failure
and waits for all), `Return`. With one batch or `max_concurrency` 1 there is no pool
and nothing is posted after a failure; this is also `embed_query`.

`owed` (what is left of the delay a batch itself signalled) and `strays` (requests
begun during the current pause) are history.

### SparseTerms

The surface and the root encoder: in their files, in an ingest process and in a
server (`embeddings/bm25.py`, `root_field.py`, `cli.py`, `factory.py`). A term is a
number, ordered as terms are sorted; a vocabulary is a set of terms and `Id` a term's
place in it. A stored sparse vector is a set of numbers, each with the term it meant
when it was made (the code keeps the number alone). Weights are left out. Files are
written in place: `Build` and `StartSave` truncate, `FinishBuild` and `FinishSave`
complete, and a death in between leaves a file that ends every later command at its
start (`StartIngest` and `StartServer` need one that is whole). `SurfaceFor` and
`RootFor` are the choice of encoder in `ingest_book`: per book without a persisted
surface encoder; the root encoder fitted once, on the first book with chunks. One ingest process
at a time; `build-bm25` and servers run beside it. `build-bm25 --output` elsewhere
changes nothing modelled. A book's points are all there or none: fewer vectors confuse
no more than all. A book `--resume` skips is one that was not selected. The ingest of
`benchmark` is a run that does not save (`saves` is FALSE, `EndBenchmark`).
`perBook`, `refitted` and `unsaved` are history.

### Packing, Chunking, StructuralGate

`Packing.tla` is `split_section_offsets` (`chunking/sizing.py`) and
`merge_short_fragments` (`chunking/merge.py`) on one text, a step for each turn of
their loops: `Add`, `Split` and `Close` pack atoms into children, `Drop`, `Keep` and
`Join` make pieces of children. A text is the number of tokens before each of its
places. That `count_tokens` is additive at the places where the code cuts is
assumed (it counts words; cuts are at white space or at markup); an atom is at most
`AtomMax` long, which is `max_tokens` or, for one that was cut, the target and the rest of
a word. Nothing else bounds a piece: an overlap and a long atom together may exceed
`max_tokens`, and `PieceLimit` says by how much.

`Chunking.tla` is `chunk_book` around it: pages in the order of their id, the boundary
ladder (`INLINE_TOC` and `INLINE_TITLE` spans, else titles of the table of contents found
in the page, else the page's one entry, else paragraphs), segments, the trail, the
navigational ones left out, footnotes, and then `_insert_sections` and `_insert_chunks` of the pipeline.
A text is a sequence of units: a word, a paragraph or sentence break, a title span
with or without an id. What the model shows of the code and a reader may not expect:

- of two boundaries at one place only the last has a segment, so the trail of the
  first is never set, and a heading on a page without text sets none;
- a title span without `toc-` id starts a segment but leaves the trail as it is;
- a segment of fewer than `min_content_tokens` still sets the trail;
- footnotes take the trail the page's last segment left;
- sections with equal trails share the row that was inserted last (`TrailsDiffer` in
  `ChunksInTheirSection`).

Sorts are `Enumerate` and `Sorted`: which member of a set has so many before it; a stable sort of
a table of contents is one of its places. What a loop gathers over entries is a recursive function
(`Built`). `LibraryAssumption` says what a book's reader returns: ids, pages and tokens are numbers,
titles are lists of words; `None` is the number 0, which therefore is no `shamela_title_id`.

`StructuralGate.tla` is `validate_book` (`eval/structural.py`): its hard checks, with the
segment ranges it computes again in its own way. Soft findings are left out.

### Answering

`Answering.tla` is the server: what `create_app_from_settings` needs to start
(`Complete`), the doors of the handlers (token, service, body: `Refuse`, `Admit`),
translation, retrieval as any of `Findings`, `Items` for `/retrieve`, and
`AnswerAssembler` and the generators for `/ask`. `Answers` are the shapes a model's reply
may have, and `HasText`, `Unreadable` and `Verdict` what the clients and handlers make of
each. The thread pool of the framework, and the order in which it resolves
dependencies before the body, are external; a body that is not JSON at all, which is refused before
either, is left out. Two threads in the one `Llama` object: any outcome (`beside`).
A bearer token that is not ASCII, in the request or in the settings, is one that `compare_digest`
cannot compare (`Incomparable`): it raises a `TypeError`, and `/retrieve` ends with a plain 500, not
with 401. Retries are the client's. `assured`, `models`, `asked` and `cause` are history; `index`
is the collection as far as `/health` and a search can tell (status colours are not).

### EvalFiles, QuantComparison, DenseComparison, Evaluation

One command at a time on one artifacts directory; before each an operator may change
the golden set, the corpus edition and the backend (`Begin`). Chunks are told apart by
what they were made from. `QuantComparison.tla` is `compare-qwen-quant`: its texts are those of a
file (`--chunks`), of the cache of the output directory (`--corpus-root`: reused or built) or the
probe texts; variants are measured, baselines first, then scored on the golden queries if there are
chunks, and `build_recommendation` ends it. `--force-rechunk` reaches the cache alone: with `--chunks`
or without either option it is accepted and does nothing (`TakesFile`).
`DenseComparison.tla` is `compare-dense-models`: `Work` lists what a stage goes through, and
each file is reused, refused or made anew (`Reuse`, `Refuse`, `Compute`, `Save`). Caches
are named by model, not by backend; a fingerprint ties them to chunk texts, and nothing ties
the BM25 state to anything. Documents and queries of different backends may have
vectors of different lengths, which ends a command while it scores (`ScoringFails`).
Abstractions: similarity is near or far; scores and ranking are left out, as is the
sampling of `--max-chunks`; other chunk files are `Supplied`. Commands that end before they read
anything are left out: an option that misses its `--golden`, a download or an embedder that fails.
`torn`, `prepared` and `renewed` are history: files a death left half written, what the dense
files were last seen complete for, and what the files that do not tell were made with by the last
report that made them anew, until a command that would make them otherwise comes to them.

## 4. The runs

| run | instance | question |
|---|---|---|
| `ingest_partitioned` | two processes, three books (3, 1, 0 chunks), batches of 2, disjoint selections, both drivers, resume and dry runs, 3 commands | are the stores right at every moment, after any failure? |
| `ingest_overlapping` | `Deployment`: an empty Qdrant, both processes over the same books, 3 commands, a dry run among them | who loses the race, when does an index stay missing, does one ingest repair what overlapping ones left, does every run end? |
| `ingest_resume` (violation) | a run and its resumption | is what `--resume` skips searchable? |
| `ingest_duplicates` (violation) | as overlapping | does re-ingesting never duplicate? |
| `retrieval_reindex` | one request over two books, of which one is re-ingested; one candidate per arm, two after fusion, one neighbour on either side | does what is returned belong together, and is the report true? |
| `search_during_ingest` | two ingests beside a request | is ingestion the environment of `Retrieval`; is every request answered? |
| `embedding_pool` | 7 texts in 4 batches (the last not full) on 2 threads, 3 attempts, delays capped at 2 | order, pauses, attempts, errors, the end |
| `sparse_terms` | three books (two share a term each numbers differently, one empty), 4 commands | what "once" buys, what a lost root encoder costs |
| `sparse_refit` (violation) | as before, book by book | does every book share the query's term space? |
| `chunking` | all books of two pages with twelve bodies each, three kinds of footnotes, seven tables of contents, with and without a root | are words lost, pieces too long, chunks in another section, findings left for the gate? |
| `evaluation` | three commands, two settings to change between, a supplied chunk file, two selections of variants | what is a report made of, how long is one forced comparison worth something, why does a command turn back? |
| `answering` | two requests, two starts of a server under three configurations, one of them with a token that is not ASCII, every shape of a model's answer | do citations match, is a model asked in vain, does a status have its cause? |

**Why the bounds are enough.** Ingestion: properties relate two processes, an edition
and the one before it, and a book and another, so two processes, three commands, and
books with two batches, one batch and none reach each of them; larger
instances repeat the same steps, and the proofs remove the bound for what they cover.
Retrieval: requests share nothing, so one is enough; two editions give one change
between any two statements, and the layout has what expansion tells apart: a section of four
chunks on three pages, of which the second is kept with both neighbours, the third has them too and
loses one to the cap, the last is cut down to itself; a footnote that sorts before the body of
its page, chunks outside of sections. `BoundedReindex` lets one of the two books
change while the request is in progress and stops the environment once it is answered. Pool: four batches on two threads let one wait, one post and two queue;
three attempts reach the cap of the delay. Sparse terms: four commands are two builds
and two ingests, in any order. Chunking: bodies of up to eleven units with words of one and two
tokens against a limit of 4, a target of 3 and an overlap of 1 make texts that fit, are
packed, carry an overlap or none, and are joined; the tables of contents have an entry found in the page, not
found, ambiguous, out of order, nested, with an unknown parent and with equal trails; two
pages let a trail go on. Evaluation: three commands are one that leaves a
file, one that meets it under other settings, and one after a death. Answering: two
requests are two threads in one model; two starts let a request be lost.

Runs do not check deadlock, but for `chunking`, where a book that is stored rests and any
other stop would be one: elsewhere an operator may start nothing, and a request or call that
has been answered is over. That things come to an end is asked as liveness.

**Fairness.** `FairDeploySpec`: weak fairness of a running process's own steps
(the loop goes on unless it dies), with the refusals of Qdrant and of the books key among them; starting a command, other failures and dying are never
owed. A wait for a lock ends because the step that releases it is owed to its holder.
`FairSearchSpec`: weak fairness of a request's own steps, none for ingestion: a
request waits for no lock. `EmbeddingPool!FairSpec`: time passes, threads of the pool
run, the caller runs; which of `Retry`, `Succeed` and `GiveUp` ends a request is free, that one does is
the request timeout (`timeout=self._timeout_seconds`). Nothing is strongly fair.

**What the passing runs show.** `IdsHaveOneOwner`: a stale point never leads to another
book's text, whatever overlaps. `CommittedBeforePublished`: nothing that can be rolled
back is searchable. `OkMeansIndexed`, `GapExplained`: with disjoint selections, the
log can be believed, and the stores differ only inside the window of an ingest or
after one that stopped there. `IndexSpec`: refinement of `BookIndex`. `IndexesExplained`, `FewRefused`: what the race for an
empty Qdrant costs. `OneIngestRepairs`: however broken the stores are for a book, one
undisturbed ingest of it mends both. `RunsEnd`: no wait lasts.
`StableIdsHold`: citations are those of the book at rest although the row and its page
are two statements. `FilterHonoured`: a filter on payloads binds rows. `PassagesWhole`:
an expansion mixes no editions and has no hole. `TrailsComplete`:
no passage without its section's title. `LookupFailsExplained`: a request fails on a missing row
only for a re-ingest during it. `ReportTrue`: degraded reasons name what was skipped.
`PieceLimit`, `LittleShared`, `NothingLost`: packing bounds pieces and overlaps and loses no word;
`PackSpec`: `chunk_book` drives it as `Packing` lets it be driven. `GatePasses`: the hard checks of
the gate cannot fail. `HeadingsKept`, `ChunksInTheirSection`: with the exceptions named above, a
chunk's trail is the nearest heading's and its row the section's. `AnswersItsSources`,
`NothingInVain`, `VerdictExplained`: what a client may conclude from a reply; 400 is not only the
client's fault, a 502 comes before any passage, and a 500 of `/retrieve` is a passage with a field missing or
a token that cannot be compared. `CurrentVectors`, `FreshOnceForced`,
`RefusedForCause`, `RecommendationGrounded`: what a comparison's report may be trusted for; only the
BM25 state of an unforced `bge-sparse` may be of other chunks, and one forced run settles what
the files do not say until a command of another backend or on other chunks comes to them. The pool's
properties and those of the encoders are stated in their modules.

The pool of one thread (`max_concurrency` 1, or one batch) has no run of its own; the
theorems about the pool hold for it too.

**Where code and documentation part** (`findings`): `--resume` skips a book whose
points were never written; overlapping ingests of one book leave its rows twice;
building and ingesting book by book leaves earlier books in a term space the query
service does not use.

## 5. The proofs

Eight modules of proofs are checked by TLAPS, for any number of processes, books,
chunks, batches, threads, retries, requests and configurations, and for every text. They assume what the
modules' ASSUMEs say of the constants and nothing else, but that `Workers` is finite where
processes are counted. (`PowersAssumption` is
arithmetic the prover has no rule for; TLC evaluates it.)

*Ids.* `IdsHaveOneOwner` alone is not inductive: a commit makes ids visible that were
drawn earlier. `IdInv` adds that ids in use are below the sequence (`BelowSequence`)
and that the ids of an open transaction or an unfinished upsert belong to one process
and are stored for its book only (`OwnIds`). Most steps are `Quiet` (they store
nothing and draw nothing) and need one lemma; InsertRows, CommitTx and the two
steps of Qdrant have one each.

*Disjoint selections.* Assuming `Exclusive`, `ExclusiveInv` says of each process what
it has selected and reported (`Itinerary`) and what it knows of its book at each `pc`
(`Progress`: between snapshot and commit the doomed rows are the book's rows; while
upserting, the points are the first so many of its ids). A step leaves other
processes and other books alone (`Frame`), so the invariant has to be shown for
the acting process and its book only. `OkIsIndexed` and `GapsExplained` follow, and
`ImplementsIndex`: commits map to `Replace`, batches to `Reveal`, all else stutters.
Without `Exclusive` these are false: `ingest_duplicates` shows it.

*The pool.* `PoolInv` has seven conjuncts. Backing off: the shared pause covers what
every batch still owes (`PauseKept`), and a batch is cleared only when the pause is over.
Strays: while a pause lasts, cleared batches and strays together are fewer than threads
(`StraysKept`), for the thread that signalled was busy and not cleared, and
clearing needs the pause to be over. The end: without a pool no batch has begun beyond
one that is not done (`InOrder`), with one `Leave` waits, so `Busy` is empty in both.
The order of the vectors: in a stable sort of the rows, the place of a row is its index,
or its place in the list if no row has one (`SortsBy`, `RowsInOrder`), so a batch's vectors
are those of its texts (`VectorsKept`), and the batches joined one after the other are
all texts (`JoinsInOrder`). FlattenSeq is a recursive function: the joined beginnings satisfy its
equation, and what satisfies it agrees with them, or there would be a least place where
it does not (`LeastNumber`: the library's induction theorems take an operator, the one that says
a set has a minimal element does not).

*Retrieval.* No lock holds rows still for a request, so its properties rest on what a commit
cannot do. `IndexInv`: the committed rows of a book are one whole edition, numbered
without a gap from its first id. A row a request has seen is committed or
`Gone`, that is, replaced by an edition already drawn, and what is `Gone` stays so
(`ReindexKeeps`). Hence a candidate without its trail is `Gone`, its lookup fails,
and the passage is never returned; and a hit that is still on its page has there exactly the
chunks it has in the book at rest: `OrdinalAtRest` maps places to ids one to one. `Sound` says of a
request what its step implies (`Searched`, `Rowed`, `Cited`, `Reported`). What the extent of a
passage rests on is in `PartsInv`: the siblings a request reads are a whole section or
none of it. The token cap is a recursive function; it exists because what cutting comes to can
be given as a set (`Cuts`, `CapEquation`), and what it keeps of a run (`CapKeeps`) follows from
a smallest run of which that is false.

*Deployment.* `DeploysIngestion`: a step of `Deployment` is one of `Ingestion` or leaves it alone,
whoever is refused failing as any book may; so what is proved of ids holds from an empty Qdrant
on. `RaceInv` counts: refusals so far and processes about to create are together
fewer than processes once the collection exists, since its creator is neither. `AloneInv`:
a process that has been alone with its book so far knows of it what `Progress` says, whatever
the book was before it began (`ProgressKept`, the lemma about disjoint selections, asks no more than
that), so its last step finds rows and points equal.

*Packing.* `PieceLimit` needs to know of the atoms at hand (`current` is within an atom and an
overlap), of the children (each is, neighbours share at most an overlap, and together
they leave out only white space) and of the pieces, of which the last may still grow: its
`count` counts an overlap twice and so is never less than its true length, which is
what keeps a joined piece within the limit. `BookPacked` shows that a step of `Chunking` is one
of `Packing` or leaves the packing alone; `NothingLost` of every text of every book
follows. Loading a text requires it to be well-formed (`WellFormed`); that `AtomCuts` makes
no other is what the deadlock check of the run `chunking` shows, not the proof. So the theorems
about chunks are about what chunk_book has made when it comes to its end.

*The chunks of a book.* `BookInv` says where `chunk_book` is (`PlaceInv`: the pages read are the first
ones; `PageInv`: what is left of a page are the last of its segments) and, for the segments
done so far (`Emitted`), what their chunks are. `GatePasses`: a chunk stands in one segment with prose
(`ChunkInv`) with the trail of all chunks of that segment (`SameTrail`), every word of such a
segment is covered (`CoverInv`: `NothingLost` when the segment was packed, and no piece is empty,
`PiecesSolid`), and the segments are just the ranges that the gate computes in its own way
(`RangesAreSegments`, `SegmentsWhole`). `HeadingsKept`: the trail is what the last heading passed has
left, if it stands alone at its place (`TrailInv`, `LeftBy`); it must be said of `trail` itself and not
only of chunks, since headings without prose and ends of pages hand it on. `ChunksInTheirSection`:
a trail that an entry set is that of its section (`UnderInv`), and `Rows` has each section once
(`Enumerated`), so if trails differ the row with that trail is the section's (`StoredRight`). The lemmas
about data come from least counterexamples (`LeastNumber`): what a text adds up to, that
`Built` has a section for each entry in order, that a finite strict order enumerates a set.

*Answering.* `AnswerInv` says of each request what its step implies (`Sound`: at "generate" the prompt
and the citations are those of its passages, at "generating" one question was asked, at the
end the reply has its cause; a 500 at the door has a token that is not ASCII in the request or in
a configuration), of those that came after `/health` said ok (`Assured`)
and of the server (`ServerSound`). All but `Ask` and `Stop` change one record; these two
change several, `Ask` only their `beside`.

*The encoders.* A stored vector is made of pairs of a number and its term; `Numbered(T)` are
those an encoder with vocabulary T makes, and no two share a number (`NeverConfused`). `SurfaceInv`:
with the encoder fitted once and first, all that is in use has the file's vocabulary.
`RootInv`: a run took its root encoder from the file, or fitted it itself, and then `fresh` has
every book it numbered so.

*Comparison commands.* `QuantInv` and `DenseInv` are about one command each; a step of the other
leaves them alone, but that both share the chunks. For a recommendation the order of measurement is what
matters: baselines are first in what is left (`Queue`), so the first baseline that
ran precedes every candidate that ran, and each row was compared with it (`Table`). For a
refusal it is what was completed: on its way to a report a stage has each dense file
ahead of it or complete (`Ahead`, `Complete`), and `prepared` names what they are complete
for (`Preparing`); a file is cut short while it is saved, or is in `torn` (`CutForCause`).
What one forced run is worth is `RenewalInv`: what a command has of a file in memory is what is on disk,
but for the file it is saving (`OnDisk`); and a file that `renewed` names is, on disk when whole, in memory
and in the last report, of the origin it was renewed with, which is that of every command on its way to it,
since one of another origin struck it from `renewed` when it started (`Relied`).
`SuppliedAssumption`: other chunk files are read to their end.

*Model-checked only.* Liveness (`RunsEnd`, `CallEnds`, `AnsweredDuringIngest`), which
the prover cannot do; and `IndexAsSearched`, that `Ingestion` is the environment `Retrieval`
assumes, whose two sides are proved each alone.

## 6. Not modelled

- Text: normalisation, prompts, context headers, the mapping of JSON fields, look-up
  tables (domain routing, roots, authority), the layout of reports.
- Ranking: scores, their order and boosts. What a request may do with any order of
  candidates is in `Retrieval`.
- Metrics and the sums of the benchmark: arithmetic on a ranked list or on measurements.
- The inside of model libraries and the loading of models; `generate_stream`, which
  no handler calls; `FULL_SECTION` expansion and `resolve_stable_chunk_id`, likewise.
- Heading-recovery candidates and confidence counts, which only feed statistics.
- Requests of a dead process that reach Qdrant late; two comparison commands at once
  in one directory; two ingest processes with root encoders of their own.

`components` in `PROJECT.json` has each part with its status.
