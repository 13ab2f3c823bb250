--------------------------- MODULE DenseComparison ---------------------------
(***************************************************************************)
(* compare-dense-models: the stages dense-only, hybrid-bm25, both and      *)
(* bge-sparse over one set of chunks and one golden set.  Vectors are      *)
(* cached in files of the output directory that later commands take up;    *)
(* a file says which chunk texts it was made from (their fingerprint), but *)
(* not which backend made it, and the BM25 state says neither.             *)
(*                                                                         *)
(* Files are written in place: from the moment one is opened until its     *)
(* last byte it cannot be read.                                            *)
(***************************************************************************)
EXTENDS EvalFiles

VARIABLES
    cache,      \* the files of the output directory
    dense,      \* the command's arguments and where it stands
    report,     \* the last report it wrote
    prepared,   \* history: what the dense files were last seen complete for
    renewed     \* history: what each file was made of by the report that renewed it

denseVars == <<cache, dense, report, prepared, renewed>>

DenseOf(model) == <<<<model, "docs">>, <<model, "queries">>>>
LearnedSparse == <<<<"bge-m3", "sparse_docs">>, <<"bge-m3", "sparse_queries">>>>
Encoder == <<"bm25", "state">>
Write(stage) == <<stage, "report">>

DenseFiles == {<<m, k>> : m \in {"bge-m3", "qwen3"}, k \in {"docs", "queries"}}
QueryFiles == {<<"bge-m3", "queries">>, <<"qwen3", "queries">>,
               <<"bge-m3", "sparse_queries">>}
Files == DenseFiles \union {LearnedSparse[1], LearnedSparse[2], Encoder}

(* Nothing in these files tells what they were made with. *)
Unmarked == DenseFiles \union {Encoder}

Stages == {"dense-only", "hybrid-bm25", "both", "bge-sparse"}

(* What a stage goes through, file by file. *)
Work(stage) ==
    LET both == DenseOf("bge-m3") \o DenseOf("qwen3")
        first == Append(both, Write("dense-only"))
        second == both \o <<Encoder, Write("hybrid-bm25")>>
    IN  CASE stage = "dense-only" -> first
          [] stage = "hybrid-bm25" -> second
          [] stage = "both" -> first \o second
          [] stage = "bge-sparse" ->
                DenseOf("bge-m3") \o LearnedSparse \o <<Encoder, Write(stage)>>

NoFile == [state |-> "missing", texts |-> NoChunks, queries |-> {}, backend |-> "none"]

NoDense == [stage |-> "none", force |-> FALSE, texts |-> NoChunks, golden |-> {},
            backend |-> "none", todo |-> <<>>, saving |-> FALSE,
            used |-> [f \in Files |-> NoFile]]

DenseInit ==
    /\ cache = [f \in Files |-> NoFile]
    /\ dense = NoDense /\ report = NoDense /\ prepared = <<>>
    /\ renewed = [f \in Unmarked |-> <<>>]

(* What a file does not tell: the backend of vectors, the chunks of a state. *)
Origin(f, texts, backend) ==
    IF f = Encoder THEN <<texts, "local">> ELSE <<NoChunks, backend>>
Due(f) == Origin(f, dense.texts, dense.backend)

ToDo == {dense.todo[i] : i \in DOMAIN dense.todo}

Busy == command = "dense" /\ dense.todo # <<>>
File == Head(dense.todo)

(* Settings are read once; the golden set and the chunks at the start.  A  *)
(* command of another backend, or on other chunks, may mix in files of its *)
(* own: from now on nobody can rely on the earlier renewal.                *)
StartDense ==
    /\ Begin("dense")
    /\ \E stage \in Stages, force \in BOOLEAN,
          texts \in ({chunkFile} \ {NoChunks}) \union Supplied :
        dense' = [NoDense EXCEPT
            !.stage = stage, !.force = force, !.texts = texts,
            !.golden = setting'.golden, !.backend = setting'.backend,
            !.todo = Work(stage)]
    /\ report' = NoDense
    /\ renewed' = [f \in Unmarked |->
            IF f \in ToDo' /\ renewed[f] # Due(f)' THEN <<>> ELSE renewed[f]]
    /\ UNCHANGED <<cache, prepared>>

(* A cut line, or no row to rank at all: the chunks do not load. *)
RefuseTexts ==
    /\ command = "dense" /\ ~ Readable(dense.texts)
    /\ dense' = NoDense
    /\ End("unreadable", Chunks)
    /\ UNCHANGED <<chunkFile, torn, cache, report, prepared, renewed>>

Working == Busy /\ Readable(dense.texts) /\ ~ dense.saving

-------------------------------------------------------------------------------
(* _prepare_dense_caches, _prepare_bge_sparse_caches and the BM25 state *)

(* Mutant of Consulted: --force-reembed only lifts the demand for a cache. *)
ConsultedAlways(f) ==
    cache[f].state # "missing" /\ (f = Encoder => dense.stage = "bge-sparse")

(* Is the file read at all?  Stage 2 always fits its encoder anew. *)
Consulted(f) ==
    /\ cache[f].state # "missing" /\ ~ dense.force
    /\ f = Encoder => dense.stage = "bge-sparse"

(* Mutant of Matches: as many chunks are taken for the same chunks. *)
MatchesInNumber(f) ==
    /\ f # Encoder => cache[f].texts.part = dense.texts.part
    /\ f \in QueryFiles => dense.golden \subseteq cache[f].queries

(* The fingerprint and the queries of a cache fit; the encoder has none. *)
Matches(f) ==
    /\ f # Encoder => cache[f].texts = dense.texts
    /\ f \in QueryFiles => dense.golden \subseteq cache[f].queries

Usable(f) == Consulted(f) /\ cache[f].state = "whole" /\ Matches(f)
Unreadable(f) == Consulted(f) /\ cache[f].state = "cut"

(* require_dense_cache; stage both makes its own. *)
Required(f) ==
    f \in DenseFiles /\ dense.stage \in {"hybrid-bm25", "bge-sparse"} /\ ~ dense.force

Reuse ==
    /\ Working /\ File \in Files /\ Usable(File)
    /\ dense' = [dense EXCEPT !.used[File] = cache[File], !.todo = Tail(@)]
    /\ GoesOn /\ UNCHANGED <<chunkFile, torn, cache, report, prepared, renewed>>

Refuse ==
    /\ Working /\ File \in Files /\ ~ Usable(File)
    /\ Unreadable(File) \/ Required(File)
    /\ End(IF Unreadable(File) THEN "unreadable" ELSE "stale", File)
    /\ UNCHANGED <<chunkFile, torn, denseVars>>

Made(f) ==
    [state |-> "whole", texts |-> dense.texts,
     queries |-> IF f \in QueryFiles THEN dense.golden ELSE {},
     backend |-> IF f \in DenseFiles THEN dense.backend ELSE "local"]

(* The vectors are there and the file is opened. *)
Compute ==
    /\ Working /\ File \in Files
    /\ ~ (Usable(File) \/ Unreadable(File) \/ Required(File))
    /\ dense' = [dense EXCEPT !.used[File] = Made(File), !.saving = TRUE]
    /\ cache' = [cache EXCEPT ![File].state = "cut"]
    /\ prepared' = IF File \in DenseFiles THEN <<>> ELSE prepared
    /\ GoesOn /\ UNCHANGED <<chunkFile, torn, report, renewed>>

(* Mutant of Save: a file that was there before is left as it was. *)
SaveUnlessThere ==
    /\ Busy /\ dense.saving
    /\ cache' = [cache EXCEPT ![File] =
            IF @.texts = NoChunks THEN dense.used[File] ELSE [@ EXCEPT !.state = "whole"]]
    /\ dense' = [dense EXCEPT !.saving = FALSE, !.todo = Tail(@)]
    /\ torn' = torn \ {File}
    /\ GoesOn /\ UNCHANGED <<chunkFile, report, prepared, renewed>>

Save ==
    /\ Busy /\ dense.saving
    /\ cache' = [cache EXCEPT ![File] = dense.used[File]]
    /\ dense' = [dense EXCEPT !.saving = FALSE, !.todo = Tail(@)]
    /\ torn' = torn \ {File}
    /\ GoesOn /\ UNCHANGED <<chunkFile, report, prepared, renewed>>

(* An embedding call raises: "comparison failed". *)
ComputeFails ==
    /\ Working /\ File \in Files
    /\ ~ (Usable(File) \/ Unreadable(File) \/ Required(File))
    /\ End("failed", File)
    /\ dense' = NoDense
    /\ UNCHANGED <<chunkFile, torn, cache, report, prepared, renewed>>

(* Documents and queries of different backends may differ in length. *)
ScoringFails ==
    /\ Working /\ File \notin Files
    /\ \E model \in {"bge-m3", "qwen3"} :
        dense.used[<<model, "docs">>].backend # dense.used[<<model, "queries">>].backend
    /\ End("failed", File)
    /\ dense' = NoDense
    /\ UNCHANGED <<chunkFile, torn, cache, report, prepared, renewed>>

(* Is the file of the report one that was bound to be made anew? *)
Renewed(f) ==
    /\ dense.used[f] # NoFile
    /\ dense.force \/ (f = Encoder /\ dense.stage # "bge-sparse")

(* Scoring and the artifacts of a stage; stage both goes on after its first. *)
WriteReport ==
    /\ Working /\ File \notin Files
    /\ report' = [dense EXCEPT !.todo = <<>>]
    /\ prepared' = IF dense.stage = "bge-sparse" THEN prepared
                   ELSE <<dense.texts, dense.golden>>
    /\ renewed' = [f \in Unmarked |-> IF Renewed(f) THEN Due(f) ELSE renewed[f]]
    /\ IF Len(dense.todo) = 1
       THEN dense' = NoDense /\ End("ok", File)
       ELSE dense' = [dense EXCEPT !.todo = Tail(@), !.used = NoDense.used] /\ GoesOn
    /\ UNCHANGED <<chunkFile, torn, cache>>

DenseDies ==
    /\ command = "dense"
    /\ torn' = IF dense.saving THEN torn \union {File} ELSE torn
    /\ dense' = NoDense
    /\ End("died", Chunks)
    /\ UNCHANGED <<chunkFile, cache, report, prepared, renewed>>

DenseStep ==
    \/ StartDense \/ RefuseTexts \/ Reuse \/ Refuse \/ Compute \/ Save
    \/ ComputeFails \/ ScoringFails \/ WriteReport \/ DenseDies

=============================================================================
