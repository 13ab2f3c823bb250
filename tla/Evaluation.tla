------------------------------ MODULE Evaluation ------------------------------
(***************************************************************************)
(* The two comparison commands on one artifacts directory: chunks that     *)
(* compare-qwen-quant built are what compare-dense-models scores.  Both    *)
(* keep intermediate results in files to be able to go on after a failure, *)
(* and both have an option to make them anew.                              *)
(***************************************************************************)
EXTENDS QuantComparison, DenseComparison

EvalInit == FilesInit /\ quant = NoQuant /\ DenseInit

(* A command starts; what is in memory of the one before is gone. *)
EvalNext ==
    \/ /\ QuantStep
       /\ IF command = "none" THEN dense' = NoDense /\ report' = NoDense
                              ELSE UNCHANGED <<dense, report>>
       /\ UNCHANGED <<cache, prepared, renewed>>
    \/ /\ DenseStep
       /\ quant' = IF command = "none" THEN NoQuant ELSE quant

EvalSpec == EvalInit /\ [][EvalNext]_<<shared, quant, denseVars>>

Reported == report.stage # "none"

(***************************************************************************)
(* A comparison ranks the chunks it lists by vectors made of these chunks  *)
(* and has one for each golden query, whatever files earlier commands on   *)
(* other chunks or golden sets left.  Only the BM25 state of the           *)
(* bge-sparse stage may have been fitted on other chunks, and only if it   *)
(* was not to be made anew.                                                *)
(***************************************************************************)
CurrentVectors ==
    Reported => \A f \in Files :
        LET made == report.used[f] IN
        /\ made.texts \notin {NoChunks, report.texts} =>
                f = Encoder /\ report.stage = "bge-sparse" /\ ~ report.force
        /\ f \in QueryFiles /\ made # NoFile => report.golden \subseteq made.queries

(***************************************************************************)
(* One forced comparison is enough: as long as no command of another       *)
(* backend has touched the dense files since, every report, forced or not, *)
(* ranks by vectors of one backend, its own, although the files do not say *)
(* whose they are.  So for the BM25 state once a stage has fitted it, as   *)
(* long as no command has come to it on other chunks.  And the chunks that *)
(* --corpus-root scores are short only if a death cut the cache short;     *)
(* forced, they are all of the golden set and the corpus of now.  (A file  *)
(* named by --chunks is scored as it is, forced or not.)                   *)
(***************************************************************************)
FreshOnceForced ==
    /\ Reported => \A f \in Unmarked :
        LET made == report.used[f] IN
        made # NoFile /\ renewed[f] # <<>> =>
            Origin(f, made.texts, made.backend)
                = Origin(f, report.texts, report.backend)
    /\ quant.source = "corpus" /\ quant.rows # NoChunks =>
        /\ quant.rows.part # "whole" => Chunks \in torn
        /\ quant.force => quant.rows = ChunkSet("whole")

(***************************************************************************)
(* A command turns back before its work only for a file that a death cut   *)
(* short, and never for a cache it was told to make anew; a stage that     *)
(* builds on another misses a dense file only if that stage was not the    *)
(* last to complete these files, for the same chunks and golden set.       *)
(***************************************************************************)
RefusedForCause ==
    /\ outcome.kind = "unreadable" =>
        /\ outcome.file \in torn
        /\ outcome.file \in Files => ~ dense.force
    /\ outcome.kind = "stale" =>
        /\ dense.stage \in {"hybrid-bm25", "bge-sparse"} /\ ~ dense.force
        /\ prepared # <<dense.texts, dense.golden>>

(***************************************************************************)
(* A variant is recommended only on a measurement: it was loaded, and its  *)
(* vectors came near those of the very baseline the recommendation names,  *)
(* which ran too.  No candidate ever goes unverified while a baseline ran. *)
(***************************************************************************)
RecommendationGrounded ==
    quant.at = "done" =>
        LET v == quant.verdict
            rows == {quant.table[i] : i \in DOMAIN quant.table}
        IN  /\ v.kind # "unverified"
            /\ v.kind = "recommended" =>
                /\ v.winner # v.baseline
                /\ \E r \in rows : r.variant = v.baseline /\ r.ok
                /\ \E r \in rows :
                    /\ r.variant = v.winner /\ r.ok
                    /\ r.cosine = "near" /\ r.against = v.baseline
            /\ v.kind = "no baseline" =>
                \A r \in rows : r.ok => r.variant \notin Baselines

=============================================================================
