----------------------------- MODULE SparseTerms -----------------------------
(***************************************************************************)
(* The term spaces of the two sparse arms.  A stored sparse vector names   *)
(* terms by number; the numbers are given by an encoder that lives in a    *)
(* file, in an ingest process and in a server, each with a copy of its     *)
(* own.  Nothing in a stored vector or in the file says which encoder made *)
(* the vector.                                                             *)
(*                                                                         *)
(* Files are written in place (Path.write_text): between the truncation    *)
(* and the last byte they hold nothing that can be loaded.                 *)
(***************************************************************************)
EXTENDS Naturals, FiniteSets

CONSTANTS
    Books,
    Terms,         \* surface terms of the chunks of each book, none if no chunks
    Roots,         \* their roots in the dictionary
    Selections,    \* the selections an operator gives to a command
    RootEnabled,   \* root_expansion_enabled
    MaxRuns        \* bound: commands run, build-bm25 and ingest together

ASSUME TermsAssumption ==
    /\ Terms \in [Books -> SUBSET Nat] /\ Roots \in [Books -> SUBSET Nat]
    /\ \A b \in Books : Terms[b] = {} => Roots[b] = {}
    /\ Selections \subseteq SUBSET Books
    /\ RootEnabled \in BOOLEAN /\ MaxRuns \in Nat

VARIABLES
    bm25File,    \* bm25_state.json
    rootFile,    \* root_expansion_state.json
    stored,      \* the sparse vectors of each book's points
    builder,     \* the build-bm25 process
    run,         \* the ingest process
    server,      \* the encoders of the query service
    runs,
    perBook,     \* history: an ingest ran without a persisted encoder
    refitted,    \* history: the encoder was refitted after its first use
    unsaved      \* history: books whose root encoder no file holds yet

vars == <<bm25File, rootFile, stored, builder, run, server, runs, perBook,
          refitted, unsaved>>

Absent == [state |-> "absent", terms |-> {}]
Broken == [state |-> "broken", terms |-> {}]
Whole(T) == [state |-> "whole", terms |-> T]

Encoder(fitted, T) == [fitted |-> fitted, terms |-> T]
Unfitted == Encoder(FALSE, {})

(* Where an encoder comes from: a file that is there, or nowhere. *)
Loaded(file) ==
    IF file.state = "whole" THEN Encoder(TRUE, file.terms) ELSE Unfitted

Id(T, t) == Cardinality({u \in T : u < t})

(* Mutant of Encode: terms are numbered as they come in the document. *)
EncodeByDocument(T, D) == {<<Id(T \cap D, t), t>> : t \in T \cap D}

(* encode_document: terms outside of the vocabulary are dropped.  The term *)
(* is kept beside its number to see what the number once meant.            *)
Encode(T, D) == {<<Id(T, t), t>> : t \in T \cap D}

NoVectors == [surface |-> {}, root |-> {}]

IdleRun == [step |-> "idle", saves |-> FALSE, left |-> {}, surface |-> Unfitted,
            root |-> Unfitted, fresh |-> {}]

Init ==
    /\ bm25File = Absent /\ rootFile = Absent
    /\ stored = [b \in Books |-> NoVectors]
    /\ builder = [step |-> "idle", terms |-> {}]
    /\ run = IdleRun
    /\ server = [up |-> FALSE, surface |-> {}, root |-> {}]
    /\ runs = 0
    /\ perBook = FALSE /\ refitted = FALSE /\ unsaved = {}

InUse == run.step # "idle" \/ server.up \/ \E b \in Books : stored[b] # NoVectors

-------------------------------------------------------------------------------
(* build-bm25 *)

(* Fitting a corpus without any chunk is an error and writes nothing. *)
Build(S) ==
    /\ builder.step = "idle"
    /\ runs < MaxRuns
    /\ \E b \in S : Terms[b] # {}
    /\ builder' = [step |-> "writing", terms |-> UNION {Terms[b] : b \in S}]
    /\ bm25File' = Broken
    /\ refitted' = (refitted \/ InUse)
    /\ runs' = runs + 1
    /\ UNCHANGED <<rootFile, stored, run, server, perBook, unsaved>>

FinishBuild ==
    /\ builder.step = "writing"
    /\ bm25File' = Whole(builder.terms)
    /\ builder' = [step |-> "idle", terms |-> {}]
    /\ UNCHANGED <<rootFile, stored, run, server, runs, perBook, refitted, unsaved>>

DieBuilding ==
    /\ builder.step = "writing"
    /\ builder' = [step |-> "idle", terms |-> {}]
    /\ UNCHANGED <<bm25File, rootFile, stored, run, server, runs, perBook,
                   refitted, unsaved>>

-------------------------------------------------------------------------------
(* ingest *)

(* Mutant of StartIngest: the root encoder always starts anew. *)
StartIngestUnfitted(S, saves) ==
    /\ run.step = "idle"
    /\ runs < MaxRuns
    /\ S # {}
    /\ bm25File.state # "broken"
    /\ RootEnabled => rootFile.state # "broken"
    /\ run' = [step |-> "ingesting", saves |-> saves, left |-> S,
               surface |-> Loaded(bm25File), root |-> Unfitted, fresh |-> {}]
    /\ perBook' = (perBook \/ bm25File.state = "absent")
    /\ runs' = runs + 1
    /\ UNCHANGED <<bm25File, rootFile, stored, builder, server, refitted, unsaved>>

(* _build_service: a file that cannot be loaded ends the command at once.  *)
(* The benchmark ingests its sample with a service built the same way.     *)
StartIngest(S, saves) ==
    /\ run.step = "idle"
    /\ runs < MaxRuns
    /\ S # {}
    /\ bm25File.state # "broken"
    /\ RootEnabled => rootFile.state # "broken"
    /\ run' = [step |-> "ingesting", saves |-> saves, left |-> S,
               surface |-> Loaded(bm25File),
               root |-> IF RootEnabled THEN Loaded(rootFile) ELSE Unfitted,
               fresh |-> {}]
    /\ perBook' = (perBook \/ bm25File.state = "absent")
    /\ runs' = runs + 1
    /\ UNCHANGED <<bm25File, rootFile, stored, builder, server, refitted, unsaved>>

(* The encoders of ingest_book: without a persisted encoder each book is   *)
(* fitted on its own chunks; an unfitted root encoder is fitted on the     *)
(* first book with chunks and serves all books after it.                   *)
SurfaceFor(b) == IF run.surface.fitted THEN run.surface.terms ELSE Terms[b]

RootFor(b) ==
    IF ~RootEnabled \/ run.root.fitted \/ Terms[b] = {} THEN run.root
    ELSE Encoder(TRUE, Roots[b])

IngestBook(b) ==
    /\ run.step = "ingesting"
    /\ b \in run.left
    /\ LET fresh == IF run.fresh # {} \/ RootFor(b) # run.root
                    THEN run.fresh \cup {b} ELSE {}
       IN  /\ run' = [run EXCEPT !.left = @ \ {b}, !.root = RootFor(b),
                                 !.fresh = fresh]
           /\ unsaved' = IF fresh = {} THEN unsaved \ {b} ELSE unsaved \cup {b}
    /\ stored' = [stored EXCEPT ![b] =
                    [surface |-> Encode(SurfaceFor(b), Terms[b]),
                     root |-> Encode(RootFor(b).terms, Roots[b])]]
    /\ UNCHANGED <<bm25File, rootFile, builder, server, runs, perBook, refitted>>

(* The benchmark goes on to measure and saves no encoder, fitted or not. *)
EndBenchmark ==
    /\ run.step = "ingesting"
    /\ run.left = {}
    /\ ~run.saves
    /\ run' = IdleRun
    /\ UNCHANGED <<bm25File, rootFile, stored, builder, server, runs, perBook,
                   refitted, unsaved>>

(* The end of run_ingest: a fitted root encoder is saved, new or not. *)
StartSave ==
    /\ run.step = "ingesting"
    /\ run.left = {}
    /\ run.saves
    /\ IF RootEnabled /\ run.root.fitted
       THEN /\ run' = [run EXCEPT !.step = "saving"]
            /\ rootFile' = Broken
       ELSE run' = IdleRun /\ UNCHANGED rootFile
    /\ UNCHANGED <<bm25File, stored, builder, server, runs, perBook, refitted,
                   unsaved>>

FinishSave ==
    /\ run.step = "saving"
    /\ rootFile' = Whole(run.root.terms)
    /\ run' = IdleRun
    /\ unsaved' = unsaved \ run.fresh
    /\ UNCHANGED <<bm25File, stored, builder, server, runs, perBook, refitted>>

(* A book fails, which ends the command, or the process dies: perhaps when *)
(* the points of the book were already deleted.                            *)
DieIngesting ==
    /\ run.step # "idle"
    /\ run' = IdleRun
    /\ \/ UNCHANGED stored
       \/ \E b \in run.left : stored' = [stored EXCEPT ![b] = NoVectors]
    /\ UNCHANGED <<bm25File, rootFile, builder, server, runs, perBook, refitted,
                   unsaved>>

-------------------------------------------------------------------------------
(* The query service *)

StartServer ==
    /\ ~server.up
    /\ bm25File.state = "whole"
    /\ RootEnabled => rootFile.state = "whole"
    /\ server' = [up |-> TRUE, surface |-> bm25File.terms, root |-> rootFile.terms]
    /\ UNCHANGED <<bm25File, rootFile, stored, builder, run, runs, perBook,
                   refitted, unsaved>>

StopServer ==
    /\ server.up
    /\ server' = [up |-> FALSE, surface |-> {}, root |-> {}]
    /\ UNCHANGED <<bm25File, rootFile, stored, builder, run, runs, perBook,
                   refitted, unsaved>>

Next ==
    \/ \E S \in Selections : Build(S)
    \/ \E S \in Selections, saves \in BOOLEAN : StartIngest(S, saves)
    \/ FinishBuild \/ DieBuilding
    \/ \E b \in Books : IngestBook(b)
    \/ EndBenchmark \/ StartSave \/ FinishSave \/ DieIngesting
    \/ StartServer \/ StopServer

Spec == Init /\ [][Next]_vars

-------------------------------------------------------------------------------
(* Properties *)

(* A query for a term of T reaches a vector that meant another term. *)
Confused(T, V) == \E t \in T, v \in V : Id(T, t) = v[1] /\ t # v[2]

(***************************************************************************)
(* "so every book shares one sparse term space that matches the query-time *)
(* encoder" (bm25_fit.py:4-5), with the runbook's "once": if the encoder   *)
(* is fitted before it is first used and not again, no query term is taken *)
(* for another, whatever dies, is ingested again or is restarted.          *)
(***************************************************************************)
FitOnceSuffices ==
    ~perBook /\ ~refitted /\ server.up =>
        \A b \in Books : ~Confused(server.surface, stored[b].surface)

(***************************************************************************)
(* The same without the "once", as README.md:90-91 has it done for a book: *)
(* build-bm25, then ingest.  Done for a second book it fails the first.    *)
(***************************************************************************)
SharedTermSpace ==
    ~perBook /\ server.up =>
        \A b \in Books : ~Confused(server.surface, stored[b].surface)

(***************************************************************************)
(* The saved root encoder tells what a stored root vector means, except    *)
(* for books of a run that fitted it and ended before it was saved, or was *)
(* a benchmark, which never saves it.                                      *)
(***************************************************************************)
RootLossExplained ==
    rootFile.state = "whole" =>
        \A b \in Books \ unsaved : ~Confused(rootFile.terms, stored[b].root)

=============================================================================
