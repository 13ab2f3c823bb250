------------------------------ MODULE EvalFiles ------------------------------
(***************************************************************************)
(* What the comparison commands of the evaluation share: the settings in   *)
(* force, the chunks both commands score (eval_chunks.jsonl) and the way a *)
(* command ends.  An operator runs one command after the other and may     *)
(* change the golden set, the corpus and the embedding backend in between. *)
(*                                                                         *)
(* Texts and vectors are told apart by what they were made from.  A set of *)
(* chunks is named by the golden set whose books were chunked, the edition *)
(* of the corpus and how much of the file is there.                        *)
(***************************************************************************)
EXTENDS Naturals, Sequences, FiniteSets

CONSTANTS
    Settings,     \* [golden : a set of queries, edition, backend]
    Supplied,     \* other chunk files for --chunks, written to their end
    MaxRuns       \* bound: commands run

ASSUME MaxRunsAssumption == MaxRuns \in Nat

VARIABLES
    setting,      \* the settings in force
    chunkFile,    \* what eval_chunks.jsonl holds
    command,      \* the command that runs
    outcome,      \* how far the last command came
    torn,         \* history: files that a death left half written
    runs

shared == <<setting, chunkFile, command, outcome, torn, runs>>

ChunkSet(part) ==
    [golden |-> setting.golden, edition |-> setting.edition, part |-> part]

NoChunks == [golden |-> {}, edition |-> 0, part |-> "missing"]

(* A file cut between two lines reads like a shorter one. *)
Readable(c) == c.part \in {"whole", "prefix"}

ASSUME SuppliedAssumption == \A c \in Supplied : Readable(c)

Chunks == <<"eval_chunks", "jsonl">>

Running == [kind |-> "running", file |-> Chunks]
Ended(kind, file) == [kind |-> kind, file |-> file]

FilesInit ==
    /\ setting \in Settings
    /\ chunkFile = NoChunks
    /\ command = "none" /\ outcome = Running
    /\ torn = {} /\ runs = 0

Begin(name) ==
    /\ command = "none" /\ runs < MaxRuns
    /\ command' = name /\ outcome' = Running /\ runs' = runs + 1
    /\ setting' \in Settings
    /\ UNCHANGED <<chunkFile, torn>>

End(kind, file) ==
    /\ command' = "none" /\ outcome' = Ended(kind, file)
    /\ UNCHANGED <<setting, runs>>

GoesOn == UNCHANGED <<setting, command, outcome, runs>>

=============================================================================
