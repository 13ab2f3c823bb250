---------------------------- MODULE MCIngestion ----------------------------
(* Instances of Ingestion for TLC. *)
EXTENDS Ingestion, TLC

CONSTANTS w1, w2

TwoWorkers == {w1, w2}
OneWorker == {w1}

Invocation(driver, resume, dry, books) ==
    [driver |-> driver, resume |-> resume, dry |-> dry, books |-> books]

(* Book 1 takes two batches, book 2 one, book 3 has nothing to index. *)
ThreeBooks == 1..3
ThreeCounts == [b \in ThreeBooks |-> <<3, 1, 0>>[b]]

(* One process has books 1 and 3, in any manner; the other has book 2. *)
PartitionedPlans ==
    w1 :> {Invocation("cli", FALSE, FALSE, {1, 3}),
           Invocation("corpus", TRUE, FALSE, {1, 3}),
           Invocation("cli", TRUE, TRUE, {1})}
    @@ w2 :> {Invocation("cli", FALSE, FALSE, {2}),
              Invocation("corpus", FALSE, FALSE, {2})}

(* Both processes may take both books. *)
TwoBooks == 1..2
TwoCounts == [b \in TwoBooks |-> <<2, 1>>[b]]

OverlappingPlans ==
    w1 :> {Invocation("corpus", FALSE, FALSE, {1, 2})}
    @@ w2 :> {Invocation("cli", TRUE, FALSE, {1}),
              Invocation("cli", FALSE, FALSE, {1})}

(* A run over the corpus and a resumption of it. *)
ResumePlans ==
    w1 :> {Invocation("cli", FALSE, FALSE, {1, 2}),
           Invocation("cli", TRUE, FALSE, {1, 2})}

=============================================================================
