----------------------------- MODULE MCDeployment -----------------------------
(* An instance of Deployment for TLC: two processes that may take the same  *)
(* books.                                                                   *)
EXTENDS Deployment, TLC

CONSTANTS w1, w2

TwoWorkers == {w1, w2}
TwoBooks == 1..2
TwoCounts == [b \in TwoBooks |-> <<2, 1>>[b]]

Invocation(driver, resume, dry, books) ==
    [driver |-> driver, resume |-> resume, dry |-> dry, books |-> books]

(* Both may take book 1; the second also in a dry run. *)
OverlappingPlans ==
    w1 :> {Invocation("corpus", FALSE, FALSE, {1, 2})}
    @@ w2 :> {Invocation("cli", TRUE, FALSE, {1}),
              Invocation("cli", TRUE, TRUE, {1})}
=============================================================================
