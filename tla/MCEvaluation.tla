---------------------------- MODULE MCEvaluation ----------------------------
(* An instance of Evaluation for TLC: the golden set grows and the corpus    *)
(* and the backend change, or change back, between commands.                 *)
EXTENDS Evaluation

CONSTANTS q1, q2

TwoSettings ==
    {[golden |-> {q1}, edition |-> 1, backend |-> "local"],
     [golden |-> {q1, q2}, edition |-> 2, backend |-> "openrouter"]}

OneSupplied == {[golden |-> {q2}, edition |-> 1, part |-> "whole"]}

(* With both baselines, of which the first may not load; with none. *)
HostSelections ==
    {{"fp16-baseline", "int8", "gguf-q8-baseline"}, {"int4", "gguf"}}
=============================================================================
