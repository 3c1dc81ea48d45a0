--------------------------- MODULE MCStepExecution ---------------------------
(* Runs of one task, or of two tasks of which the second depends on the     *)
(* first.                                                                   *)
EXTENDS StepExecution, TLC

CONSTANTS w1, w2, ta, tb

OneTask  == <<ta>>
TwoTasks == <<ta, tb>>
Alone    == ta :> {}
Chain    == (ta :> {}) @@ (tb :> {ta})
=============================================================================
