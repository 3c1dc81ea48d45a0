--------------------------- MODULE MCRunLifecycle ---------------------------
(* A run of two tasks and two workers.                                      *)
EXTENDS RunLifecycle, TLC

CONSTANTS w1, w2, ta, tb

TwoTasks == <<ta, tb>>
OneTask  == <<ta>>
=============================================================================
