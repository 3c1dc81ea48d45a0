---------------------------- MODULE MCSubmission ----------------------------
(* Calls a and b repeat each other; call c asks for the same work again     *)
(* under another key.                                                       *)
EXTENDS Submission, TLC

CONSTANTS a, b, c, k1, k2, t1, t2

Repeated == (a :> k1) @@ (b :> k1) @@ (c :> k2)
Pair     == (a :> k1) @@ (b :> k1)
OneTask  == <<t1>>
TwoTasks == <<t1, t2>>
=============================================================================
