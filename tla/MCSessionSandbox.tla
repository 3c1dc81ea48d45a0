-------------------------- MODULE MCSessionSandbox --------------------------
(* Calls for the sandbox of a session, one call that archives it, and        *)
(* requests of the user.                                                     *)
EXTENDS SessionSandbox, TLC

CONSTANTS c1, c2, a1, q1, q2

\* Requests are interchangeable.
AnyRequest == Permutations(Requests)
=============================================================================
