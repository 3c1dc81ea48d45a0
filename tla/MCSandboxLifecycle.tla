------------------------- MODULE MCSandboxLifecycle -------------------------
(* Two requests that kick the hibernation of a session, a chat and a request *)
(* of the user.                                                              *)
EXTENDS SandboxLifecycle

CONSTANTS r1, r2, q1
=============================================================================
