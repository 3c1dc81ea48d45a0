----------------------------- MODULE MCArtifact -----------------------------
(* Three calls at a time, one of which may die.                             *)
EXTENDS Artifact, TLC

CONSTANTS c1, c2, c3
=============================================================================
