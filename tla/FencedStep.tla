------------------------------ MODULE FencedStep ------------------------------
(***************************************************************************)
(* What the leases promise of a step, whoever executes it: it is handed    *)
(* out again and again, each time under a larger token, and at most one    *)
(* result is accepted under a token, while it is the last one handed out.  *)
(* StepExecution implements it.                                            *)
(***************************************************************************)
EXTENDS Integers

CONSTANTS Steps,   \* the steps of the run
          Tokens   \* positive numbers, what they can be handed out under

VARIABLES token,   \* token[s]: the last token s was handed out under, or 0
          result   \* result[s]: the token of the last result accepted, or 0

Init == /\ token  = [s \in Steps |-> 0]
        /\ result = [s \in Steps |-> 0]

HandOut(s) ==
    /\ \E n \in Tokens : n > token[s] /\ token' = [token EXCEPT ![s] = n]
    /\ UNCHANGED result

Accept(s) ==
    /\ result[s] < token[s]
    /\ result' = [result EXCEPT ![s] = token[s]]
    /\ UNCHANGED token

Next == \E s \in Steps : HandOut(s) \/ Accept(s)

Spec == Init /\ [][Next]_<<token, result>>
=============================================================================
