------------------------------ MODULE WorkQueue ------------------------------
(***************************************************************************)
(* What the queue promises of a message, however many workers use it: it   *)
(* is enqueued only when it is not there, handed out again and again, each *)
(* time as the next attempt of this enqueue, and an attempt that is handed *)
(* out or deferred is not used again.  It may be handed out to a second    *)
(* worker while a first still has it, and be removed by any worker.        *)
(* DistributedQueue implements it.                                         *)
(***************************************************************************)
EXTENDS Integers

CONSTANTS Workers, Msgs,
          NoDelivery   \* what a worker has that has none

VARIABLES queued,  \* the messages that are in the queue
          round,   \* round[m]: how often m was enqueued
          count,   \* count[m]: the attempts of this round, 0 if m is not queued
          held     \* held[w]: the delivery worker w has

Init == /\ queued = {}
        /\ round = [m \in Msgs |-> 0]
        /\ count = [m \in Msgs |-> 0]
        /\ held  = [w \in Workers |-> NoDelivery]

Enqueue(m) ==
    /\ m \notin queued
    /\ queued' = queued \cup {m}
    /\ round' = [round EXCEPT ![m] = @ + 1]
    /\ UNCHANGED <<count, held>>

HandOut(w, m) ==
    /\ m \in queued /\ held[w] = NoDelivery
    /\ count' = [count EXCEPT ![m] = @ + 1]
    /\ held' = [held EXCEPT ![w] = [msg |-> m, gen |-> round[m], attempt |-> count[m] + 1]]
    /\ UNCHANGED <<queued, round>>

Defer(m) ==
    /\ m \in queued
    /\ count' = [count EXCEPT ![m] = @ + 1]
    /\ UNCHANGED <<queued, round, held>>

Remove(m) ==
    /\ queued' = queued \ {m}
    /\ count' = [count EXCEPT ![m] = 0]
    /\ UNCHANGED <<round, held>>

LayDown(w) ==
    /\ held' = [held EXCEPT ![w] = NoDelivery]
    /\ UNCHANGED <<queued, round, count>>

Next == \/ \E m \in Msgs : Enqueue(m) \/ Defer(m) \/ Remove(m)
        \/ \E w \in Workers : LayDown(w) \/ \E m \in Msgs : HandOut(w, m)

Spec == Init /\ [][Next]_<<queued, round, count, held>>
=============================================================================
