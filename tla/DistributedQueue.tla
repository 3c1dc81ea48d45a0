-------------------------- MODULE DistributedQueue --------------------------
(***************************************************************************)
(* The at-least-once work queue of packages/workflow/distributed-store.ts  *)
(* (class DistributedQueue), driven by the workers of worker.ts and by     *)
(* DistributedDurableRuntime.reconcile.                                    *)
(*                                                                         *)
(* The queue has no lock.  It lives in three kinds of keys of a shared     *)
(* key-value backend, and every operation is a sequence of backend calls,  *)
(* each of them atomic and nothing around them:                            *)
(*    qvisible            one list of message ids (variable visible)       *)
(*    qmeta[m]            the message, absent once acked     (meta)        *)
(*    qinflight[w, m]     worker w has claimed m             (inflight)    *)
(* A step of the model is one backend call, or several of one process      *)
(* between which no other process can tell the difference.                 *)
(*                                                                         *)
(* A message id is a run id: there is at most one work message per run.    *)
(* Time is abstract: a message is due or not, and Timeout makes it due.    *)
(* gen tells one enqueued message from a later one with the same id (the   *)
(* code: enqueuedAt), attempt counts the claims and retries of it.         *)
(*                                                                         *)
(* A definition X_Y is X with the bug Y; the specification does not use    *)
(* it.                                                                     *)
(***************************************************************************)
EXTENDS Integers, Sequences

CONSTANTS Workers,      \* worker processes: they claim, work, ack or retry
          Reconcilers,  \* processes that run reconcile()
          Msgs,         \* run ids, which are the message ids
          MaxGen,       \* bound: how often one message id is enqueued
          MaxAttempt,   \* bound: claims and retries of one enqueued message
          Mortal,       \* processes that may die
          NoMsg         \* no message

ASSUME QueueAssumption ==
    /\ Workers \cap Reconcilers = {}
    /\ NoMsg \notin Msgs
    /\ Mortal \subseteq Workers \cup Reconcilers
    /\ MaxGen \in Nat /\ MaxAttempt \in Nat

Procs == Workers \cup Reconcilers

Meta == [gen : 0 .. MaxGen, attempt : 0 .. MaxAttempt, due : BOOLEAN]
NoMeta == [gen |-> 0, attempt |-> 0, due |-> FALSE]
Delivery == [msg : Msgs \cup {NoMsg}, gen : 0 .. MaxGen, attempt : 0 .. MaxAttempt]
NoDelivery == [msg |-> NoMsg, gen |-> 0, attempt |-> 0]

VARIABLES
    active,     \* runs the durable store has in a non-terminal state
    meta,       \* meta[m]: the qmeta record of m, gen = 0 when the key is absent
    lastGen,    \* lastGen[m]: how often m has been enqueued
    visible,    \* the qvisible list
    inflight,   \* inflight[w]: the messages with a qinflight key of worker w
    pc,         \* pc[p]: what process p does next
    msg,        \* msg[p]: the message process p is busy with
    seenMeta,   \* seenMeta[p]: the meta record p has read
    seenList,   \* seenList[p]: the qvisible list p has read
    todo,       \* todo[p]: what p's loop still has to visit
    drop,       \* drop[p]: entries p's repair still has to prune
    again,      \* again[w]: worker w re-enqueues the run after its ack
    delivery    \* delivery[w]: what claim() returned to worker w

shared == <<active, meta, lastGen, visible, inflight>>
local  == <<pc, msg, seenMeta, seenList, todo, drop, again, delivery>>
vars   == <<active, meta, lastGen, visible, inflight,
            pc, msg, seenMeta, seenList, todo, drop, again, delivery>>

Locations == {"idle", "scan", "claim", "register", "work", "ack", "delMeta",
              "unlist", "unlistCas", "requeue", "append", "retryRead",
              "retryCas", "retryKeys", "retryClear", "repairList",
              "revisible", "prune", "pruneCas", "dead"}

TypeOK ==
    /\ active \subseteq Msgs
    /\ meta \in [Msgs -> Meta]
    /\ lastGen \in [Msgs -> 0 .. MaxGen]
    /\ visible \in Seq(Msgs)
    /\ inflight \in [Workers -> SUBSET Msgs]
    /\ pc \in [Procs -> Locations]
    /\ msg \in [Procs -> Msgs \cup {NoMsg}]
    /\ seenMeta \in [Procs -> Meta]
    /\ seenList \in [Procs -> Seq(Msgs)]
    /\ todo \in [Procs -> SUBSET (Msgs \cup Workers)]
    /\ drop \in [Procs -> SUBSET Msgs]
    /\ again \in [Workers -> BOOLEAN]
    /\ delivery \in [Workers -> Delivery]

Present(m) == meta[m].gen > 0
Listed(m)  == \E i \in DOMAIN visible : visible[i] = m
Entries(list) == {list[i] : i \in DOMAIN list}

\* The list without the entries that are m (a recursive function: SelectSeq has no
\* definition to reason about).
Without(list, m) ==
    LET kept[i \in 0 .. Len(list)] ==
          IF i = 0 THEN <<>>
          ELSE IF list[i] = m THEN kept[i - 1] ELSE Append(kept[i - 1], list[i])
    IN  kept[Len(list)]

(***************************************************************************)
(* The state left by submit(): the runs are saved in the store, none of    *)
(* them is enqueued yet.                                                   *)
(***************************************************************************)
Init ==
    /\ active = Msgs
    /\ meta = [m \in Msgs |-> NoMeta]
    /\ lastGen = [m \in Msgs |-> 0]
    /\ visible = <<>>
    /\ inflight = [w \in Workers |-> {}]
    /\ pc = [p \in Procs |-> "idle"]
    /\ msg = [p \in Procs |-> NoMsg]
    /\ seenMeta = [p \in Procs |-> NoMeta]
    /\ seenList = [p \in Procs |-> <<>>]
    /\ todo = [p \in Procs |-> {}]
    /\ drop = [p \in Procs |-> {}]
    /\ again = [w \in Workers |-> FALSE]
    /\ delivery = [w \in Workers |-> NoDelivery]

Goto(p, l) == pc' = [pc EXCEPT ![p] = l]

-----------------------------------------------------------------------------
(* claim(workerId, 1, visibilityTimeoutMs)                                 *)

\* claim reads the visible list.
ScanList(w) ==
    /\ pc[w] = "idle"
    /\ visible # <<>>
    /\ seenList' = [seenList EXCEPT ![w] = visible]
    /\ Goto(w, "scan")
    /\ UNCHANGED <<shared, msg, seenMeta, todo, drop, again, delivery>>

\* The loop of claim visits the next entry: no meta or not due, skip it;
\* at the end of the list claim returns nothing.
ScanEntry(w) ==
    /\ pc[w] = "scan"
    /\ \/ /\ seenList[w] = <<>>
          /\ Goto(w, "idle")
          /\ UNCHANGED <<msg, seenMeta, seenList>>
       \/ /\ seenList[w] # <<>>
          /\ seenList' = [seenList EXCEPT ![w] = Tail(@)]
          /\ LET m == Head(seenList[w]) IN
             \/ /\ Present(m) /\ meta[m].due
                /\ meta[m].attempt < MaxAttempt
                /\ msg' = [msg EXCEPT ![w] = m]
                /\ seenMeta' = [seenMeta EXCEPT ![w] = meta[m]]
                /\ Goto(w, "claim")
             \/ /\ ~(Present(m) /\ meta[m].due /\ meta[m].attempt < MaxAttempt)
                /\ UNCHANGED <<pc, msg, seenMeta>>
    /\ UNCHANGED <<shared, todo, drop, again, delivery>>

Unchanged_Blind(p) == TRUE

\* cas() on the meta key succeeds when the record is the one that was read.
Unchanged(p) ==
    /\ meta[msg[p]].gen = seenMeta[p].gen
    /\ meta[msg[p]].attempt = seenMeta[p].attempt

\* A claim and a retry both count one more attempt.
Bumped_Twice(p, due) == [seenMeta[p] EXCEPT !.attempt = @ + 2, !.due = due]
Bumped_NoCount(p, due) == [seenMeta[p] EXCEPT !.due = due]

Bumped(p, due) == [seenMeta[p] EXCEPT !.attempt = @ + 1, !.due = due]

\* claim takes the message with a cas on its meta: one more attempt, invisible
\* until the visibility timeout.  When the cas is lost the loop goes on.
ClaimMeta(w) ==
    /\ pc[w] = "claim"
    /\ \/ /\ Unchanged(w)
          /\ meta' = [meta EXCEPT ![msg[w]] = Bumped(w, FALSE)]
          /\ Goto(w, "register")
          /\ UNCHANGED seenMeta
       \/ /\ ~Unchanged(w)
          /\ Goto(w, "scan")
          /\ seenMeta' = [seenMeta EXCEPT ![w] = NoMeta]
          /\ UNCHANGED meta
    /\ UNCHANGED <<active, lastGen, visible, inflight, msg, seenList, todo, drop,
                   again, delivery>>

\* claim records the claim under this worker's inflight key.  If the key is
\* still there from an earlier claim, the message is not returned.
Register(w) ==
    /\ pc[w] = "register"
    /\ \/ /\ msg[w] \notin inflight[w]
          /\ inflight' = [inflight EXCEPT ![w] = @ \cup {msg[w]}]
          /\ delivery' = [delivery EXCEPT ![w] =
                            [msg     |-> msg[w],
                             gen     |-> seenMeta[w].gen,
                             attempt |-> seenMeta[w].attempt + 1]]
          /\ seenList' = [seenList EXCEPT ![w] = <<>>]
          /\ Goto(w, "work")
       \/ /\ msg[w] \in inflight[w]
          /\ Goto(w, "scan")
          /\ UNCHANGED <<inflight, delivery, seenList>>
    /\ seenMeta' = [seenMeta EXCEPT ![w] = NoMeta]
    /\ UNCHANGED <<active, meta, lastGen, visible, msg, todo, drop, again>>

-----------------------------------------------------------------------------
(* processOne between claim and the release of the message                 *)

\* The run is terminal, or this cycle makes it so: ack, nothing to re-enqueue.
Finish(w) ==
    /\ pc[w] = "work"
    /\ active' = active \ {msg[w]}
    /\ again' = [again EXCEPT ![w] = FALSE]
    /\ Goto(w, "ack")
    /\ UNCHANGED <<meta, lastGen, visible, inflight, msg, seenMeta, seenList,
                   todo, drop, delivery>>

\* A step is completed and others remain: ack, then enqueue the run again.  A
\* step that failed for good is acked without the second part.
Progress(w) ==
    /\ pc[w] = "work"
    /\ \E b \in BOOLEAN : again' = [again EXCEPT ![w] = b]
    /\ Goto(w, "ack")
    /\ UNCHANGED <<shared, msg, seenMeta, seenList, todo, drop, delivery>>

\* Nothing runnable, lease lost, commit rejected or the executor threw: retry.
PutBack(w) ==
    /\ pc[w] = "work"
    /\ Goto(w, "retryRead")
    /\ UNCHANGED <<shared, msg, seenMeta, seenList, todo, drop, again, delivery>>

-----------------------------------------------------------------------------
(* ack(ref, workerId)                                                      *)

\* What processOne does once ack has returned, whatever ack returned.
AfterAck(w) ==
    /\ again' = [again EXCEPT ![w] = FALSE]
    /\ \/ again[w]  /\ Goto(w, "requeue") /\ todo' = [todo EXCEPT ![w] = {msg[w]}]
       \/ ~again[w] /\ Goto(w, "idle") /\ UNCHANGED todo

\* get, cas to the acked sentinel and del of this worker's inflight key, the
\* only thing ack asks for: without the key, ack fails.
AckTake(w) ==
    /\ pc[w] = "ack"
    /\ \/ /\ msg[w] \in inflight[w]
          /\ inflight' = [inflight EXCEPT ![w] = @ \ {msg[w]}]
          /\ Goto(w, "delMeta")
          /\ UNCHANGED <<todo, again>>
       \/ /\ msg[w] \notin inflight[w]
          /\ AfterAck(w)
          /\ UNCHANGED inflight
    /\ delivery' = [delivery EXCEPT ![w] = NoDelivery]
    /\ UNCHANGED <<active, meta, lastGen, visible, msg, seenMeta, seenList, drop>>

\* del of the meta key, whichever record is under it by now.
AckDelMeta(w) ==
    /\ pc[w] = "delMeta"
    /\ meta' = [meta EXCEPT ![msg[w]] = NoMeta]
    /\ Goto(w, "unlist")
    /\ UNCHANGED <<active, lastGen, visible, inflight, msg, seenMeta, seenList,
                   todo, drop, again, delivery>>

\* removeVisible reads the list ...
AckUnlist(w) ==
    /\ pc[w] = "unlist"
    /\ \/ /\ Listed(msg[w])
          /\ seenList' = [seenList EXCEPT ![w] = visible]
          /\ Goto(w, "unlistCas")
          /\ UNCHANGED <<todo, again>>
       \/ /\ ~Listed(msg[w])
          /\ AfterAck(w)
          /\ UNCHANGED seenList
    /\ UNCHANGED <<shared, msg, seenMeta, drop, delivery>>

\* ... and writes it back without the message if nobody changed it; nobody
\* looks at the result, so a lost cas leaves a ghost entry behind.
AckUnlistCas(w) ==
    /\ pc[w] = "unlistCas"
    /\ visible' = IF visible = seenList[w] THEN Without(visible, msg[w])
                                           ELSE visible
    /\ seenList' = [seenList EXCEPT ![w] = <<>>]
    /\ AfterAck(w)
    /\ UNCHANGED <<active, meta, lastGen, inflight, msg, seenMeta, drop, delivery>>

-----------------------------------------------------------------------------
(* enqueue(ref, payload), called by a worker after its ack and by reconcile *)

NextLocation(p) == IF p \in Workers THEN "idle" ELSE "requeue"

\* cas() from the absent key creates the meta only where there is none.
Creatable_Blindly(m) == lastGen[m] < MaxGen
Creatable(m) == ~Present(m) /\ lastGen[m] < MaxGen

\* The caller takes the next run of its list.  A terminal run and a message
\* that exists already are left alone; otherwise the meta key is created.
EnqueueMeta(p) ==
    /\ pc[p] = "requeue"
    /\ \/ /\ todo[p] = {}
          /\ Goto(p, "idle")
          /\ UNCHANGED <<meta, lastGen, msg, todo>>
       \/ \E m \in todo[p] :
          /\ todo' = [todo EXCEPT ![p] = @ \ {m}]
          /\ \/ /\ m \notin active \/ ~Creatable(m)
                /\ Goto(p, NextLocation(p))
                /\ UNCHANGED <<meta, lastGen, msg>>
             \/ /\ Creatable(m)
                /\ lastGen' = [lastGen EXCEPT ![m] = @ + 1]
                /\ meta' = [meta EXCEPT ![m] =
                              [gen |-> lastGen[m] + 1, attempt |-> 0, due |-> TRUE]]
                /\ msg' = [msg EXCEPT ![p] = m]
                /\ Goto(p, "append")
    /\ UNCHANGED <<active, visible, inflight, seenMeta, seenList, drop, again,
                   delivery>>

\* The message is appended to the visible list.
EnqueueAppend(p) ==
    /\ pc[p] = "append"
    /\ visible' = Append(visible, msg[p])
    /\ Goto(p, NextLocation(p))
    /\ UNCHANGED <<active, meta, lastGen, inflight, msg, seenMeta, seenList,
                   todo, drop, again, delivery>>

-----------------------------------------------------------------------------
(* retry(ref, delayMs): it names a message, not a claim                    *)

\* get of the meta; no message, nothing to retry.
RetryRead(w) ==
    /\ pc[w] = "retryRead"
    /\ delivery' = [delivery EXCEPT ![w] = NoDelivery]
    /\ \/ /\ Present(msg[w]) /\ meta[msg[w]].attempt < MaxAttempt
          /\ seenMeta' = [seenMeta EXCEPT ![w] = meta[msg[w]]]
          /\ Goto(w, "retryCas")
       \/ /\ ~(Present(msg[w]) /\ meta[msg[w]].attempt < MaxAttempt)
          /\ Goto(w, "idle")
          /\ UNCHANGED seenMeta
    /\ UNCHANGED <<shared, msg, seenList, todo, drop, again>>

\* cas of the meta to a later attempt; when it is lost, retry returns and this
\* worker's inflight key stays.
RetryCas(w) ==
    /\ pc[w] = "retryCas"
    /\ \/ /\ Unchanged(w)
          /\ meta' = [meta EXCEPT ![msg[w]] = Bumped(w, FALSE)]
          /\ Goto(w, "retryKeys")
       \/ /\ ~Unchanged(w)
          /\ UNCHANGED meta
          /\ Goto(w, "idle")
    /\ seenMeta' = [seenMeta EXCEPT ![w] = NoMeta]
    /\ UNCHANGED <<active, lastGen, visible, inflight, msg, seenList, todo, drop,
                   again, delivery>>

\* keys() of the inflight keys of the message, of every worker.
RetryKeys(w) ==
    /\ pc[w] = "retryKeys"
    /\ todo' = [todo EXCEPT ![w] = {x \in Workers : msg[w] \in inflight[x]}]
    /\ Goto(w, "retryClear")
    /\ UNCHANGED <<shared, msg, seenMeta, seenList, drop, again, delivery>>

\* The loop deletes them one by one.
RetryClear(w) ==
    /\ pc[w] = "retryClear"
    /\ \/ /\ todo[w] = {}
          /\ Goto(w, "idle")
          /\ UNCHANGED <<inflight, todo>>
       \/ \E x \in todo[w] \cap Workers :
          /\ inflight' = [inflight EXCEPT ![x] = @ \ {msg[w]}]
          /\ todo' = [todo EXCEPT ![w] = @ \ {x}]
          /\ UNCHANGED pc
    /\ UNCHANGED <<active, meta, lastGen, visible, msg, seenMeta, seenList,
                   drop, again, delivery>>

-----------------------------------------------------------------------------
(* reconcile(): repair(), then an enqueue for every active run             *)

\* repair reads the meta keys ...
RepairKeys(r) ==
    /\ pc[r] = "idle"
    /\ todo' = [todo EXCEPT ![r] = {m \in Msgs : Present(m)}]
    /\ Goto(r, "repairList")
    /\ UNCHANGED <<shared, msg, seenMeta, seenList, drop, again, delivery>>

\* Messages that have a meta but no entry, and entries that have no meta.
Unlisted_None(r) == {}
Ghosts_None(r) == {}

Unlisted(r) == todo[r] \ Entries(visible)
Ghosts(r)   == Entries(visible) \ todo[r]

\* ... and then the visible list, and compares the two.
RepairList(r) ==
    /\ pc[r] = "repairList"
    /\ todo' = [todo EXCEPT ![r] = Unlisted(r)]
    /\ drop' = [drop EXCEPT ![r] = Ghosts(r)]
    /\ Goto(r, "revisible")
    /\ UNCHANGED <<shared, msg, seenMeta, seenList, again, delivery>>

\* The first loop appends the messages that were not listed.
Revisible(r) ==
    /\ pc[r] = "revisible"
    /\ \/ /\ todo[r] = {}
          /\ Goto(r, "prune")
          /\ UNCHANGED <<visible, todo>>
       \/ \E m \in todo[r] \cap Msgs :
          /\ visible' = Append(visible, m)
          /\ todo' = [todo EXCEPT ![r] = @ \ {m}]
          /\ UNCHANGED pc
    /\ UNCHANGED <<active, meta, lastGen, inflight, msg, seenMeta, seenList,
                   drop, again, delivery>>

\* The second loop prunes the entries that had no meta (removeRawVisible
\* reads the list again).  After it, reconcile lists the active runs.
Prune(r) ==
    /\ pc[r] = "prune"
    /\ \/ /\ drop[r] = {}
          /\ todo' = [todo EXCEPT ![r] = active]
          /\ Goto(r, "requeue")
          /\ UNCHANGED <<msg, seenList, drop>>
       \/ \E m \in drop[r] :
          /\ drop' = [drop EXCEPT ![r] = @ \ {m}]
          /\ \/ /\ Listed(m)
                /\ msg' = [msg EXCEPT ![r] = m]
                /\ seenList' = [seenList EXCEPT ![r] = visible]
                /\ Goto(r, "pruneCas")
             \/ ~Listed(m) /\ UNCHANGED <<pc, msg, seenList>>
          /\ UNCHANGED todo
    /\ UNCHANGED <<shared, seenMeta, again, delivery>>

PruneCas(r) ==
    /\ pc[r] = "pruneCas"
    /\ visible' = IF visible = seenList[r] THEN Without(visible, msg[r])
                                           ELSE visible
    /\ seenList' = [seenList EXCEPT ![r] = <<>>]
    /\ Goto(r, "prune")
    /\ UNCHANGED <<active, meta, lastGen, inflight, msg, seenMeta, todo, drop,
                   again, delivery>>

-----------------------------------------------------------------------------
(* The environment                                                         *)

\* The clock reaches availableAt: a visibility timeout or a retry delay is over.
Timeout(m) ==
    /\ Present(m) /\ ~meta[m].due
    /\ meta' = [meta EXCEPT ![m].due = TRUE]
    /\ UNCHANGED <<active, lastGen, visible, inflight, local>>

\* A process dies between two backend calls.  A process started later is
\* another process: its worker id is fresh.
Crash(p) ==
    /\ pc[p] # "dead"
    /\ Goto(p, "dead")
    /\ msg' = [msg EXCEPT ![p] = NoMsg]
    /\ seenMeta' = [seenMeta EXCEPT ![p] = NoMeta]
    /\ seenList' = [seenList EXCEPT ![p] = <<>>]
    /\ todo' = [todo EXCEPT ![p] = {}]
    /\ drop' = [drop EXCEPT ![p] = {}]
    /\ again' = [w \in Workers |-> w # p /\ again[w]]
    /\ delivery' = [w \in Workers |-> IF w = p THEN NoDelivery ELSE delivery[w]]
    /\ UNCHANGED shared

-----------------------------------------------------------------------------
Enqueue(p) == EnqueueMeta(p) \/ EnqueueAppend(p)
Claim(w)   == ScanList(w) \/ ScanEntry(w) \/ ClaimMeta(w) \/ Register(w)
Process(w) == Finish(w) \/ Progress(w) \/ PutBack(w)
Ack(w)     == AckTake(w) \/ AckDelMeta(w) \/ AckUnlist(w) \/ AckUnlistCas(w)
Retry(w)   == RetryRead(w) \/ RetryCas(w) \/ RetryKeys(w) \/ RetryClear(w)
Repair(r)  == RepairKeys(r) \/ RepairList(r) \/ Revisible(r) \/ Prune(r) \/ PruneCas(r)

WorkerStep(w)     == Claim(w) \/ Process(w) \/ Ack(w) \/ Retry(w) \/ Enqueue(w)
ReconcilerStep(r) == Repair(r) \/ Enqueue(r)

Next == \/ \E w \in Workers : WorkerStep(w)
        \/ \E r \in Reconcilers : ReconcilerStep(r)
        \/ \E m \in Msgs : Timeout(m)
        \/ \E p \in Mortal : Crash(p)

Spec == Init /\ [][Next]_vars

(***************************************************************************)
(* A process that is alive keeps running, reconcile is called again and    *)
(* again, and the clock moves on.                                          *)
(***************************************************************************)
Fairness == /\ \A w \in Workers : WF_vars(WorkerStep(w))
            /\ \A r \in Reconcilers : WF_vars(ReconcilerStep(r))
            /\ \A m \in Msgs : WF_vars(Timeout(m))

FairSpec == Spec /\ Fairness

-----------------------------------------------------------------------------
(* Safety                                                                  *)

\* claim() is documented as atomic: however claims, timeouts, retries and stale
\* acks interleave, no delivery (one attempt of one enqueued message) is ever
\* in the hands of two workers.  Rests on the cas of claim and retry.
UniqueDelivery ==
    \A v, w \in Workers :
        delivery[v] = delivery[w] /\ delivery[v] # NoDelivery => v = w

\* No update of the delivery count is lost: while a message is enqueued its
\* attempt never goes back, so a reader of attempt or receivedCount never sees
\* fewer deliveries than happened.
AttemptsNeverLost ==
    [][\A m \in Msgs : Present(m) /\ meta'[m].gen = meta[m].gen
                          => meta'[m].attempt >= meta[m].attempt]_vars

\* The promise of the queue, in full.  A worker has a delivery from the cas of claim
\* on, before its inflight key is written and claim has returned.
Holding == {"register", "work", "ack", "retryRead"}

Held(w) == IF pc[w] = "register"
           THEN [msg     |-> msg[w],
                 gen     |-> seenMeta[w].gen,
                 attempt |-> seenMeta[w].attempt + 1]
           ELSE delivery[w]

Work == INSTANCE WorkQueue
          WITH queued <- {m \in Msgs : Present(m)},
               round  <- lastGen,
               count  <- [m \in Msgs |-> meta[m].attempt],
               held   <- [w \in Workers |-> Held(w)]

\* Messages are created only where there is none, and handed out as the next attempt
\* of their round: no enqueue replaces a message that is there, no attempt is used twice.
ImplementsQueue == Work!Spec

-----------------------------------------------------------------------------
(* Liveness, under FairSpec                                                *)

Claimable(m)  == Present(m) /\ Listed(m) /\ meta[m].due
InService(m)  == \E w \in Workers : delivery[w].msg = m
Exhausted(m)  == lastGen[m] = MaxGen /\ ~Present(m)

\* At-least-once: whatever crash or race lost the message or its list entry,
\* an active run gets back to where a claim can take it (reconcile, repair and
\* the visibility timeout together), until the bound on enqueues is reached.
ActiveClaimable ==
    \A m \in Msgs :
        m \in active ~> \/ m \notin active
                        \/ Claimable(m) \/ InService(m) \/ Exhausted(m)

\* The list does not grow for ever: an entry whose message is gone is
\* eventually pruned or has a message again.
GhostsPruned ==
    \A m \in Msgs : Listed(m) /\ ~Present(m) ~> ~Listed(m) \/ Present(m)

-----------------------------------------------------------------------------
(* What the documents say and the code does not do                         *)

\* contracts.ts, Queue.ack: "Stale/wrong-tenant acks fail."  An ack that
\* succeeds is an ack of the delivery that is current.
StaleAckFails ==
    [][\A w \in Workers :
         pc[w] = "ack" /\ pc'[w] = "delMeta"
           => /\ meta[msg[w]].gen = delivery[w].gen
              /\ meta[msg[w]].attempt = delivery[w].attempt]_vars

\* distributed-model.md: "the message stays in qvisible exactly once".
ListedOnce ==
    \A i, j \in DOMAIN visible :
        visible[i] = visible[j] /\ Present(visible[i]) => i = j

\* consistency-model.md: "a worker that dies without acking leaves the message in
\* qvisible with an availableAt in the past once the visibility timeout elapses
\* -> the next claim redelivers it".  A claim that takes such a message delivers
\* it.
DiedWith(v, m) == pc[v] = "dead" /\ m \in inflight[v]

NextClaimRedelivers ==
    \A v, w \in Workers :
        pc[w] = "register" /\ DiedWith(v, msg[w]) => msg[w] \notin inflight[w]

\* DistributedQueue.repair: "'meta present but not listed' can only be a lost
\* tail, never an in-flight message".
InflightListed ==
    \A w \in Workers :
        /\ pc[w] = "work"
        /\ meta[msg[w]].gen = delivery[w].gen
        /\ meta[msg[w]].attempt = delivery[w].attempt
        => Listed(msg[w])
=============================================================================
