---------------------------- MODULE StepExecution ----------------------------
(***************************************************************************)
(* How the tasks of one active run are executed: DurableScheduler          *)
(* (scheduler.ts), DistributedTaskLeaseStore and the step and task records *)
(* of DistributedWorkflowStore (distributed-store.ts), driven by the       *)
(* processOne of any number of workers (worker.ts), from the claimed       *)
(* message to its release.                                                 *)
(*                                                                         *)
(* The queue delivers at least once (module DistributedQueue): a worker    *)
(* that is idle may be handed the message of the run at any time, whatever *)
(* the others do.  Every step of a worker is one call to the shared        *)
(* backend, or several between which nothing another process does can make *)
(* a difference.                                                           *)
(*                                                                         *)
(* Nothing but versions fences the workers: a step is written with a       *)
(* compare-and-swap on its version, a lease is claimed when it is absent,  *)
(* expired or revoked, and a task is written whenever the version the      *)
(* writer brings is not smaller than the stored one.                       *)
(*                                                                         *)
(* A definition X_Y is X with the bug Y; the specification does not use    *)
(* it.                                                                     *)
(***************************************************************************)
EXTENDS Integers, Sequences

CONSTANTS Workers,      \* worker processes
          Tasks,        \* tasks of the run
          TaskOrder,    \* run.taskIds: the order releaseSteps visits them in
          DependsOn,    \* DependsOn[t]: the tasks that t waits for
          MaxRetries,   \* policy.retry.maxRetries
          Heartbeat,    \* workers with heartbeatMs > 0
          Deadline,     \* TRUE when the steps have a deadlineAt
          Mortal,       \* workers that may die
          MaxLeases,    \* bound: no claim of a lease beyond this version
          NoTask, NoWorker

ASSUME ExecutionAssumption ==
    /\ TaskOrder \in Seq(Tasks)
    /\ DependsOn \in [Tasks -> SUBSET Tasks]
    /\ MaxRetries \in Nat /\ MaxLeases \in Nat
    /\ Heartbeat \subseteq Workers /\ Deadline \in BOOLEAN
    /\ Mortal \subseteq Workers
    /\ NoTask \notin Tasks /\ NoWorker \notin Workers

Attempts == 1 .. MaxRetries + 1
Keys     == Tasks \X Attempts        \* a step id: its task and its attempt
NoKey    == <<NoTask, 0>>

Step  == [status : {"absent", "queued", "running", "completed", "failed"},
          version : Nat]
Task  == [status : {"queued", "completed"}, attempt : Attempts, version : Nat]
Lease == [id : Nat, owner : Workers \cup {NoWorker}, version : Nat,
          live : BOOLEAN]                  \* neither expired nor revoked

NoStep    == [status |-> "absent", version |-> 0]
FreshStep == [status |-> "queued", version |-> 0]
FreshTask_Running == [status |-> "running", attempt |-> 1, version |-> 1]
FreshTask == [status |-> "queued", attempt |-> 1, version |-> 1]
NoLease   == [id |-> 0, owner |-> NoWorker, version |-> 0, live |-> FALSE]

VARIABLES
    step,     \* step[k]: the step record
    task,     \* task[t]: status, current attempt (currentStepId), version
    lease,    \* lease[k]: the lease record
    late,     \* the deadline of the steps has passed
    worker,   \* worker[w]: where worker w is and what it remembers
    runner,   \* history: runner[k], the lease under which k was last started
    lost,     \* history: the steps a lease of which expired in use
    accepted  \* history: accepted[k], the lease of the last result k was completed with

history == <<runner, lost, accepted>>
vars    == <<step, task, lease, late, worker, runner, lost, accepted>>

Locations == {"idle", "readTask", "checkDeps", "readStep", "readLease", "reset",
              "claim", "start", "rollback", "rereadStep", "rereadTask", "checkLease",
              "execute", "renew", "renewCas", "completeRead", "fence",
              "completeSave", "failSave", "taskRead", "taskGet", "taskCas", "revoke",
              "spawnStep", "spawnGet", "spawnCas", "dead"}

Worker == [pc      : Locations,
           rest    : Seq(Tasks),            \* tasks releaseSteps has yet to visit
           key     : Keys \cup {NoKey},     \* the step it is busy with
           lease   : Lease,                 \* the lease as it read it
           step    : Step,                  \* the step as it read it
           task    : Task,                  \* the task as processOne read it
           draft   : Task,                  \* the task record it wants to save
           stored  : Task,                  \* the task record saveTask has read
           outcome : {"none", "ok", "retryable", "final", "late"}]

Idle == [pc |-> "idle", rest |-> <<>>, key |-> NoKey, lease |-> NoLease,
         step |-> NoStep, task |-> FreshTask, draft |-> FreshTask,
         stored |-> FreshTask, outcome |-> "none"]

TypeOK ==
    /\ step \in [Keys -> Step]
    /\ task \in [Tasks -> Task]
    /\ lease \in [Keys -> Lease]
    /\ late \in BOOLEAN
    /\ worker \in [Workers -> Worker]
    /\ runner \in [Keys -> Nat]
    /\ lost \subseteq Keys
    /\ accepted \in [Keys -> Nat]

(***************************************************************************)
(* submit() has planned the run: every task has its first step, queued.    *)
(***************************************************************************)
Init ==
    /\ step = [k \in Keys |-> IF k[2] = 1 THEN FreshStep ELSE NoStep]
    /\ task = [t \in Tasks |-> FreshTask]
    /\ lease = [k \in Keys |-> NoLease]
    /\ late = FALSE
    /\ worker = [w \in Workers |-> Idle]
    /\ runner = [k \in Keys |-> 0]
    /\ lost = {}
    /\ accepted = [k \in Keys |-> 0]

At(w, l)   == worker[w].pc = l
\* w becomes r: it moves on, and remembers what it has read.
Become(w, r) == worker' = [worker EXCEPT ![w] = r]
Goto(w, l)   == Become(w, [worker[w] EXCEPT !.pc = l])
Leave(w)     == Become(w, Idle)

GotoWithStep(w, l, s)  == Become(w, [worker[w] EXCEPT !.pc = l, !.step = s])
GotoWithLease(w, l, x) == Become(w, [worker[w] EXCEPT !.pc = l, !.lease = x])

(***************************************************************************)
(* saveStep(next, expectedVersion): the step that was read is written back *)
(* with the next version, if its version is still the one that was read.   *)
(***************************************************************************)
CanSave_Always(w) == TRUE

CanSave(w) == step[worker[w].key].version = worker[w].step.version

Save(w, status) ==
    step' = [step EXCEPT ![worker[w].key] =
               [status |-> status, version |-> worker[w].step.version + 1]]

\* renew and revoke find the lease by its id and check the owner.
Holds(w) ==
    LET k == worker[w].key
    IN  lease[k].id = worker[w].lease.id /\ lease[k].owner = w

RevokeLease(w) ==
    lease' = IF Holds(w) THEN [lease EXCEPT ![worker[w].key].live = FALSE]
                         ELSE lease

-----------------------------------------------------------------------------
(* releaseSteps(runId, worker)                                             *)

\* processOne has the message of the run and looks for a step to execute.
Poll(w) ==
    /\ At(w, "idle")
    /\ Become(w, [worker[w] EXCEPT !.pc = "readTask", !.rest = TaskOrder])
    /\ UNCHANGED <<step, task, lease, late, history>>

\* The next task is read, for its current step.
ReadTask(w) ==
    /\ At(w, "readTask")
    /\ \/ worker[w].rest = <<>> /\ Leave(w)
       \/ /\ worker[w].rest # <<>>
          /\ LET t == Head(worker[w].rest) IN
             Become(w, [Idle EXCEPT
                 !.pc   = IF DependsOn[t] = {} THEN "readStep" ELSE "checkDeps",
                 !.rest = Tail(worker[w].rest),
                 !.key  = <<t, task[t].attempt>>])
    /\ UNCHANGED <<step, task, lease, late, history>>

\* It waits until all its dependencies are completed.
CheckDeps(w) ==
    /\ At(w, "checkDeps")
    /\ Goto(w, IF \A d \in DependsOn[worker[w].key[1]] : task[d].status = "completed"
               THEN "readStep" ELSE "readTask")
    /\ UNCHANGED <<step, task, lease, late, history>>

\* A queued step is runnable, unless its deadline has passed: then it is failed
\* on the spot.
ToRun(w, s) ==
    Become(w, [worker[w] EXCEPT !.pc = IF late THEN "failSave" ELSE "claim",
                                !.step = s,
                                !.outcome = IF late THEN "late" ELSE "none"])

\* The current step of the task is read.
ReadStep(w) ==
    /\ At(w, "readStep")
    /\ LET s == step[worker[w].key] IN
       \/ /\ s.status = "running"
          /\ GotoWithStep(w, "readLease", s)
       \/ /\ s.status = "queued"
          /\ ToRun(w, s)
       \/ /\ s.status \notin {"queued", "running"}
          /\ Goto(w, "readTask")
    /\ UNCHANGED <<step, task, lease, late, history>>

\* A lease can be claimed when the last one is absent, expired or revoked.
Free_Always(k) == TRUE

Free(k) == ~lease[k].live

\* A running step with a valid lease is left to its holder.
ReadLease_NoRecovery(w) ==
    /\ At(w, "readLease")
    /\ Goto(w, "readTask")
    /\ UNCHANGED <<step, task, lease, late, history>>

ReadLease(w) ==
    /\ At(w, "readLease")
    /\ Goto(w, IF Free(worker[w].key) THEN "reset" ELSE "readTask")
    /\ UNCHANGED <<step, task, lease, late, history>>

\* Crash recovery: the step is reset to queued.  Nobody looks at the result of
\* this save; the worker goes on with the record it meant to write.
Reset(w) ==
    /\ At(w, "reset")
    /\ IF CanSave(w) THEN Save(w, "queued") ELSE UNCHANGED step
    /\ ToRun(w, [status |-> "queued", version |-> worker[w].step.version + 1])
    /\ UNCHANGED <<task, lease, late, history>>

\* leases.claim: refused while a lease is live, otherwise a new one replaces it.
Claim(w) ==
    /\ At(w, "claim")
    /\ LET k == worker[w].key
           v == lease[k].version + 1
           new == [id |-> v, owner |-> w, version |-> v, live |-> TRUE]
       IN
       \/ /\ ~(Free(k) /\ v <= MaxLeases)
          /\ Goto(w, "readTask")
          /\ UNCHANGED lease
       \/ /\ Free(k) /\ v <= MaxLeases
          /\ lease' = [lease EXCEPT ![k] = new]
          /\ GotoWithLease(w, "start", new)
    /\ UNCHANGED <<step, task, late, history>>

\* The step becomes running, or the lease is given back.
Start(w) ==
    /\ At(w, "start")
    /\ \/ /\ CanSave(w)
          /\ Save(w, "running")
          /\ runner' = [runner EXCEPT ![worker[w].key] = worker[w].lease.id]
          /\ Goto(w, "rereadStep")
       \/ /\ ~CanSave(w)
          /\ Goto(w, "rollback")
          /\ UNCHANGED <<step, runner>>
    /\ UNCHANGED <<task, lease, late, lost, accepted>>

Rollback(w) ==
    /\ At(w, "rollback")
    /\ RevokeLease(w)
    /\ Goto(w, "readTask")
    /\ UNCHANGED <<step, task, late, history>>

-----------------------------------------------------------------------------
(* processOne: from the released step to the executor's result             *)

RereadStep(w) ==
    /\ At(w, "rereadStep")
    /\ GotoWithStep(w, "rereadTask", step[worker[w].key])
    /\ UNCHANGED <<step, task, lease, late, history>>

RereadTask(w) ==
    /\ At(w, "rereadTask")
    /\ Become(w, [worker[w] EXCEPT !.pc = "checkLease",
                                   !.task = task[worker[w].key[1]]])
    /\ UNCHANGED <<step, task, lease, late, history>>

\* The worker goes on with the lease that is stored, if it is the owner.  Past
\* the deadline guardBudget ends the run, and the step stays as it is.
CheckLease(w) ==
    /\ At(w, "checkLease")
    /\ LET l == lease[worker[w].key] IN
       \/ /\ l.owner = w /\ ~late
          /\ GotoWithLease(w, "execute", l)
       \/ (l.owner # w \/ late) /\ Leave(w)
    /\ UNCHANGED <<step, task, lease, late, history>>

Commit(outcome) == IF outcome = "ok" THEN "completeRead" ELSE "failSave"

\* The executor returns a result, or an error it calls retryable or not.
Execute(w) ==
    /\ At(w, "execute")
    /\ \E o \in {"ok", "retryable", "final"} :
          Become(w, [worker[w] EXCEPT
                       !.pc = IF w \in Heartbeat THEN "renew" ELSE Commit(o),
                       !.outcome = o])
    /\ UNCHANGED <<step, task, lease, late, history>>

\* The executor throws: the lease is revoked and the message retried.
Throw(w) ==
    /\ At(w, "execute")
    /\ Goto(w, "revoke")
    /\ UNCHANGED <<step, task, lease, late, history>>

\* leases.renew: get, refused once expired ...
Renew(w) ==
    /\ At(w, "renew")
    /\ Goto(w, IF Holds(w) /\ lease[worker[w].key].live THEN "renewCas"
                                                      ELSE Commit(worker[w].outcome))
    /\ UNCHANGED <<step, task, lease, late, history>>

\* ... and the cas, which advances the version of the lease; the worker keeps
\* the version it had.
RenewCas(w) ==
    /\ At(w, "renewCas")
    /\ lease' = IF Holds(w)
                THEN [lease EXCEPT ![worker[w].key].version = @ + 1,
                                   ![worker[w].key].live = TRUE]
                ELSE lease
    /\ Goto(w, Commit(worker[w].outcome))
    /\ UNCHANGED <<step, task, late, history>>

-----------------------------------------------------------------------------
(* completeStep(stepId, output, usage, owner, leaseId, version)            *)

CompleteRead(w) ==
    /\ At(w, "completeRead")
    /\ GotoWithStep(w, "fence", step[worker[w].key])
    /\ UNCHANGED <<step, task, lease, late, history>>

Fenced_Dropped(w) == TRUE

\* The lease is the one the worker was given: id, owner and version.
Fenced(w) ==
    Holds(w) /\ lease[worker[w].key].version = worker[w].lease.version

\* Lease lost, or step not running: the commit is rejected and the message
\* retried; the lease is not revoked.
Fence(w) ==
    /\ At(w, "fence")
    /\ \/ Fenced(w) /\ worker[w].step.status = "running" /\ Goto(w, "completeSave")
       \/ ~(Fenced(w) /\ worker[w].step.status = "running") /\ Leave(w)
    /\ UNCHANGED <<step, task, lease, late, history>>

CompleteSave(w) ==
    /\ At(w, "completeSave")
    /\ \/ /\ CanSave(w)
          /\ Save(w, "completed")
          /\ accepted' = [accepted EXCEPT ![worker[w].key] = worker[w].lease.id]
          /\ Goto(w, "taskRead")
       \/ /\ ~CanSave(w)
          /\ Leave(w)
          /\ UNCHANGED <<step, accepted>>
    /\ UNCHANGED <<task, lease, late, runner, lost>>

-----------------------------------------------------------------------------
(* failStep(step, failure), for an error of the executor or a deadline     *)

\* No fence but the version of the step.  A failure that could not be saved is
\* not retried.
FailSave(w) ==
    /\ At(w, "failSave")
    /\ \/ CanSave(w) /\ Save(w, "failed") /\ Goto(w, "taskRead")
       \/ /\ ~CanSave(w)
          /\ Become(w, [worker[w] EXCEPT
                          !.pc = IF worker[w].outcome = "late"
                                    THEN "readTask" ELSE "revoke",
                          !.outcome = "none"])
          /\ UNCHANGED step
    /\ UNCHANGED <<task, lease, late, history>>

-----------------------------------------------------------------------------
(* The task follows its step: completeStep and failStep read it, change it *)
(* and call saveTask, which reads it again and swaps it if the version     *)
(* brought is not smaller.  Nobody looks at the result.                    *)

Advanced_Always(w, t) == [t EXCEPT !.version = @ + 1, !.status = "completed"]

Advanced(w, t) ==
    [t EXCEPT !.version = @ + 1,
              !.status = IF worker[w].outcome = "ok" THEN "completed" ELSE @]

TaskRead(w) ==
    /\ At(w, "taskRead")
    /\ Become(w, [worker[w] EXCEPT !.pc = "taskGet",
                                   !.draft = Advanced(w, task[worker[w].key[1]])])
    /\ UNCHANGED <<step, task, lease, late, history>>

\* Where failStep and completeStep go on: a late step is skipped, the others
\* have their lease revoked.
AfterTask(w) == IF worker[w].outcome = "late" THEN "readTask" ELSE "revoke"

\* saveTask: get, and the version check ...
SaveTaskGet(w, from, cas, next) ==
    /\ At(w, from)
    /\ LET t == task[worker[w].key[1]] IN
       \/ /\ t.version <= worker[w].draft.version
          /\ Become(w, [worker[w] EXCEPT !.pc = cas, !.stored = t])
       \/ /\ t.version > worker[w].draft.version
          /\ IF next = "idle" THEN Leave(w) ELSE Goto(w, next)
    /\ UNCHANGED <<step, task, lease, late, history>>

\* ... and the cas.
SaveTaskCas(w, from, next) ==
    /\ At(w, from)
    /\ LET t == worker[w].key[1] IN
       task' = IF task[t] = worker[w].stored
               THEN [task EXCEPT ![t] = worker[w].draft] ELSE task
    /\ IF next = "idle" THEN Leave(w) ELSE Goto(w, next)
    /\ UNCHANGED <<step, lease, late, history>>

TaskGet(w) == SaveTaskGet(w, "taskGet", "taskCas", AfterTask(w))
TaskCas(w) == SaveTaskCas(w, "taskCas", AfterTask(w))

\* decideRetry: an error the executor calls retryable, attempts left, and the
\* deadline not passed.
Retries(w) ==
    /\ worker[w].outcome = "retryable"
    /\ worker[w].key[2] <= MaxRetries
    /\ ~late

\* The end of completeStep, of a failed step and of a throw: the lease is
\* revoked; a failed step may be followed by its retry.
Revoke(w) ==
    /\ At(w, "revoke")
    /\ RevokeLease(w)
    /\ IF Retries(w) THEN Goto(w, "spawnStep") ELSE Leave(w)
    /\ UNCHANGED <<step, task, late, history>>

-----------------------------------------------------------------------------
(* spawnRetry(run, task, failedStep, result)                               *)

NextTry(k) == <<k[1], k[2] + 1>>

Spawned_Forgotten(k) == step
Spawned(k) == IF step[k] = NoStep THEN [step EXCEPT ![k] = FreshStep] ELSE step

\* The step of the next attempt is saved with version 0, if it does not exist
\* (or the deadline passed just before the decision) ...
SpawnStep(w) ==
    /\ At(w, "spawnStep")
    /\ \/ late /\ Leave(w) /\ UNCHANGED step
       \/ /\ step' = Spawned(NextTry(worker[w].key))
          /\ Become(w, [worker[w] EXCEPT
                          !.pc = "spawnGet",
                          !.draft = [status  |-> "queued",
                                    attempt |-> worker[w].key[2] + 1,
                                    version |-> worker[w].task.version + 1]])
    /\ UNCHANGED <<task, lease, late, history>>

\* ... and the task, as processOne had read it, is saved with the new attempt.
SpawnGet(w) == SaveTaskGet(w, "spawnGet", "spawnCas", "idle")
SpawnCas(w) == SaveTaskCas(w, "spawnCas", "idle")

-----------------------------------------------------------------------------
(* The environment                                                         *)

\* w is past its claim of k and has not given the lease back.
Using(w, k) ==
    /\ worker[w].key = k
    /\ worker[w].pc \notin {"idle", "readTask", "checkDeps", "readStep",
                            "readLease", "reset", "claim", "dead"}

\* A lease whose worker is gone expires; one that is in use may expire too, when
\* its worker is slower than the lease is long.
Expire(k) ==
    /\ lease[k].live
    /\ lease' = [lease EXCEPT ![k].live = FALSE]
    /\ lost' = IF Using(lease[k].owner, k) THEN lost \cup {k} ELSE lost
    /\ UNCHANGED <<step, task, late, worker, runner, accepted>>

\* The clock passes deadlineAt.
PassDeadline ==
    /\ Deadline /\ ~late
    /\ late' = TRUE
    /\ UNCHANGED <<step, task, lease, worker, history>>

\* A process dies between two backend calls.  One that is started later has a
\* fresh worker id: it is another process.
Crash(w) ==
    /\ ~At(w, "dead")
    /\ Become(w, [Idle EXCEPT !.pc = "dead"])
    /\ UNCHANGED <<step, task, lease, late, history>>

-----------------------------------------------------------------------------
Release(w)  == \/ Poll(w) \/ ReadTask(w) \/ CheckDeps(w) \/ ReadStep(w)
               \/ ReadLease(w) \/ Reset(w) \/ Claim(w) \/ Start(w) \/ Rollback(w)
Run(w)      == \/ RereadStep(w) \/ RereadTask(w) \/ CheckLease(w)
               \/ Execute(w) \/ Renew(w) \/ RenewCas(w)
Complete(w) == CompleteRead(w) \/ Fence(w) \/ CompleteSave(w)
Settle(w)   == FailSave(w) \/ TaskRead(w) \/ TaskGet(w) \/ TaskCas(w) \/ Revoke(w)
Spawn(w)    == SpawnStep(w) \/ SpawnGet(w) \/ SpawnCas(w)

WorkerStep(w) == Release(w) \/ Run(w) \/ Complete(w) \/ Settle(w) \/ Spawn(w)

Next == \/ \E w \in Workers : WorkerStep(w) \/ Throw(w)
        \/ \E k \in Keys : Expire(k)
        \/ PassDeadline
        \/ \E w \in Mortal : Crash(w)

Spec == Init /\ [][Next]_vars

(***************************************************************************)
(* A worker that is alive keeps polling and executors return; a lease      *)
(* expires unless it is given back first.                                  *)
(***************************************************************************)
Fairness == /\ \A w \in Workers : WF_vars(WorkerStep(w))
            /\ \A k \in Keys : WF_vars(Expire(k))

FairSpec == Spec /\ Fairness

-----------------------------------------------------------------------------
(* Safety                                                                  *)

\* Fencing: whatever expires, crashes or is reset in between, the worker that
\* completes a step is the one that started it last; a result computed under an
\* earlier lease never gets through.
FencedCommit ==
    [][\A w \in Workers :
         At(w, "completeSave") /\ worker'[w].pc = "taskRead"
           => runner[worker[w].key] = worker[w].lease.id]_vars

\* Single flight: two workers execute the same step at the same time only if a
\* lease of the step has expired in the hands of a worker that was using it.
Executing(w, k) == /\ worker[w].key = k
                   /\ worker[w].pc \in {"execute", "renew", "renewCas", "completeRead",
                                       "fence", "completeSave"}

SingleFlight ==
    \A k \in Keys \ lost : \A v, w \in Workers :
        Executing(v, k) /\ Executing(w, k) => v = w

\* Dependencies: whoever reads whatever stale, a step of a task is started only
\* after a step of each task it waits for has been committed.
DependentsWait ==
    \A k \in Keys : runner[k] > 0 =>
        \A d \in DependsOn[k[1]] : \E a \in Attempts : accepted[<<d, a>>] > 0

\* The promise of the leases, in full: a step is started under larger and larger
\* leases, and completed at most once under each, by the worker that started it last.
Fencing == INSTANCE FencedStep
             WITH Steps <- Keys, Tokens <- 1 .. MaxLeases, token <- runner, result <- accepted

ImplementsFencing == Fencing!Spec

\* A task never points to an attempt that has no step, wherever a worker dies in
\* spawnRetry and whichever stale task record is saved: releaseSteps would pass
\* over such a task for ever.
CurrentStepExists == \A t \in Tasks : step[<<t, task[t].attempt>>] # NoStep

-----------------------------------------------------------------------------
(* Liveness, under FairSpec                                                *)

Current(k) == task[k[1]].attempt = k[2]
Ready(k)   == \A d \in DependsOn[k[1]] : task[d].status = "completed"
Open(k)    == step[k].status \in {"queued", "running"}

WornOut(k) == lease[k].version >= MaxLeases

\* Crash recovery works: a step that is ready to run does not stay open, however
\* its workers die and its leases expire (short of the bound on leases).
ReadyStepSettles ==
    \A k \in Keys :
        Current(k) /\ Ready(k) /\ Open(k) ~> ~(Current(k) /\ Open(k)) \/ WornOut(k)

-----------------------------------------------------------------------------
(* What the documents say and the code does not do                         *)

\* phase4.1/failure-model.md: "A completed step's state is never reverted to
\* queued/running".
CompletedNeverReverted ==
    [][\A k \in Keys : step[k].status = "completed"
                         => step'[k].status = "completed"]_vars

\* contracts.ts, WorkflowStore: "cross-resource updates (e.g. complete-step +
\* advance-task) must be transactional: either all apply or none."
CompleteIsTransactional ==
    \A k \in Keys : step[k].status = "completed" ~> task[k[1]].status = "completed"

\* TaskLeaseStore.renew: "Renew a lease you own".  A worker whose result was good
\* is not turned away while the lease it was given is its own and live.
RenewedLeaseCommits ==
    [][\A w \in Workers :
         At(w, "fence") /\ worker[w].step.status = "running" /\ worker'[w].pc = "idle"
           => ~(Holds(w) /\ lease[worker[w].key].live)]_vars
=============================================================================
