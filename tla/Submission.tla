----------------------------- MODULE Submission -----------------------------
(***************************************************************************)
(* submit() of DistributedDurableRuntime (distributed-runtime.ts) with     *)
(* planDag (dag.ts), called for one objective, and so for one job, by any  *)
(* number of processes at once: first calls, duplicates and retries of a   *)
(* call whose process died.                                                *)
(*                                                                         *)
(* The first call with a key records it and writes the job, the run, the   *)
(* tasks and their steps, the run again, an event and a message, one after *)
(* the other.  A later call with the key returns that run if all of it is  *)
(* there; otherwise it waits a moment and then does the same writes itself.*)
(* All identifiers are computed from the objective and the number of the   *)
(* run, so that both write the same records.                               *)
(*                                                                         *)
(* Meanwhile workers execute the run as soon as reconcile finds it active: *)
(* what they do to tasks, run and job is reduced to legal moves.           *)
(***************************************************************************)
EXTENDS RunRecords, Sequences

CONSTANTS Callers,    \* calls of submit
          Keys,       \* idempotency keys
          KeyOf,      \* KeyOf[c]: the key of call c
          Tasks, TaskOrder,   \* the nodes of the graph, and their order
          Mortal,     \* calls whose process may die
          MaxRuns     \* bound: no run of the job beyond this number

ASSUME SubmissionAssumption ==
    /\ KeyOf \in [Callers -> Keys]
    /\ TaskOrder \in Seq(Tasks) /\ TaskOrder # <<>>
    /\ \A t \in Tasks : \E i \in 1 .. Len(TaskOrder) : TaskOrder[i] = t
    /\ Mortal \subseteq Callers
    /\ MaxRuns \in Nat \ {0}

Runs == 1 .. MaxRuns      \* a run id: the number of the run

Job == [status : RunStatus, version : Nat \cup {-1},
        current : 0 .. MaxRuns, count : 0 .. MaxRuns]
Run == [status : RunStatus, version : Nat \cup {-1}, planned : BOOLEAN]

NoJob  == [status |-> "running", version |-> -1, current |-> 0, count |-> 0]
NoRun  == [status |-> "queued", version |-> -1, planned |-> FALSE]
NewRun == [status |-> "queued", version |-> 1, planned |-> FALSE]

Exists(record) == record.version >= 0

VARIABLES
    recorded,   \* the keys of the idempotency store
    job,        \* the job record
    run,        \* run[n]: the record of the n-th run; planned: it has its taskIds
    task,       \* task[t]: version of the task, -1 absent, 1 points to its step,
                \* 2 some worker has moved it on
    stepped,    \* the tasks that have their first step
    submitted,  \* the runs with a run.submitted event
    appended,   \* the keys such an event was appended with
    caller,     \* caller[c]: where c is and what it has read
    ended,      \* history: the runs that have been terminal
    settled     \* the runs the end of which has been written to the job

store == <<recorded, job, run, task, stepped, submitted, appended>>
vars  == <<recorded, job, run, task, stepped, submitted, appended, caller,
           ended, settled>>

Caller == [pc     : {"new", "lookup", "check", "getJob", "getPrior", "saveJob",
                     "getRun", "newRun", "saveTask", "saveStep", "pointTask",
                     "getStored", "saveRun", "event", "done", "dead"},
           job    : Job,                \* the job as it read it
           id     : 0 .. MaxRuns,       \* the run it looks at or writes
           resume : BOOLEAN,            \* it continues that run
           run    : Run,                \* the run as it read it, or made it
           stored : Run,                \* the run saveRun has read
           rest   : Seq(Tasks)]         \* the tasks it has yet to plan

NewCaller == [pc |-> "new", job |-> NoJob, id |-> 0, resume |-> FALSE,
              run |-> NoRun, stored |-> NoRun, rest |-> <<>>]

TypeOK ==
    /\ recorded \subseteq Keys /\ appended \subseteq Keys
    /\ job \in Job
    /\ run \in [Runs -> Run]
    /\ task \in [Tasks -> -1 .. 2]
    /\ stepped \subseteq Tasks
    /\ submitted \subseteq Runs /\ ended \subseteq Runs /\ settled \subseteq Runs
    /\ caller \in [Callers -> Caller]

Init ==
    /\ recorded = {} /\ appended = {}
    /\ job = NoJob
    /\ run = [n \in Runs |-> NoRun]
    /\ task = [t \in Tasks |-> -1]
    /\ stepped = {} /\ submitted = {} /\ ended = {} /\ settled = {}
    /\ caller = [c \in Callers |-> NewCaller]

At(c, l)     == caller[c].pc = l
Become(c, r) == caller' = [caller EXCEPT ![c] = r]
Goto(c, l)   == Become(c, [caller[c] EXCEPT !.pc = l])

-----------------------------------------------------------------------------
(* Is there something to return?                                           *)

\* The key is recorded once; whoever does not record it is a duplicate.
RecordKey(c) ==
    /\ At(c, "new")
    /\ recorded' = recorded \cup {KeyOf[c]}
    /\ Goto(c, IF KeyOf[c] \in recorded THEN "lookup" ELSE "getJob")
    /\ UNCHANGED <<job, run, task, stepped, submitted, appended, ended, settled>>

Lookup(c) ==
    /\ At(c, "lookup")
    /\ Become(c, [caller[c] EXCEPT !.pc = "check", !.id = job.current])
    /\ UNCHANGED <<store, ended, settled>>

\* isRunMaterialized and hasSubmittedEvent
Materialized(n) == /\ run[n].planned
                   /\ \A t \in Tasks : task[t] >= 1 /\ t \in stepped
Durable_Job(n)  == TRUE
Durable(n)      == Materialized(n) /\ n \in submitted

Check_Patient(c) ==
    /\ At(c, "check")
    /\ LET n == caller[c].id IN
       Goto(c, IF n # 0 /\ Durable(n) THEN "done" ELSE "lookup")
    /\ UNCHANGED <<store, ended, settled>>

\* A complete submission is returned.  Otherwise the caller looks again for a
\* while, and then goes on as if it were the first.
Check(c) ==
    /\ At(c, "check")
    /\ LET n == caller[c].id IN
       \/ n # 0 /\ Durable(n) /\ Goto(c, "done")
       \/ ~(n # 0 /\ Durable(n)) /\ \E l \in {"lookup", "getJob"} : Goto(c, l)
    /\ UNCHANGED <<store, ended, settled>>

-----------------------------------------------------------------------------
(* The job and its run                                                     *)

\* The run that a caller that found job j is to write.
Choose(c, j, n, resume) ==
    Become(c, [caller[c] EXCEPT !.pc = "saveJob", !.job = j, !.id = n,
                                !.resume = resume])

GetJob(c) ==
    /\ At(c, "getJob")
    /\ IF job.current = 0
       THEN Choose(c, job, 1, FALSE)
       ELSE Become(c, [caller[c] EXCEPT !.pc = "getPrior", !.job = job])
    /\ UNCHANGED <<store, ended, settled>>

\* The current run is continued if it is not terminal, or was never written;
\* otherwise there is to be another one.
GetPrior_Fresh(c) ==
    /\ At(c, "getPrior")
    /\ LET j == caller[c].job IN j.count < MaxRuns /\ Choose(c, j, j.count + 1, FALSE)
    /\ UNCHANGED <<store, ended, settled>>

GetPrior(c) ==
    /\ At(c, "getPrior")
    /\ LET j == caller[c].job
           prior == run[j.current]
       IN
       \/ /\ ~Exists(prior) \/ prior.status \notin Terminal
          /\ Choose(c, j, j.current, TRUE)
       \/ /\ Exists(prior) /\ prior.status \in Terminal
          /\ j.count < MaxRuns
          /\ Choose(c, j, j.count + 1, FALSE)
    /\ UNCHANGED <<store, ended, settled>>

\* The job is saved unless somebody else saved it since; the caller goes on with
\* its run all the same.
SaveJob(c) ==
    /\ At(c, "saveJob")
    /\ LET j == caller[c].job
           n == caller[c].id
           next == [status  |-> IF j.status \in Terminal THEN j.status ELSE "running",
                    version |-> j.version + 1,
                    current |-> n,
                    count   |-> IF n > j.count THEN n ELSE j.count]
       IN job' = IF SaveJobAccepts(job, next) THEN next ELSE job
    /\ Become(c, [caller[c] EXCEPT !.pc = IF caller[c].resume THEN "getRun" ELSE "newRun",
                                   !.job = NoJob])
    /\ UNCHANGED <<recorded, run, task, stepped, submitted, appended, ended, settled>>

\* The caller has a run record to continue with and plans the tasks.
Plan(c, r) == Become(c, [caller[c] EXCEPT !.pc = "saveTask", !.run = r,
                                          !.rest = TaskOrder])

GetRun(c) ==
    /\ At(c, "getRun")
    /\ LET r == run[caller[c].id] IN
       IF Exists(r) THEN Plan(c, r) ELSE Goto(c, "newRun")
    /\ UNCHANGED <<store, ended, settled>>

\* A run that somebody else has already written and moved on is adopted.
CreateRun(c) ==
    /\ At(c, "newRun")
    /\ LET n == caller[c].id IN
       IF SaveRunAccepts(run[n], NewRun)
       THEN run' = [run EXCEPT ![n] = NewRun] /\ Plan(c, NewRun)
       ELSE UNCHANGED run /\ Plan(c, run[n])
    /\ UNCHANGED <<recorded, job, task, stepped, submitted, appended, ended, settled>>

-----------------------------------------------------------------------------
(* planDag                                                                 *)

\* saveTask refuses a version behind the stored one.
Saved_Counted(t, version) == [task EXCEPT ![t] = @ + 1]
Saved_Blindly(t, version) == [task EXCEPT ![t] = version]
Saved(t, version) == IF task[t] <= version THEN [task EXCEPT ![t] = version] ELSE task

PlanTask(c) ==
    /\ At(c, "saveTask")
    /\ task' = Saved(Head(caller[c].rest), 0)
    /\ Goto(c, "saveStep")
    /\ UNCHANGED <<recorded, job, run, stepped, submitted, appended, ended, settled>>

PlanStep(c) ==
    /\ At(c, "saveStep")
    /\ stepped' = stepped \cup {Head(caller[c].rest)}
    /\ Goto(c, "pointTask")
    /\ UNCHANGED <<recorded, job, run, task, submitted, appended, ended, settled>>

PointTask(c) ==
    /\ At(c, "pointTask")
    /\ task' = Saved(Head(caller[c].rest), 1)
    /\ LET rest == Tail(caller[c].rest) IN
       Become(c, [caller[c] EXCEPT !.pc = IF rest = <<>> THEN "getStored" ELSE "saveTask",
                                   !.rest = rest])
    /\ UNCHANGED <<recorded, job, run, stepped, submitted, appended, ended, settled>>

-----------------------------------------------------------------------------
(* The run with its tasks, the event, the message                          *)

\* The run as it was read, with its tasks and the next version.
Updated(r) == [status  |-> IF r.status \in Terminal THEN r.status ELSE "running",
               version |-> r.version + 1,
               planned |-> TRUE]

\* saveRun: get, and the version check ...
GetStored(c) ==
    /\ At(c, "getStored")
    /\ LET r == run[caller[c].id] IN
       IF SaveRunAccepts(r, Updated(caller[c].run))
       THEN Become(c, [caller[c] EXCEPT !.pc = "saveRun", !.stored = r])
       ELSE Goto(c, "event")
    /\ UNCHANGED <<store, ended, settled>>

\* ... and the cas; nobody looks at the result.
SaveRun(c) ==
    /\ At(c, "saveRun")
    /\ LET n == caller[c].id IN
       run' = IF run[n] = caller[c].stored
              THEN [run EXCEPT ![n] = Updated(caller[c].run)] ELSE run
    /\ Become(c, [caller[c] EXCEPT !.pc = "event", !.run = NoRun, !.stored = NoRun])
    /\ UNCHANGED <<recorded, job, task, stepped, submitted, appended, ended, settled>>

\* appendUnique: one event for a key.  The message follows; it only makes workers
\* find the run sooner than reconcile does.
AppendEvent(c) ==
    /\ At(c, "event")
    /\ appended' = appended \cup {KeyOf[c]}
    /\ submitted' = IF KeyOf[c] \in appended THEN submitted
                                             ELSE submitted \cup {caller[c].id}
    /\ Become(c, [NewCaller EXCEPT !.pc = "done", !.id = caller[c].id])
    /\ UNCHANGED <<recorded, job, run, task, stepped, ended, settled>>

-----------------------------------------------------------------------------
(* The environment                                                         *)

Active(n) == Exists(run[n]) /\ run[n].status \notin Terminal

\* A worker executes a task of an active run.
Work(t) ==
    /\ task[t] = 1 /\ t \in stepped
    /\ \E n \in Runs : Active(n) /\ run[n].planned
    /\ task' = [task EXCEPT ![t] = 2]
    /\ UNCHANGED <<recorded, job, run, stepped, submitted, appended, caller, ended, settled>>

\* A worker moves an active run: to its end when the tasks are completed, to failed
\* when a step was released, and wherever the cancellation marker takes it.
MoveRun(n) ==
    /\ Active(n)
    /\ \E to \in {"verifying", "completed", "failed", "cancel_requested", "cancelled"} :
         /\ CanTransition(run[n].status, to)
         /\ to \in {"verifying", "completed"} => run[n].planned /\ \A t \in Tasks : task[t] = 2
         /\ to = "failed" => run[n].planned
         /\ run' = [run EXCEPT ![n] = Moved(@, to)]
         /\ ended' = IF to \in Terminal THEN ended \cup {n} ELSE ended
    /\ UNCHANGED <<recorded, job, task, stepped, submitted, appended, caller, settled>>

\* The worker that ended the run saves the job.
EndJob(n) ==
    /\ n \in ended \ settled
    /\ Exists(job)
    /\ job' = [job EXCEPT !.status = run[n].status, !.version = @ + 1]
    /\ settled' = settled \cup {n}
    /\ UNCHANGED <<recorded, run, task, stepped, submitted, appended, caller, ended>>

Crash(c) ==
    /\ caller[c].pc \notin {"done", "dead"}
    /\ Become(c, [NewCaller EXCEPT !.pc = "dead"])
    /\ UNCHANGED <<store, ended, settled>>

-----------------------------------------------------------------------------
Write(c) == \/ SaveJob(c) \/ GetRun(c) \/ CreateRun(c) \/ PlanTask(c) \/ PlanStep(c)
            \/ PointTask(c) \/ GetStored(c) \/ SaveRun(c) \/ AppendEvent(c)

Submit(c) == \/ RecordKey(c) \/ Lookup(c) \/ Check(c) \/ GetJob(c) \/ GetPrior(c)
             \/ Write(c)

Next == \/ \E c \in Callers : Submit(c)
        \/ \E t \in Tasks : Work(t)
        \/ \E n \in Runs : MoveRun(n) \/ EndJob(n)
        \/ \E c \in Mortal : Crash(c)

Spec == Init /\ [][Next]_vars

\* A call whose process is alive goes on, and its wait for another call is bounded:
\* it does not look for ever.
Fairness == \A c \in Callers :
    /\ WF_vars(Submit(c))
    /\ SF_vars(Check(c) /\ caller'[c].pc # "lookup")
FairSpec == Spec /\ Fairness

-----------------------------------------------------------------------------
(* Safety                                                                  *)

\* The tasks of the n-th run are there with their steps, and the run has its taskIds,
\* unless it was ended before it got them.
Complete(n) == /\ \A t \in Tasks : task[t] >= 1 /\ t \in stepped
               /\ run[n].planned \/ n \in ended

\* Whatever a call returns, whoever wrote it, is a complete submission.
ReturnedIsComplete == \A c \in Callers : At(c, "done") => Complete(caller[c].id)

\* No second run is minted for a job before the first has come to an end, however
\* many callers and recoverers are at it, each with the job it read at its time.
NextRunAfterEnd ==
    \A n \in Runs : n > 1 /\ Exists(run[n]) => n - 1 \in ended

\* Planning again what has been planned undoes nothing that a worker has done.
ReplayIsSafe == [][\A t \in Tasks : task'[t] >= task[t]]_vars

-----------------------------------------------------------------------------
(* Liveness, under FairSpec                                                *)

\* A key that was recorded leads to a complete run that says so in its events,
\* wherever the process that recorded it dies, as long as one call with the key
\* survives.
RecordedCompletes ==
    \A c \in Callers \ Mortal :
        KeyOf[c] \in recorded ~> \E n \in submitted : Complete(n)

-----------------------------------------------------------------------------
(* What the documents say and the code does not do                         *)

\* failure-model.md: "A run never transitions from a terminal state."
EndedStays == [][\A n \in Runs : run[n].status \in Terminal
                                   => run'[n].status = run[n].status]_vars

\* failure-model.md, "Duplicate submit (same idempotencyKey)": "Exactly one job/run
\* created; others return the existing one".
OneRunForOneKey ==
    \A m, n \in Runs : Exists(run[m]) /\ Exists(run[n]) /\ m # n
                         => \E k, l \in recorded : k # l
=============================================================================
