---------------------------- MODULE RunLifecycle ----------------------------
(***************************************************************************)
(* How a run ends: processOne of any number of workers (worker.ts) with    *)
(* maybeFinalize, cancelRun and failRunBudget, the cancellation marker     *)
(* written by cancel() (distributed-runtime.ts), the usage counters and    *)
(* the deadline.                                                           *)
(*                                                                         *)
(* A run is ended in several calls to the backend, by any worker: one or   *)
(* two transitions of the run, each from the record that was read just     *)
(* before, whose failure nobody looks at, and a save of the job as ended.  *)
(*                                                                         *)
(* The execution of steps is reduced to less than what module              *)
(* StepExecution shows of it: a queued step, or a running one whose lease  *)
(* is over, may be taken by any worker; whether the worker still holds the *)
(* lease when that is checked is left open; stale and unchecked saves may  *)
(* set the records of a task and of its step back, those of a completed    *)
(* step included.  A worker may be handed the message of the run at any    *)
(* time (module DistributedQueue; reconcile puts it back while the run is  *)
(* not terminal).                                                          *)
(***************************************************************************)
EXTENDS RunRecords, Sequences, FiniteSets

CONSTANTS Workers,    \* worker processes
          Tasks,      \* tasks of the run; they do not depend on each other
          TaskOrder,  \* run.taskIds
          MaxCalls,   \* budget.maxModelCalls; every execution makes one call
          Deadline,   \* TRUE when the deadline of the run may pass
          Mortal,     \* workers that may die
          Stale,      \* tasks of which old copies are saved: a bound
          NoTask

ASSUME LifecycleAssumption ==
    /\ IsFiniteSet(Workers) /\ Mortal \subseteq Workers
    /\ TaskOrder \in Seq(Tasks)
    /\ \A t \in Tasks : \E i \in 1 .. Len(TaskOrder) : TaskOrder[i] = t
    /\ MaxCalls \in Nat /\ Deadline \in BOOLEAN
    /\ Stale \subseteq Tasks /\ NoTask \notin Tasks

VARIABLES
    run,      \* the run record
    job,      \* the job record
    marker,   \* the cancellation marker exists
    usage,    \* modelCalls of the run's usage record
    late,     \* the deadline has passed
    open,     \* open[t]: the current step of t is queued or running, not ended
    task,     \* task[t]: status of the task record
    worker,   \* worker[w]: where w is and what it has read
    tardy,    \* history: tardy[w], executions w began since the marker exists
    done,     \* history: the tasks of which some result was committed
    kept      \* history: executions begun, less those that ended uncounted

steps   == <<open, task, done>>
calls   == <<usage, kept>>
vars    == <<run, job, marker, late, calls, steps, worker, tardy>>

\* The status a run is moved to first when it is ended; then it is moved to the last.
Via_Direct(how)  == how
Via_Expired(how) == IF how = "failed" THEN "expired" ELSE how
Via(how) == CASE how = "completed" -> "verifying"
              [] how = "cancelled" -> "cancel_requested"
              [] how = "failed"    -> "failed"

Locations == {"idle", "marker", "release", "guard", "execute", "saveTask",
              "usage", "recheck", "finalize", "read", "move", "getJob", "saveJob",
              "dead"}

Worker == [pc      : Locations,
           run     : Record,                 \* the run as it read it
           job     : Record,                 \* the job as it read it
           task    : Tasks \cup {NoTask},    \* the task whose step it has
           outcome : {"none", "ok", "retry", "final"},
           rest    : Seq(Tasks),             \* tasks maybeFinalize has yet to read
           to      : RunStatus,              \* the status it moves the run to next
           final   : Terminal]               \* how it ends the run

Idle == [pc |-> "idle", run |-> NoRecord, job |-> NoRecord, task |-> NoTask,
         outcome |-> "none", rest |-> <<>>, to |-> "completed", final |-> "completed"]

TypeOK ==
    /\ run \in Record /\ job \in Record
    /\ marker \in BOOLEAN /\ late \in BOOLEAN
    /\ usage \in Nat
    /\ open \in [Tasks -> BOOLEAN]
    /\ task \in [Tasks -> {"queued", "completed"}]
    /\ worker \in [Workers -> Worker]
    /\ tardy \in [Workers -> Nat]
    /\ done \subseteq Tasks
    /\ kept \in Int

\* submit() has written the run twice and the job once.
Init ==
    /\ run = [status |-> "running", version |-> 2]
    /\ job = [status |-> "running", version |-> 0]
    /\ marker = FALSE /\ late = FALSE
    /\ usage = 0
    /\ open = [t \in Tasks |-> TRUE]
    /\ task = [t \in Tasks |-> "queued"]
    /\ worker = [w \in Workers |-> Idle]
    /\ tardy = [w \in Workers |-> 0]
    /\ done = {} /\ kept = 0

At(w, l)     == worker[w].pc = l
Become(w, r) == worker' = [worker EXCEPT ![w] = r]
Goto(w, l)   == Become(w, [worker[w] EXCEPT !.pc = l])
Leave(w)     == Become(w, Idle)

\* w sets out to end the run.
End(w, how) ==
    Become(w, [Idle EXCEPT !.pc = "read", !.to = Via(how), !.final = how])

\* w looks whether all the tasks are terminal.
LookAtTasks(w) == Become(w, [Idle EXCEPT !.pc = "finalize", !.rest = TaskOrder])

-----------------------------------------------------------------------------
(* processOne, up to the execution                                         *)

\* The message is claimed and the run read; for a terminal run, or none, the
\* message is acked.
Poll(w) ==
    /\ At(w, "idle")
    /\ IF run.status \in Terminal
       THEN UNCHANGED worker
       ELSE Goto(w, "marker")
    /\ UNCHANGED <<run, job, marker, late, calls, steps, tardy>>

ReadMarker_Ignored(w) ==
    /\ At(w, "marker")
    /\ Goto(w, "release")
    /\ UNCHANGED <<run, job, marker, late, calls, steps, tardy>>

ReadMarker(w) ==
    /\ At(w, "marker")
    /\ IF marker THEN End(w, "cancelled") ELSE Goto(w, "release")
    /\ UNCHANGED <<run, job, marker, late, calls, steps, tardy>>

\* releaseSteps reads the run again.  The first step that can be taken is taken: a
\* queued one, or a running one whose lease happens to be over.  Past the deadline all
\* of those are failed on the spot, and the message is retried later.
Release(w) ==
    /\ At(w, "release")
    /\ run.status \notin Terminal \cup {"cancel_requested"}
    /\ \/ /\ ~late
          /\ \E t \in Tasks :
               open[t] /\ Become(w, [worker[w] EXCEPT !.pc = "guard", !.task = t])
          /\ UNCHANGED open
       \/ /\ late
          /\ \E S \in SUBSET Tasks : open' = [t \in Tasks |-> open[t] /\ t \notin S]
          /\ Leave(w)
    /\ UNCHANGED <<run, job, marker, late, calls, task, done, tardy>>

\* Nothing to release, or only steps that others hold or take first: the message is
\* retried later.
NothingToRelease(w) ==
    /\ At(w, "release")
    /\ Leave(w)
    /\ UNCHANGED <<run, job, marker, late, calls, steps, tardy>>

Breach == usage > MaxCalls \/ late

\* The executor is called.
Execute(w) ==
    /\ Goto(w, "execute")
    /\ kept' = kept + 1
    /\ tardy' = [tardy EXCEPT ![w] = IF marker THEN @ + 1 ELSE @]

\* guardBudget before the execution: a breach ends the run; the step stays as it
\* is.  A worker that is not the owner of the lease by now lets go of the message.
Guard_Skipped(w) ==
    /\ At(w, "guard")
    /\ \/ Execute(w)
       \/ Leave(w) /\ UNCHANGED <<kept, tardy>>
    /\ UNCHANGED <<run, job, marker, usage, late, steps>>

Guard(w) ==
    /\ At(w, "guard")
    /\ \/ Breach /\ End(w, "failed") /\ UNCHANGED <<kept, tardy>>
       \/ ~Breach /\ Leave(w) /\ UNCHANGED <<kept, tardy>>
       \/ ~Breach /\ Execute(w)
    /\ UNCHANGED <<run, job, marker, usage, late, steps>>

-----------------------------------------------------------------------------
(* The executor returns a result or an error, which is committed           *)

\* The execution of w is over, and its call is not in usage and never will be.
Uncounted == kept' = kept - 1 /\ UNCHANGED usage

\* completeStep saves the step, then the task.  A lost lease rejects it: the message
\* is retried, and what the execution used is not counted.
Complete(w) ==
    /\ At(w, "execute")
    /\ \/ /\ open' = [open EXCEPT ![worker[w].task] = FALSE]
          /\ done' = done \cup {worker[w].task}
          /\ Become(w, [worker[w] EXCEPT !.pc = "saveTask", !.outcome = "ok"])
          /\ UNCHANGED calls
       \/ Leave(w) /\ Uncounted /\ UNCHANGED <<open, done>>
    /\ UNCHANGED <<run, job, marker, late, task, tardy>>

SaveTask(w) ==
    /\ At(w, "saveTask")
    /\ task' = [task EXCEPT ![worker[w].task] = "completed"]
    /\ Goto(w, "usage")
    /\ UNCHANGED <<run, job, marker, late, calls, open, done, tardy>>

\* failStep, for an error that is to be retried or not; a failure that could not be
\* saved is not retried.
Fail(w) ==
    /\ At(w, "execute")
    /\ \/ /\ open' = [open EXCEPT ![worker[w].task] = FALSE]
          /\ \E o \in {"retry", "final"} :
                Become(w, [worker[w] EXCEPT !.pc = "usage", !.outcome = o])
       \/ /\ Become(w, [worker[w] EXCEPT !.pc = "usage", !.outcome = "final"])
          /\ UNCHANGED open
    /\ UNCHANGED <<run, job, marker, late, calls, task, done, tardy>>

\* The executor throws: the lease is revoked and the message retried.
Throw(w) ==
    /\ At(w, "execute")
    /\ Leave(w) /\ Uncounted
    /\ UNCHANGED <<run, job, marker, late, steps, tardy>>

\* accumulateUsage, which gives up when four swaps in a row are lost, and nobody
\* looks at that; then a completed step is checked against the budget, a failed one
\* is followed by its retry, or else the run may be over.
AddUsage(w) ==
    /\ At(w, "usage")
    /\ \/ usage' = usage + 1 /\ UNCHANGED kept
       \/ Uncounted
    /\ \/ worker[w].outcome = "ok" /\ Goto(w, "recheck") /\ UNCHANGED open
       \/ /\ worker[w].outcome = "retry" /\ ~late
          /\ open' = [open EXCEPT ![worker[w].task] = TRUE]
          /\ Leave(w)
       \/ /\ worker[w].outcome = "final" \/ (worker[w].outcome = "retry" /\ late)
          /\ LookAtTasks(w)
          /\ UNCHANGED open
    /\ UNCHANGED <<run, job, marker, late, task, done, tardy>>

\* guardBudget again: the step may have pushed the run over its budget.
Recheck(w) ==
    /\ At(w, "recheck")
    /\ IF Breach
       THEN End(w, "failed")
       ELSE LookAtTasks(w)
    /\ UNCHANGED <<run, job, marker, late, calls, steps, tardy>>

-----------------------------------------------------------------------------
(* maybeFinalize, cancelRun, failRunBudget                                 *)

\* The tasks are read one by one.  No task is ever written as failed or cancelled,
\* so the only way the run can end here is completed.
Finalize_SomeDone(w) ==
    /\ At(w, "finalize")
    /\ End(w, "completed")
    /\ UNCHANGED <<run, job, marker, late, calls, steps, tardy>>

Finalize(w) ==
    /\ At(w, "finalize")
    /\ LET rest == worker[w].rest IN
       \/ rest = <<>> /\ End(w, "completed")
       \/ /\ rest # <<>> /\ task[Head(rest)] = "completed"
          /\ Become(w, [worker[w] EXCEPT !.rest = Tail(rest)])
       \/ rest # <<>> /\ task[Head(rest)] # "completed" /\ Leave(w)
    /\ UNCHANGED <<run, job, marker, late, calls, steps, tardy>>

\* The latest run is read ...
Read(w) ==
    /\ At(w, "read")
    /\ Become(w, [worker[w] EXCEPT !.pc = "move", !.run = run])
    /\ UNCHANGED <<run, job, marker, late, calls, steps, tardy>>

\* ... and moved on, if nothing happened to it since; the outcome is not looked at.
Move(w) ==
    /\ At(w, "move")
    /\ run' = AfterTransition(run, worker[w].run, worker[w].to)
    /\ Become(w, [worker[w] EXCEPT
                    !.pc  = IF worker[w].to = worker[w].final THEN "getJob" ELSE "read",
                    !.run = NoRecord, !.to = worker[w].final])
    /\ UNCHANGED <<job, marker, late, calls, steps, tardy>>

GetJob(w) ==
    /\ At(w, "getJob")
    /\ Become(w, [worker[w] EXCEPT !.pc = "saveJob", !.job = job])
    /\ UNCHANGED <<run, job, marker, late, calls, steps, tardy>>

\* The job is saved as ended whatever became of the run.
SaveJob(w) ==
    /\ At(w, "saveJob")
    /\ LET next == [status |-> worker[w].final, version |-> worker[w].job.version + 1]
       IN  job' = IF SaveJobAccepts(job, next) THEN next ELSE job
    /\ Leave(w)
    /\ UNCHANGED <<run, marker, late, calls, steps, tardy>>

-----------------------------------------------------------------------------
(* The environment                                                         *)

\* cancel(): the job was not terminal when it was read; the marker is written once.
Cancel ==
    /\ ~marker
    /\ marker' = TRUE
    /\ UNCHANGED <<run, job, late, calls, steps, worker, tardy>>

PassDeadline ==
    /\ Deadline /\ ~late
    /\ late' = TRUE
    /\ UNCHANGED <<run, job, marker, calls, steps, worker, tardy>>

\* Saves of the copies of a task and of a step that a worker has read some time ago:
\* the step is open again, or the task points to another attempt (the unchecked reset
\* of releaseSteps, see CompletedNeverReverted in StepExecution; the task saves of
\* completeStep, failStep and spawnRetry).  A copy shows what once was saved: the task
\* is completed in it only if a result was committed.
Overwrite(t) ==
    /\ \E o \in BOOLEAN : open' = [open EXCEPT ![t] = o]
    /\ \/ task' = [task EXCEPT ![t] = "queued"]
       \/ t \in done /\ task' = [task EXCEPT ![t] = "completed"]
    /\ UNCHANGED <<run, job, marker, late, calls, done, worker, tardy>>

\* A worker dies, wherever it is; the call of an execution it has not counted is lost.
InFlight(w) == worker[w].pc \in {"execute", "saveTask", "usage"}

Crash(w) ==
    /\ ~At(w, "dead")
    /\ Become(w, [Idle EXCEPT !.pc = "dead"])
    /\ IF InFlight(w) THEN Uncounted ELSE UNCHANGED calls
    /\ UNCHANGED <<run, job, marker, late, steps, tardy>>

-----------------------------------------------------------------------------
Settle(w) == Complete(w) \/ SaveTask(w) \/ Fail(w) \/ Throw(w) \/ AddUsage(w) \/ Recheck(w)

WorkerStep(w) ==
    \/ Poll(w) \/ ReadMarker(w) \/ Release(w) \/ NothingToRelease(w) \/ Guard(w)
    \/ Settle(w)
    \/ Finalize(w) \/ Read(w) \/ Move(w) \/ GetJob(w) \/ SaveJob(w)

Next == \/ \E w \in Workers : WorkerStep(w)
        \/ Cancel
        \/ PassDeadline
        \/ \E t \in Stale : Overwrite(t)
        \/ \E w \in Mortal : Crash(w)

Spec == Init /\ [][Next]_vars

\* A worker that is alive goes on polling, and executors return.
Fairness == \A w \in Workers : WF_vars(WorkerStep(w))
FairSpec == Spec /\ Fairness

-----------------------------------------------------------------------------
(* Safety                                                                  *)

\* failure-model.md: a run never transitions from a terminal state, however many
\* workers are ending it, each in its own way.
TerminalStays == [][run.status \in Terminal => run' = run]_vars

\* A run is completed only when a result of each of its tasks has been committed,
\* although maybeFinalize reads the tasks one by one while others execute and save
\* them, and old copies are saved over them.  (A step of it may be running again: a
\* completed step can be set back, see CompletedNeverReverted in StepExecution.)
CompletedIsDone == run.status = "completed" => Tasks \subseteq done

\* Budget: workers check it, execute and count at different times, and count a call
\* only after the step was saved.  The executions that are in usage, or will be, exceed
\* the budget by no more than one for each worker.  (What a rejected, thrown or
\* interrupted execution used, or a count that gave up, is never counted at all.)
OverrunBounded == kept <= MaxCalls + Cardinality(Workers)

\* Cancellation: once the marker exists, a worker begins at most the one execution
\* it was about to begin.
CancelStopsWork == \A w \in Workers : tardy[w] <= 1

\* A job that is shown as ended belongs to a run that is ended, or that somebody
\* has begun to end: it cannot be running as if nothing had happened.
JobNotAhead ==
    job.status \in Terminal
      => run.status \in Terminal \cup {"verifying", "cancel_requested"}

-----------------------------------------------------------------------------
(* Liveness, under FairSpec                                                *)

\* A cancelled run ends, although workers die in the middle of ending it, another
\* worker moves it at the same time, and half of cancelRun's transitions may fail.
CancelEndsRun == marker ~> run.status \in Terminal

-----------------------------------------------------------------------------
(* What the documents say and the code does not do                         *)

\* deadlines.ts: once deadlineAt is exceeded, "the run is moved to expired".
DeadlineEndsRun == late ~> run.status \in Terminal

\* failure-model.md, "Stuck in verifying": "any worker re-observes all tasks
\* terminal and transitions to completed".
VerifyingEnds == run.status = "verifying" ~> run.status # "verifying"
=============================================================================
