----------------------------- MODULE RunRecords -----------------------------
(***************************************************************************)
(* The statuses of runs (status.ts) and the run and job records of         *)
(* DistributedWorkflowStore (distributed-store.ts): what the store does    *)
(* with a record a process wants to write.                                 *)
(***************************************************************************)
EXTENDS Integers

RunStatus == {"queued", "running", "verifying", "completed", "failed",
              "cancel_requested", "cancelled"}

Terminal == {"completed", "failed", "cancelled"}

\* VALID_RUN_TRANSITIONS, for the statuses that something in src/ writes.
ValidTransitions ==
    [queued           |-> {"running", "failed", "cancelled"},
     running          |-> {"verifying", "failed", "cancelled", "cancel_requested"},
     verifying        |-> {"completed", "failed", "cancel_requested", "cancelled"},
     completed        |-> {},
     failed           |-> {"queued"},
     cancel_requested |-> {"cancelled", "completed", "failed"},
     cancelled        |-> {}]

CanTransition(from, to) == to \in ValidTransitions[from]

Record    == [status : RunStatus, version : Nat \cup {-1}]
NoRecord  == [status |-> "queued", version |-> -1]    \* absent

\* transitionRun: stored becomes the run in status to, if it still is the run
\* that was read and the step is a legal one.
Moves(stored, read, to) == stored = read /\ CanTransition(read.status, to)
Moved(run, to)          == [run EXCEPT !.status = to, !.version = @ + 1]

AfterTransition_Unversioned(stored, read, to) ==
    IF CanTransition(read.status, to) THEN Moved(stored, to) ELSE stored

AfterTransition(stored, read, to) ==
    IF Moves(stored, read, to) THEN Moved(stored, to) ELSE stored

\* saveJob refuses a record whose version is not beyond the stored one.
SaveJobAccepts(stored, job) == stored.version < job.version

\* saveRun refuses a record whose version is behind the stored one.
SaveRunAccepts(stored, run) == stored.version <= run.version
=============================================================================
