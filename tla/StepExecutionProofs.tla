------------------------- MODULE StepExecutionProofs -------------------------
(***************************************************************************)
(* Theorems about StepExecution for any number of workers, tasks, attempts *)
(* and leases, checked by TLAPS: the state keeps its types (TypeCorrect),  *)
(* a step is only ever completed by the worker that started it last        *)
(* (FencingCorrect), two workers execute a step at once only after a       *)
(* lease was lost in use (SingleFlightCorrect), it implements FencedStep   *)
(* (FencingImplemented), and task records tell the truth about steps       *)
(* (DependentsCorrect, CurrentCorrect).                                    *)
(*                                                                         *)
(* The proofs of the invariants argue by what a step of one worker         *)
(* guarantees to the others (Guarantee, Respects, Lasting): a lemma shows  *)
(* that every operation gives the guarantee, another that the guarantee    *)
(* keeps the part of the invariant of a worker that does not move, a third *)
(* that a worker keeps its own part.                                       *)
(***************************************************************************)
EXTENDS StepExecution, TLAPS

-----------------------------------------------------------------------------
(* Type correctness                                                        *)

\* A worker that is past releaseSteps' choice of a task is busy with a step.
KeyOK ==
    \A w \in Workers :
        worker[w].pc \notin {"idle", "readTask", "dead"} => worker[w].key \in Keys

\* A retry is spawned only while attempts are left: the next one is a step id.
SpawnOK ==
    \A w \in Workers :
        At(w, "spawnStep") => worker[w].key[2] \in 1 .. MaxRetries

TypeInv == TypeOK /\ KeyOK /\ SpawnOK

-----------------------------------------------------------------------------
(* What the constants and the records of the module are                    *)

\* The initial values have their types.
LEMMA TypeFacts ==
    /\ FreshTask \in Task /\ NoStep \in Step /\ FreshStep \in Step
    /\ NoLease \in Lease /\ Idle \in Worker
BY ExecutionAssumption
   DEF FreshTask, NoStep, FreshStep, NoLease, Idle, Task, Step, Lease, Worker,
       Attempts, Keys, NoKey, Locations

\* The part of TypeInv that is about the workers.
WorkersOK == worker \in [Workers -> Worker] /\ KeyOK /\ SpawnOK

\* A worker that becomes a well-typed record keeps the types.
LEMMA BecomeType ==
    ASSUME TypeInv, NEW w \in Workers, NEW r \in Worker, Become(w, r),
           r.pc \notin {"idle", "readTask", "dead"} => r.key \in Keys,
           r.pc = "spawnStep" => r.key[2] \in 1 .. MaxRetries
    PROVE  WorkersOK'
BY DEF Become, TypeInv, TypeOK, KeyOK, SpawnOK, At, WorkersOK

\* So does a worker that only moves on,
LEMMA GotoType ==
    ASSUME TypeInv, NEW w \in Workers, NEW l \in Locations, Goto(w, l),
           l \notin {"idle", "readTask", "dead"} => worker[w].key \in Keys,
           l = "spawnStep" => worker[w].key[2] \in 1 .. MaxRetries
    PROVE  WorkersOK'
<1> DEFINE r == [worker[w] EXCEPT !.pc = l]
<1>1. r \in Worker /\ r.pc = l /\ r.key = worker[w].key
  BY DEF TypeInv, TypeOK, Worker
<1>2. Become(w, r)
  BY DEF Goto
<1> QED
  BY <1>1, <1>2, BecomeType

\* one that is done,
LEMMA LeaveType ==
    ASSUME TypeInv, NEW w \in Workers, Leave(w)
    PROVE  WorkersOK'
<1>1. Idle \in Worker /\ Idle.pc = "idle"
  BY TypeFacts DEF Idle
<1>2. Become(w, Idle)
  BY DEF Leave
<1> QED
  BY <1>1, <1>2, BecomeType

\* saveStep writes a step,
LEMMA SaveType ==
    ASSUME TypeInv, NEW w \in Workers, worker[w].key \in Keys,
           NEW s \in {"queued", "running", "completed", "failed"}, Save(w, s)
    PROVE  step' \in [Keys -> Step]
<1>1. [status |-> s, version |-> worker[w].step.version + 1] \in Step
  BY DEF TypeInv, TypeOK, Worker, Step
<1> QED
  BY <1>1 DEF Save, TypeInv, TypeOK

\* revoke writes a lease,
LEMMA RevokeType ==
    ASSUME TypeInv, NEW w \in Workers, worker[w].key \in Keys, RevokeLease(w)
    PROVE  lease' \in [Keys -> Lease]
<1>1. lease[worker[w].key] \in Lease
  BY DEF TypeInv, TypeOK
<1>2. [lease[worker[w].key] EXCEPT !.live = FALSE] \in Lease
  BY <1>1 DEF Lease
<1> QED
  BY <1>2 DEF RevokeLease, TypeInv, TypeOK

\* What a worker remembers, and what it finds under the step it is busy with.
LEMMA WorkerType ==
    ASSUME TypeInv, NEW w \in Workers
    PROVE  /\ worker[w] \in Worker /\ worker[w].pc \in Locations
           /\ worker[w].rest \in Seq(Tasks)
           /\ worker[w].step \in Step /\ worker[w].lease \in Lease
           /\ worker[w].task \in Task /\ worker[w].draft \in Task
           /\ worker[w].stored \in Task
           /\ worker[w].pc \notin {"idle", "readTask", "dead"}
                => /\ worker[w].key \in Keys
                   /\ worker[w].key[1] \in Tasks /\ worker[w].key[2] \in Attempts
                   /\ step[worker[w].key] \in Step
                   /\ lease[worker[w].key] \in Lease
                   /\ task[worker[w].key[1]] \in Task
<1>1. worker[w] \in Worker
  BY DEF TypeInv, TypeOK
<1>2. worker[w].pc \notin {"idle", "readTask", "dead"} => worker[w].key \in Keys
  BY DEF TypeInv, KeyOK
<1> QED
  BY <1>1, <1>2 DEF TypeInv, TypeOK, Worker, Keys

\* and so does renew.
LEMMA RenewedType ==
    ASSUME NEW l \in Lease
    PROVE  [l EXCEPT !.version = @ + 1, !.live = TRUE] \in Lease
<1>1. l.version + 1 \in Nat
  BY DEF Lease
<1> QED
  BY <1>1 DEF Lease

\* completeStep and failStep write a task.
LEMMA AdvancedType ==
    ASSUME NEW w \in Workers, NEW t \in Task
    PROVE  Advanced(w, t) \in Task
<1>1. t.version + 1 \in Nat
  BY DEF Task
<1>2. (IF worker[w].outcome = "ok" THEN "completed" ELSE t.status) \in {"queued", "completed"}
  BY DEF Task
<1> QED
  BY <1>1, <1>2 DEF Advanced, Task

\* A worker that has read a step keeps the types,
LEMMA StepReadType ==
    ASSUME TypeInv, NEW w \in Workers, NEW l \in Locations, NEW s \in Step,
           worker[w].key \in Keys, l # "spawnStep", GotoWithStep(w, l, s)
    PROVE  WorkersOK'
<1> DEFINE r == [worker[w] EXCEPT !.pc = l, !.step = s]
<1>1. r \in Worker /\ r.pc = l /\ r.key = worker[w].key
  BY DEF TypeInv, TypeOK, Worker
<1>2. Become(w, r)
  BY DEF GotoWithStep
<1> QED
  BY <1>1, <1>2, BecomeType

\* one that has taken a lease,
LEMMA LeaseReadType ==
    ASSUME TypeInv, NEW w \in Workers, NEW l \in Locations, NEW x \in Lease,
           worker[w].key \in Keys, l # "spawnStep", GotoWithLease(w, l, x)
    PROVE  WorkersOK'
<1> DEFINE r == [worker[w] EXCEPT !.pc = l, !.lease = x]
<1>1. r \in Worker /\ r.pc = l /\ r.key = worker[w].key
  BY DEF TypeInv, TypeOK, Worker
<1>2. Become(w, r)
  BY DEF GotoWithLease
<1> QED
  BY <1>1, <1>2, BecomeType

\* and one that has found a queued step.
LEMMA ToRunType ==
    ASSUME TypeInv, NEW w \in Workers, NEW s \in Step, worker[w].key \in Keys, ToRun(w, s)
    PROVE  WorkersOK'
<1> DEFINE l == IF late THEN "failSave" ELSE "claim"
           o == IF late THEN "late" ELSE "none"
           r == [worker[w] EXCEPT !.pc = l, !.step = s, !.outcome = o]
<1>1. l \in {"failSave", "claim"} /\ o \in {"late", "none"}
  OBVIOUS
<1>2. Become(w, r)
  BY DEF ToRun
<1> HIDE DEF l, o
<1>3. worker[w] \in Worker /\ l \in Locations /\ o \in {"none", "ok", "retryable", "final", "late"}
  BY <1>1, WorkerType DEF Locations
<1>4. r \in Worker /\ r.pc = l /\ r.key = worker[w].key
  BY <1>3 DEF Worker
<1> QED
  BY <1>1, <1>2, <1>4, BecomeType

\* Every step of a worker keeps the types.
LEMMA TypeWorker ==
    ASSUME TypeInv, NEW w \in Workers, WorkerStep(w) \/ Throw(w)
    PROVE  TypeInv'
<1>1. CASE Poll(w)
  <2>1. WorkersOK'
    BY <1>1, WorkerType, BecomeType, ExecutionAssumption DEF Poll, At, Worker, Locations
  <2> QED
    BY <1>1, <2>1 DEF Poll, TypeInv, TypeOK, WorkersOK, history
<1>2. CASE ReadTask(w)
  <2> DEFINE t == Head(worker[w].rest)
             r == [Idle EXCEPT
                     !.pc   = IF DependsOn[t] = {} THEN "readStep" ELSE "checkDeps",
                     !.rest = Tail(worker[w].rest),
                     !.key  = <<t, task[t].attempt>>]
  <2>1. CASE worker[w].rest = <<>>
    <3>1. Leave(w)
      BY <1>2, <2>1 DEF ReadTask
    <3> QED
      BY <1>2, <3>1, LeaveType DEF ReadTask, TypeInv, TypeOK, WorkersOK, history
  <2>2. CASE worker[w].rest # <<>>
    <3>1. t \in Tasks /\ Tail(worker[w].rest) \in Seq(Tasks)
      BY <2>2, WorkerType
    <3>2. <<t, task[t].attempt>> \in Keys
      BY <3>1 DEF TypeInv, TypeOK, Task, Keys
    <3>3. r \in Worker /\ r.key \in Keys /\ r.pc \in {"readStep", "checkDeps"}
      BY <3>1, <3>2, TypeFacts DEF Worker, Locations
    <3>4. Become(w, r)
      BY <1>2, <2>2 DEF ReadTask
    <3>5. WorkersOK'
      BY <3>3, <3>4, BecomeType
    <3> QED
      BY <1>2, <3>5 DEF ReadTask, TypeInv, TypeOK, WorkersOK, history
  <2> QED
    BY <2>1, <2>2
<1>3. CASE CheckDeps(w)
  <2>1. WorkersOK'
    BY <1>3, WorkerType, GotoType DEF CheckDeps, At, Locations
  <2> QED
    BY <1>3, <2>1 DEF CheckDeps, TypeInv, TypeOK, WorkersOK, history
<1>4. CASE ReadStep(w)
  <2>1. WorkersOK'
    BY <1>4, WorkerType, GotoType, StepReadType, ToRunType DEF ReadStep, At, Locations
  <2> QED
    BY <1>4, <2>1 DEF ReadStep, TypeInv, TypeOK, WorkersOK, history
<1>5. CASE ReadLease(w)
  <2>1. WorkersOK'
    BY <1>5, WorkerType, GotoType DEF ReadLease, At, Free, Locations
  <2> QED
    BY <1>5, <2>1 DEF ReadLease, TypeInv, TypeOK, WorkersOK, history
<1>6. CASE Reset(w)
  <2> DEFINE s == [status |-> "queued", version |-> worker[w].step.version + 1]
  <2>1. s \in Step
    BY WorkerType DEF Step
  <2>2. WorkersOK'
    BY <1>6, <2>1, WorkerType, ToRunType DEF Reset, At
  <2>3. step' \in [Keys -> Step]
    BY <1>6, WorkerType, SaveType DEF Reset, At, TypeInv, TypeOK
  <2> QED
    BY <1>6, <2>2, <2>3 DEF Reset, TypeInv, TypeOK, WorkersOK, history
<1>7. CASE Claim(w)
  <2> DEFINE k   == worker[w].key
             v   == lease[k].version + 1
             new == [id |-> v, owner |-> w, version |-> v, live |-> TRUE]
  <2>1. k \in Keys /\ v \in Nat
    BY <1>7, WorkerType DEF Claim, At, Lease
  <2>2. new \in Lease
    BY <2>1 DEF Lease
  <2>3. WorkersOK'
    BY <1>7, <2>1, <2>2, GotoType, LeaseReadType DEF Claim, Locations
  <2>4. lease' \in [Keys -> Lease]
    BY <1>7, <2>2 DEF Claim, TypeInv, TypeOK
  <2> QED
    BY <1>7, <2>3, <2>4 DEF Claim, TypeInv, TypeOK, WorkersOK, history
<1>8. CASE Start(w)
  <2>1. WorkersOK'
    BY <1>8, WorkerType, GotoType DEF Start, At, Locations
  <2>2. step' \in [Keys -> Step]
    BY <1>8, WorkerType, SaveType DEF Start, At, TypeInv, TypeOK
  <2>3. runner' \in [Keys -> Nat]
    BY <1>8, WorkerType DEF Start, TypeInv, TypeOK, Lease
  <2> QED
    BY <1>8, <2>1, <2>2, <2>3 DEF Start, TypeInv, TypeOK, WorkersOK, history
<1>9. CASE Rollback(w)
  <2>1. WorkersOK'
    BY <1>9, WorkerType, GotoType DEF Rollback, At, Locations
  <2> QED
    BY <1>9, <2>1, WorkerType, RevokeType
       DEF Rollback, At, TypeInv, TypeOK, WorkersOK, history
<1>10. CASE RereadStep(w)
  <2>1. WorkersOK'
    BY <1>10, WorkerType, StepReadType DEF RereadStep, At, Worker, Locations
  <2> QED
    BY <1>10, <2>1 DEF RereadStep, TypeInv, TypeOK, WorkersOK, history
<1>11. CASE RereadTask(w)
  <2>1. WorkersOK'
    BY <1>11, WorkerType, BecomeType DEF RereadTask, At, Worker, Locations
  <2> QED
    BY <1>11, <2>1 DEF RereadTask, TypeInv, TypeOK, WorkersOK, history
<1>12. CASE CheckLease(w)
  <2>1. WorkersOK'
    BY <1>12, WorkerType, LeaveType, LeaseReadType DEF CheckLease, At, Worker, Locations
  <2> QED
    BY <1>12, <2>1 DEF CheckLease, TypeInv, TypeOK, WorkersOK, history
<1>13. CASE Execute(w)
  <2>1. PICK o \in {"ok", "retryable", "final"} :
          Become(w, [worker[w] EXCEPT
                       !.pc = IF w \in Heartbeat THEN "renew" ELSE Commit(o),
                       !.outcome = o])
    BY <1>13 DEF Execute
  <2>2. (IF w \in Heartbeat THEN "renew" ELSE Commit(o)) \in {"renew", "completeRead", "failSave"}
    BY DEF Commit
  <2> DEFINE r == [worker[w] EXCEPT
                     !.pc = IF w \in Heartbeat THEN "renew" ELSE Commit(o),
                     !.outcome = o]
  <2>3. worker[w].key \in Keys
    BY <1>13, WorkerType DEF Execute, At
  <2>4. r \in Worker /\ r.pc \in {"renew", "completeRead", "failSave"} /\ r.key = worker[w].key
    BY <2>2, WorkerType DEF Worker, Locations
  <2>5. WorkersOK'
    BY <2>1, <2>3, <2>4, BecomeType
  <2> QED
    BY <1>13, <2>5 DEF Execute, TypeInv, TypeOK, WorkersOK, history
<1>14. CASE Throw(w)
  <2>1. WorkersOK'
    BY <1>14, WorkerType, GotoType DEF Throw, At, Locations
  <2> QED
    BY <1>14, <2>1 DEF Throw, TypeInv, TypeOK, WorkersOK, history
<1>15. CASE Renew(w)
  <2>1. WorkersOK'
    BY <1>15, WorkerType, GotoType DEF Renew, At, Commit, Locations
  <2> QED
    BY <1>15, <2>1 DEF Renew, TypeInv, TypeOK, WorkersOK, history
<1>16. CASE RenewCas(w)
  <2> DEFINE k == worker[w].key
  <2>1. WorkersOK'
    BY <1>16, WorkerType, GotoType DEF RenewCas, At, Commit, Locations
  <2>2. k \in Keys /\ lease[k] \in Lease
    BY <1>16, WorkerType DEF RenewCas, At
  <2>3. [lease[k] EXCEPT !.version = @ + 1, !.live = TRUE] \in Lease
    BY <2>2, RenewedType
  <2>4. lease' \in [Keys -> Lease]
    BY <1>16, <2>2, <2>3 DEF RenewCas, TypeInv, TypeOK
  <2> QED
    BY <1>16, <2>1, <2>4 DEF RenewCas, TypeInv, TypeOK, WorkersOK, history
<1>17. CASE CompleteRead(w)
  <2>1. WorkersOK'
    BY <1>17, WorkerType, StepReadType DEF CompleteRead, At, Worker, Locations
  <2> QED
    BY <1>17, <2>1 DEF CompleteRead, TypeInv, TypeOK, WorkersOK, history
<1>18. CASE Fence(w)
  <2>1. WorkersOK'
    BY <1>18, WorkerType, GotoType, LeaveType DEF Fence, At, Locations
  <2> QED
    BY <1>18, <2>1 DEF Fence, TypeInv, TypeOK, WorkersOK, history
<1>19. CASE CompleteSave(w)
  <2>1. WorkersOK'
    BY <1>19, WorkerType, GotoType, LeaveType DEF CompleteSave, At, Locations
  <2>2. accepted' \in [Keys -> Nat]
    BY <1>19, WorkerType DEF CompleteSave, At, Lease, TypeInv, TypeOK
  <2> QED
    BY <1>19, <2>1, <2>2, WorkerType, SaveType
       DEF CompleteSave, At, TypeInv, TypeOK, WorkersOK, history
<1>20. CASE FailSave(w)
  <2>1. WorkersOK'
    BY <1>20, WorkerType, GotoType, BecomeType DEF FailSave, At, Worker, Locations
  <2> QED
    BY <1>20, <2>1, WorkerType, SaveType
       DEF FailSave, At, TypeInv, TypeOK, WorkersOK, history
<1>21. CASE TaskRead(w)
  <2> DEFINE d == Advanced(w, task[worker[w].key[1]])
  <2>1. d \in Task
    BY <1>21, WorkerType, AdvancedType DEF TaskRead, At
  <2>2. Become(w, [worker[w] EXCEPT !.pc = "taskGet", !.draft = d])
    BY <1>21 DEF TaskRead
  <2> HIDE DEF d
  <2>3. WorkersOK'
    BY <1>21, <2>1, <2>2, WorkerType, BecomeType DEF TaskRead, At, Worker, Locations
  <2> QED
    BY <1>21, <2>3 DEF TaskRead, TypeInv, TypeOK, WorkersOK, history
<1>22. CASE TaskGet(w)
  <2>1. WorkersOK'
    BY <1>22, WorkerType, GotoType, LeaveType, BecomeType
       DEF TaskGet, At, SaveTaskGet, AfterTask, Worker, Locations
  <2> QED
    BY <1>22, <2>1 DEF TaskGet, SaveTaskGet, TypeInv, TypeOK, WorkersOK, history
<1>23. CASE TaskCas(w)
  <2>1. WorkersOK'
    BY <1>23, WorkerType, GotoType, LeaveType
       DEF TaskCas, At, SaveTaskCas, AfterTask, Locations
  <2> QED
    BY <1>23, <2>1, WorkerType
       DEF TaskCas, SaveTaskCas, TypeInv, TypeOK, WorkersOK, history
<1>24. CASE Revoke(w)
  <2>1. worker[w].key \in Keys /\ worker[w].key[2] \in Attempts
    BY <1>24, WorkerType DEF Revoke, At
  <2>2. Retries(w) => worker[w].key[2] \in 1 .. MaxRetries
    BY <2>1, ExecutionAssumption DEF Retries, Attempts
  <2>3. WorkersOK'
    BY <1>24, <2>1, <2>2, GotoType, LeaveType DEF Revoke, Locations
  <2>4. lease' \in [Keys -> Lease]
    BY <1>24, <2>1, RevokeType DEF Revoke
  <2> QED
    BY <1>24, <2>3, <2>4 DEF Revoke, TypeInv, TypeOK, WorkersOK, history
<1>25. CASE SpawnStep(w)
  <2> DEFINE d == [status  |-> "queued",
                   attempt |-> worker[w].key[2] + 1,
                   version |-> worker[w].task.version + 1]
  <2>1. worker[w].key \in Keys /\ worker[w].key[2] \in 1 .. MaxRetries
    BY <1>25, WorkerType DEF SpawnStep, At, TypeInv, SpawnOK
  <2>2. d \in Task
    BY <2>1, WorkerType, ExecutionAssumption DEF Task, Attempts
  <2>3. WorkersOK'
    <3>1. CASE Leave(w)
      BY <3>1, LeaveType
    <3>2. CASE Become(w, [worker[w] EXCEPT !.pc = "spawnGet", !.draft = d])
      <4>1. [worker[w] EXCEPT !.pc = "spawnGet", !.draft = d] \in Worker
        BY <2>2, WorkerType DEF Worker, Locations
      <4> QED
        BY <2>1, <3>2, <4>1, WorkerType, BecomeType DEF Worker
    <3> QED
      BY <1>25, <3>1, <3>2 DEF SpawnStep
  <2>4. step' \in [Keys -> Step]
    BY <1>25, TypeFacts DEF SpawnStep, Spawned, TypeInv, TypeOK
  <2> QED
    BY <1>25, <2>3, <2>4 DEF SpawnStep, TypeInv, TypeOK, WorkersOK, history
<1>26. CASE SpawnGet(w)
  <2>1. WorkersOK'
    BY <1>26, WorkerType, GotoType, LeaveType, BecomeType
       DEF SpawnGet, At, SaveTaskGet, Worker, Locations
  <2> QED
    BY <1>26, <2>1 DEF SpawnGet, SaveTaskGet, TypeInv, TypeOK, WorkersOK, history
<1>27. CASE SpawnCas(w)
  <2>1. WorkersOK'
    BY <1>27, WorkerType, GotoType, LeaveType DEF SpawnCas, At, SaveTaskCas, Locations
  <2> QED
    BY <1>27, <2>1, WorkerType
       DEF SpawnCas, SaveTaskCas, TypeInv, TypeOK, WorkersOK, history
<1>28. QED
  BY <1>1, <1>2, <1>3, <1>4, <1>5, <1>6, <1>7, <1>8, <1>9, <1>10, <1>11, <1>12,
     <1>13, <1>14, <1>15, <1>16, <1>17, <1>18, <1>19, <1>20, <1>21, <1>22, <1>23,
     <1>24, <1>25, <1>26, <1>27
     DEF WorkerStep, Release, Run, Complete, Settle, Spawn

\* Every step of the system keeps the types.
LEMMA TypeNext == TypeInv /\ [Next]_vars => TypeInv'
<1> SUFFICES ASSUME TypeInv, [Next]_vars PROVE TypeInv'
  OBVIOUS
<1>1. ASSUME NEW w \in Workers, WorkerStep(w) \/ Throw(w) PROVE TypeInv'
  BY <1>1, TypeWorker
<1>2. ASSUME NEW k \in Keys, Expire(k) PROVE TypeInv'
  <2>1. [lease[k] EXCEPT !.live = FALSE] \in Lease
    BY DEF TypeInv, TypeOK, Lease
  <2>2. lease' \in [Keys -> Lease] /\ lost' \subseteq Keys
    BY <1>2, <2>1 DEF Expire, TypeInv, TypeOK
  <2> QED
    BY <1>2, <2>2 DEF Expire, TypeInv, TypeOK, KeyOK, SpawnOK, At
<1>3. CASE PassDeadline
  BY <1>3 DEF PassDeadline, TypeInv, TypeOK, KeyOK, SpawnOK, At, history
<1>4. ASSUME NEW w \in Mortal, Crash(w) PROVE TypeInv'
  <2>1. w \in Workers
    BY ExecutionAssumption
  <2>2. [Idle EXCEPT !.pc = "dead"] \in Worker
    BY TypeFacts DEF Worker, Locations
  <2>3. WorkersOK'
    BY <1>4, <2>1, <2>2, BecomeType DEF Crash, Worker
  <2> QED
    BY <1>4, <2>3 DEF Crash, TypeInv, TypeOK, WorkersOK, history
<1>5. CASE UNCHANGED vars
  BY <1>5 DEF vars, TypeInv, TypeOK, KeyOK, SpawnOK, At
<1>6. QED
  BY <1>1, <1>2, <1>3, <1>4, <1>5 DEF Next

\* The initial state has them.
LEMMA TypeInit == Init => TypeInv
<1> SUFFICES ASSUME Init PROVE TypeInv
  OBVIOUS
<1>1. worker \in [Workers -> Worker] /\ \A w \in Workers : worker[w].pc = "idle"
  BY TypeFacts DEF Init, Idle
<1>2. step \in [Keys -> Step] /\ task \in [Tasks -> Task] /\ lease \in [Keys -> Lease]
  BY TypeFacts DEF Init
<1> QED
  BY <1>1, <1>2 DEF Init, TypeInv, TypeOK, KeyOK, SpawnOK, At

\* The state keeps its types: the shared records and what every worker
\* remembers, whichever worker does or loses what.
THEOREM TypeCorrect == Spec => []TypeOK
<1>1. TypeInv => TypeOK
  BY DEF TypeInv
<1> QED
  BY TypeInit, TypeNext, <1>1, PTL DEF Spec

-----------------------------------------------------------------------------
(* Fencing: the inductive invariant                                        *)

\* The step record that worker w brings back to saveStep is not from the future.
Readers == {"readLease", "reset", "claim", "start", "fence", "completeSave"}

ReadVersion(w) ==
    worker[w].pc \in Readers
      => worker[w].step.version <= step[worker[w].key].version

\* Between its claim and its fence, the lease w remembers is not newer than the
\* stored one; if w owns the stored one, that is the lease it remembers.
Started == {"rereadStep", "rereadTask", "checkLease", "execute", "renew",
            "renewCas", "completeRead", "fence"}
Holding == Started \cup {"start"}

HeldId(w) ==
    worker[w].pc \in Holding
      => /\ worker[w].lease.id <= lease[worker[w].key].id
         /\ lease[worker[w].key].owner = w
              => lease[worker[w].key].id = worker[w].lease.id

\* About to start a step under a lease that is not newer than the one the step was
\* last started under, w brings a stale step record: its save will be refused.
StaleStart(w) ==
    At(w, "start") /\ worker[w].lease.id <= runner[worker[w].key]
      => worker[w].step.version < step[worker[w].key].version

\* While its lease is still the stored one, w was the last to start the step.
CurrentRunner(w) ==
    worker[w].pc \in Started /\ lease[worker[w].key].id = worker[w].lease.id
      => runner[worker[w].key] = worker[w].lease.id

\* Past the fence, w was the last to start the step if its save is accepted: the
\* lease may be lost by now, but then the version of the step has moved.
CommitReady(w) ==
    At(w, "completeSave") /\ CanSave(w)
      => runner[worker[w].key] = worker[w].lease.id

WorkerFenced(w) == /\ ReadVersion(w) /\ HeldId(w)
                   /\ StaleStart(w) /\ CurrentRunner(w) /\ CommitReady(w)

\* A step was last started under a lease that exists, and renewals only raise the
\* version above the id.
LeaseIds ==
    \A k \in Keys : runner[k] <= lease[k].id /\ lease[k].id <= lease[k].version

FenceInv == LeaseIds /\ \A w \in Workers : WorkerFenced(w)

\* What a step of worker w (or of the environment) does to the records that the
\* others rely on: versions and lease ids never go back, and a step is started
\* only by a write of its record, under a lease not older than the last one.
Guarantee(w) ==
    \A k \in Keys :
        /\ step[k].version <= step'[k].version
        /\ \/ lease'[k].id = lease[k].id /\ lease'[k].owner = lease[k].owner
           \/ lease'[k].id > lease[k].id /\ lease'[k].owner = w
        /\ runner[k] <= runner'[k]
        /\ runner'[k] # runner[k] => step[k].version < step'[k].version
                                     /\ lease'[k] = lease[k]
        /\ runner'[k] <= lease'[k].id
        /\ lease'[k].id <= lease'[k].version

\* Versions and lease ids are numbers, before and after a step.
Numeric ==
    /\ \A k \in Keys : /\ step[k].version \in Nat /\ runner[k] \in Nat
                       /\ lease[k].id \in Nat /\ lease[k].version \in Nat
    /\ \A w \in Workers : /\ worker[w].step.version \in Nat
                          /\ worker[w].lease.id \in Nat
                          /\ worker[w].lease.version \in Nat

\* Types give numbers,
LEMMA Numbers == TypeInv => Numeric
BY WorkerType DEF Numeric, TypeInv, TypeOK, Step, Lease

\* before and after a step.
LEMMA NumbersNext == TypeInv' => Numeric'
BY Numbers, PTL

\* A worker between readLease and completeSave is busy with a step.
LEMMA BusyKey ==
    ASSUME TypeInv, NEW w \in Workers, worker[w].pc \in Readers \cup Holding
    PROVE  worker[w].key \in Keys
BY DEF TypeInv, KeyOK, Readers, Holding, Started

\* What the others rely on is enough for a worker that does not move.
LEMMA OthersFenced ==
    ASSUME TypeInv, TypeInv', FenceInv, NEW w, NEW v \in Workers, v # w,
           Guarantee(w), worker'[v] = worker[v]
    PROVE  WorkerFenced(v)'
<1> DEFINE k == worker[v].key
<1>0. Numeric /\ Numeric'
  BY Numbers, NumbersNext
<1>1. CASE worker[v].pc \in Readers \cup Holding
  <2>1. k \in Keys
    BY <1>1, BusyKey
  <2>2. ReadVersion(v)'
    BY <1>0, <2>1 DEF Numeric, FenceInv, WorkerFenced, ReadVersion, Guarantee
  <2>3. HeldId(v)'
    BY <1>0, <2>1 DEF Numeric, FenceInv, WorkerFenced, HeldId, Guarantee
  <2>4. StaleStart(v)'
    BY <1>0, <2>1 DEF Numeric, FenceInv, WorkerFenced, ReadVersion, StaleStart, Guarantee,
                         At, Readers
  <2>5. CurrentRunner(v)'
    BY <1>0, <2>1
       DEF Numeric, FenceInv, WorkerFenced, HeldId, CurrentRunner, Guarantee, Holding
  <2>6. CommitReady(v)'
    BY <1>0, <2>1
       DEF Numeric, FenceInv, WorkerFenced, ReadVersion, CommitReady, Guarantee,
                         At, CanSave, Readers
  <2> QED
    BY <2>2, <2>3, <2>4, <2>5, <2>6 DEF WorkerFenced
<1>2. CASE worker[v].pc \notin Readers \cup Holding
  BY <1>2 DEF WorkerFenced, ReadVersion, HeldId, StaleStart, CurrentRunner, CommitReady,
              At, Readers, Holding, Started
<1> QED
  BY <1>1, <1>2

\* What Become, Goto and Leave say of the worker that moves and of the others.
LEMMA BecomeIs ==
    ASSUME TypeInv, NEW w \in Workers, NEW r, Become(w, r)
    PROVE  worker'[w] = r /\ \A v \in Workers \ {w} : worker'[v] = worker[v]
BY DEF Become, TypeInv, TypeOK

\* A worker that moves on keeps what it remembers.
LEMMA GotoIs ==
    ASSUME TypeInv, NEW w \in Workers, NEW l, Goto(w, l)
    PROVE  /\ worker'[w].pc = l /\ worker'[w].key = worker[w].key
           /\ worker'[w].step = worker[w].step /\ worker'[w].lease = worker[w].lease
<1>1. worker'[w] = [worker[w] EXCEPT !.pc = l]
  BY BecomeIs DEF Goto
<1> QED
  BY <1>1, WorkerType DEF Worker

\* A step of w moves no other worker.
LEMMA OthersStay ==
    ASSUME TypeInv, NEW w \in Workers, WorkerStep(w) \/ Throw(w)
    PROVE  \A v \in Workers \ {w} : worker'[v] = worker[v]
<1>1. \E r : Become(w, r)
  BY DEF WorkerStep, Release, Run, Complete, Settle, Spawn,
         Poll, ReadTask, CheckDeps, ReadStep, ReadLease, Reset, Claim, Start, Rollback,
         RereadStep, RereadTask, CheckLease, Execute, Throw, Renew, RenewCas,
         CompleteRead, Fence, CompleteSave, FailSave, TaskRead, TaskGet, TaskCas,
         SaveTaskGet, SaveTaskCas, Revoke, SpawnStep, SpawnGet, SpawnCas,
         ToRun, Goto, GotoWithStep, GotoWithLease, Leave
<1> QED
  BY <1>1, BecomeIs

-----------------------------------------------------------------------------
(* Fencing: every step keeps the guarantee                                 *)

\* A step that touches no record keeps the guarantee,
LEMMA QuietGuarantee ==
    ASSUME TypeInv, FenceInv, NEW w, UNCHANGED <<step, lease, runner>>
    PROVE  Guarantee(w)
BY Numbers DEF Numeric, FenceInv, LeaseIds, Guarantee

\* so does an accepted save,
LEMMA SaveGuarantee ==
    ASSUME TypeInv, FenceInv, NEW w \in Workers, worker[w].key \in Keys,
           NEW s \in {"queued", "running", "completed", "failed"},
           CanSave(w), Save(w, s), UNCHANGED <<lease, runner>>
    PROVE  Guarantee(w)
BY Numbers DEF Numeric, FenceInv, LeaseIds, Guarantee, CanSave, Save, TypeInv, TypeOK

\* a revocation,
LEMMA RevokeGuarantee ==
    ASSUME TypeInv, FenceInv, NEW w \in Workers, worker[w].key \in Keys,
           RevokeLease(w), UNCHANGED <<step, runner>>
    PROVE  Guarantee(w)
<1>1. \A k \in Keys : /\ lease'[k].id = lease[k].id /\ lease'[k].owner = lease[k].owner
                      /\ lease'[k].version = lease[k].version
  BY DEF RevokeLease, TypeInv, TypeOK, Lease
<1> QED
  BY <1>1, Numbers DEF Numeric, FenceInv, LeaseIds, Guarantee

\* and with them every step of a worker.
LEMMA WorkerGuarantee ==
    ASSUME TypeInv, FenceInv, NEW w \in Workers, WorkerStep(w) \/ Throw(w)
    PROVE  Guarantee(w)
<1> DEFINE k == worker[w].key
<1>1. CASE UNCHANGED <<step, lease, runner>>
  BY <1>1, QuietGuarantee
<1>2. CASE Reset(w)
  <2>1. k \in Keys
    BY <1>2, WorkerType DEF Reset, At
  <2> QED
    BY <1>2, <2>1, QuietGuarantee, SaveGuarantee DEF Reset, history
<1>3. CASE Claim(w)
  <2>1. k \in Keys
    BY <1>3, WorkerType DEF Claim, At
  <2> QED
    BY <1>3, <2>1, Numbers
       DEF Numeric, FenceInv, LeaseIds, Guarantee, Claim, TypeInv, TypeOK, history
<1>4. CASE Start(w)
  <2>1. k \in Keys
    BY <1>4, WorkerType DEF Start, At
  <2>2. CASE CanSave(w)
    <3>1. runner[k] <= worker[w].lease.id /\ worker[w].lease.id <= lease[k].id
      BY <1>4, <2>1, <2>2, Numbers
         DEF Numeric, FenceInv, WorkerFenced, StaleStart, HeldId, Holding, Start, At, CanSave
    <3> QED
      BY <1>4, <2>1, <2>2, <3>1, Numbers
         DEF Numeric, FenceInv, LeaseIds, Guarantee, Start, CanSave, Save, TypeInv, TypeOK
  <2>3. CASE ~CanSave(w)
    BY <1>4, <2>3, QuietGuarantee DEF Start
  <2> QED
    BY <2>2, <2>3
<1>5. CASE Rollback(w) \/ Revoke(w)
  <2>1. k \in Keys
    BY <1>5, WorkerType DEF Rollback, Revoke, At
  <2> QED
    BY <1>5, <2>1, RevokeGuarantee DEF Rollback, Revoke, history
<1>6. CASE RenewCas(w)
  <2>1. k \in Keys
    BY <1>6, WorkerType DEF RenewCas, At
  <2> QED
    BY <1>6, <2>1, Numbers
       DEF Numeric, FenceInv, LeaseIds, Guarantee, RenewCas, TypeInv, TypeOK, Lease, history
<1>7. CASE CompleteSave(w) \/ FailSave(w)
  <2>1. k \in Keys
    BY <1>7, WorkerType DEF CompleteSave, FailSave, At
  <2> QED
    BY <1>7, <2>1, QuietGuarantee, SaveGuarantee DEF CompleteSave, FailSave, history
<1>8. CASE SpawnStep(w)
  <2>1. NextTry(k) \in Keys
    BY <1>8, WorkerType, ExecutionAssumption
       DEF SpawnStep, At, TypeInv, SpawnOK, NextTry, Keys, Attempts
  <2>2. \A x \in Keys : step'[x].version = step[x].version
    BY <1>8, <2>1 DEF SpawnStep, Spawned, NoStep, FreshStep, TypeInv, TypeOK
  <2> QED
    BY <1>8, <2>2, Numbers DEF Numeric, FenceInv, LeaseIds, Guarantee, SpawnStep, history
<1>9. QED
  BY <1>1, <1>2, <1>3, <1>4, <1>5, <1>6, <1>7, <1>8
     DEF WorkerStep, Release, Run, Complete, Settle, Spawn,
         Poll, ReadTask, CheckDeps, ReadStep, ReadLease, RereadStep, RereadTask,
         CheckLease, Execute, Throw, Renew, CompleteRead, Fence, TaskRead, TaskGet,
         TaskCas, SaveTaskGet, SaveTaskCas, SpawnGet, SpawnCas, history

-----------------------------------------------------------------------------
(* Fencing: every step of a worker keeps its own part                      *)

\* What a worker remembers after it has read a step or taken a lease.
LEMMA StepRead ==
    ASSUME TypeInv, NEW w \in Workers, NEW l, NEW s,
           GotoWithStep(w, l, s)
    PROVE  /\ worker'[w].pc = l /\ worker'[w].step = s
           /\ worker'[w].key = worker[w].key /\ worker'[w].lease = worker[w].lease
<1>1. worker'[w] = [worker[w] EXCEPT !.pc = l, !.step = s]
  BY BecomeIs DEF GotoWithStep
<1> QED
  BY <1>1, WorkerType DEF Worker

\* The same for a lease.
LEMMA LeaseRead ==
    ASSUME TypeInv, NEW w \in Workers, NEW l, NEW x,
           GotoWithLease(w, l, x)
    PROVE  /\ worker'[w].pc = l /\ worker'[w].lease = x
           /\ worker'[w].key = worker[w].key /\ worker'[w].step = worker[w].step
<1>1. worker'[w] = [worker[w] EXCEPT !.pc = l, !.lease = x]
  BY BecomeIs DEF GotoWithLease
<1> QED
  BY <1>1, WorkerType DEF Worker

\* A queued step is what the worker goes on with.
LEMMA ToRunIs ==
    ASSUME TypeInv, NEW w \in Workers, NEW s, ToRun(w, s)
    PROVE  /\ worker'[w].pc \in {"claim", "failSave"} /\ worker'[w].step = s
           /\ worker'[w].key = worker[w].key /\ worker'[w].lease = worker[w].lease
<1>1. worker'[w] = [worker[w] EXCEPT !.pc = IF late THEN "failSave" ELSE "claim",
                                     !.step = s,
                                     !.outcome = IF late THEN "late" ELSE "none"]
  BY BecomeIs DEF ToRun
<1> QED
  BY <1>1, WorkerType DEF Worker

\* A worker that is done is idle.
LEMMA LeaveIs ==
    ASSUME TypeInv, NEW w \in Workers, Leave(w)
    PROVE  worker'[w].pc = "idle"
<1>1. worker'[w] = Idle
  BY BecomeIs DEF Leave
<1> QED
  BY <1>1 DEF Idle

\* The other operations take a worker elsewhere.
LEMMA AwayMoves ==
    ASSUME TypeInv, NEW w \in Workers,
           \/ Poll(w) \/ ReadTask(w) \/ FailSave(w) \/ TaskRead(w) \/ TaskGet(w)
           \/ SpawnStep(w) \/ SpawnGet(w) \/ CheckDeps(w) \/ Rollback(w) \/ Throw(w)
           \/ CompleteSave(w) \/ TaskCas(w) \/ Revoke(w) \/ SpawnCas(w)
    PROVE  worker'[w].pc \notin Readers \cup Holding
<1> DEFINE k == worker[w].key
<1>1. CASE \/ Poll(w) \/ ReadTask(w) \/ FailSave(w) \/ TaskRead(w)
            \/ TaskGet(w) \/ SpawnStep(w) \/ SpawnGet(w)
  <2>1. worker'[w].pc \notin Readers \cup Holding
    <3>1. CASE Poll(w)
      <4>1. worker'[w] = [worker[w] EXCEPT !.pc = "readTask", !.rest = TaskOrder]
        BY <3>1, BecomeIs DEF Poll
      <4> QED
        BY <4>1, WorkerType DEF Worker, Readers, Holding, Started
    <3>2. CASE ReadTask(w)
      <4> DEFINE t == Head(worker[w].rest)
                 l == IF DependsOn[t] = {} THEN "readStep" ELSE "checkDeps"
                 q == Tail(worker[w].rest)
                 x == <<t, task[t].attempt>>
      <4>1. \/ Leave(w)
            \/ worker'[w] = [Idle EXCEPT !.pc = l, !.rest = q, !.key = x]
        BY <3>2, BecomeIs DEF ReadTask
      <4>2. l \in {"readStep", "checkDeps"}
        OBVIOUS
      <4> HIDE DEF l, q, x
      <4> QED
        BY <4>1, <4>2, LeaveIs DEF Idle, Readers, Holding, Started
    <3>3. CASE FailSave(w)
      <4>1. \/ Goto(w, "taskRead")
            \/ \E l \in {"readTask", "revoke"} :
                  worker'[w] = [worker[w] EXCEPT !.pc = l, !.outcome = "none"]
        BY <3>3, BecomeIs DEF FailSave
      <4>2. CASE Goto(w, "taskRead")
        BY <4>2, GotoIs DEF Readers, Holding, Started
      <4>3. ASSUME NEW l \in {"readTask", "revoke"},
                   worker'[w] = [worker[w] EXCEPT !.pc = l, !.outcome = "none"]
            PROVE  worker'[w].pc = l
        BY <4>3, WorkerType DEF Worker
      <4> QED
        BY <4>1, <4>2, <4>3 DEF Readers, Holding, Started
    <3>4. CASE TaskRead(w)
      <4>1. worker'[w] = [worker[w] EXCEPT !.pc = "taskGet", !.draft = Advanced(w, task[k[1]])]
        BY <3>4, BecomeIs DEF TaskRead
      <4> QED
        BY <4>1, WorkerType DEF Worker, Readers, Holding, Started
    <3>5. CASE TaskGet(w) \/ SpawnGet(w)
      <4>1. \/ Leave(w) \/ \E l \in {"readTask", "revoke"} : Goto(w, l)
            \/ \E l \in {"taskCas", "spawnCas"} :
                  worker'[w] = [worker[w] EXCEPT !.pc = l, !.stored = task[k[1]]]
        BY <3>5, BecomeIs DEF TaskGet, SpawnGet, SaveTaskGet, AfterTask
      <4> QED
        BY <4>1, LeaveIs, GotoIs, WorkerType DEF Worker, Readers, Holding, Started
    <3>6. CASE SpawnStep(w)
      <4> DEFINE d == [status  |-> "queued",
                       attempt |-> worker[w].key[2] + 1,
                       version |-> worker[w].task.version + 1]
      <4>1. Leave(w) \/ worker'[w] = [worker[w] EXCEPT !.pc = "spawnGet", !.draft = d]
        BY <3>6, BecomeIs DEF SpawnStep
      <4> HIDE DEF d
      <4> QED
        BY <4>1, LeaveIs, WorkerType DEF Worker, Readers, Holding, Started
    <3> QED
      BY <1>1, <3>1, <3>2, <3>3, <3>4, <3>5, <3>6
  <2> QED
    BY <2>1
<1>2. CASE \/ CheckDeps(w) \/ Rollback(w) \/ Throw(w) \/ CompleteSave(w)
            \/ TaskCas(w) \/ Revoke(w) \/ SpawnCas(w)
  <2>1. \/ Leave(w)
        \/ \E l \in {"readTask", "readStep", "revoke", "taskRead", "spawnStep"} : Goto(w, l)
    BY <1>2 DEF CheckDeps, Rollback, Throw, CompleteSave, TaskCas, SaveTaskCas, AfterTask,
                 Revoke, SpawnCas
  <2>2. worker'[w].pc \notin Readers \cup Holding
    BY <2>1, LeaveIs, GotoIs DEF Readers, Holding, Started
  <2> QED
    BY <2>2
<1> QED
  BY <1>1, <1>2

\* Nothing is asked of a worker elsewhere.
LEMMA ElsewhereFenced ==
    ASSUME NEW w \in Workers, worker'[w].pc \notin Readers \cup Holding
    PROVE  WorkerFenced(w)'
BY DEF WorkerFenced, ReadVersion, HeldId, StaleStart, CurrentRunner, CommitReady, At,
       Readers, Holding, Started

\* Between Start and the fence a worker keeps its lease, or takes the stored one.
LEMMA StartedFenced ==
    ASSUME TypeInv, TypeInv', FenceInv, NEW w \in Workers,
           worker[w].pc \in Started, worker'[w].pc \in Started \ {"fence"},
           worker'[w].key = worker[w].key,
           \/ worker'[w].lease = worker[w].lease
           \/ /\ worker'[w].lease = lease[worker[w].key]
              /\ lease[worker[w].key].owner = w,
           UNCHANGED runner,
           \A k \in Keys : lease'[k].id = lease[k].id /\ lease'[k].owner = lease[k].owner
    PROVE  WorkerFenced(w)'
<1>1. worker[w].key \in Keys
  BY BusyKey DEF Holding
<1>2. HeldId(w)'
  BY <1>1, Numbers DEF Numeric, FenceInv, WorkerFenced, HeldId, Holding
<1>3. CurrentRunner(w)'
  BY <1>1, Numbers DEF Numeric, FenceInv, WorkerFenced, HeldId, CurrentRunner, Holding
<1> QED
  BY <1>2, <1>3
     DEF WorkerFenced, ReadVersion, StaleStart, CommitReady, At, Readers, Started

\* Every step of a worker keeps its own part of the invariant.
LEMMA OwnFenced ==
    ASSUME TypeInv, TypeInv', FenceInv, NEW w \in Workers, WorkerStep(w) \/ Throw(w)
    PROVE  WorkerFenced(w)'
<1> DEFINE k == worker[w].key
<1>1. CASE worker'[w].pc \notin Readers \cup Holding
  BY <1>1, ElsewhereFenced
<1>2. CASE ReadStep(w) /\ worker'[w].pc \in Readers \cup Holding
  <2>1. worker'[w].key = k /\ worker'[w].step = step[k] /\ worker'[w].pc \in {"readLease", "claim"}
    BY <1>2, StepRead, ToRunIs, GotoIs DEF ReadStep, Readers, Holding, Started
  <2>2. k \in Keys /\ step' = step
    BY <1>2, WorkerType DEF ReadStep, At
  <2> QED
    BY <2>1, <2>2, Numbers
       DEF Numeric, WorkerFenced, ReadVersion, HeldId, StaleStart, CurrentRunner, CommitReady,
           At, Holding, Started
<1>3. CASE ReadLease(w) /\ worker'[w].pc \in Readers \cup Holding
  <2>1. worker'[w].key = k /\ worker'[w].step = worker[w].step /\ worker'[w].pc = "reset"
    BY <1>3, GotoIs DEF ReadLease, Readers, Holding, Started
  <2>2. worker[w].step.version <= step[k].version /\ step' = step
    BY <1>3 DEF ReadLease, At, FenceInv, WorkerFenced, ReadVersion, Readers
  <2> QED
    BY <2>1, <2>2
       DEF WorkerFenced, ReadVersion, HeldId, StaleStart, CurrentRunner, CommitReady,
           At, Holding, Started
<1>4. CASE Reset(w) /\ worker'[w].pc \in Readers \cup Holding
  <2> DEFINE s == [status |-> "queued", version |-> worker[w].step.version + 1]
  <2>1. k \in Keys /\ worker[w].step.version <= step[k].version
    BY <1>4, WorkerType DEF Reset, At, FenceInv, WorkerFenced, ReadVersion, Readers
  <2>2. worker'[w].key = k /\ worker'[w].step = s /\ worker'[w].pc = "claim"
    BY <1>4, ToRunIs DEF Reset, Readers, Holding, Started
  <2>3. s.version <= step'[k].version
    <3>1. CASE CanSave(w)
      BY <1>4, <2>1, <3>1, Numbers DEF Numeric, Reset, Save, TypeInv, TypeOK
    <3>2. CASE ~CanSave(w)
      BY <1>4, <2>1, <3>2, Numbers DEF Numeric, Reset, CanSave
    <3> QED
      BY <3>1, <3>2
  <2> QED
    BY <2>2, <2>3
       DEF WorkerFenced, ReadVersion, HeldId, StaleStart, CurrentRunner, CommitReady,
           At, Holding, Started
<1>5. CASE Claim(w) /\ worker'[w].pc \in Readers \cup Holding
  <2> DEFINE v == lease[k].version + 1
             new == [id |-> v, owner |-> w, version |-> v, live |-> TRUE]
  <2>1. k \in Keys /\ worker[w].step.version <= step[k].version
    BY <1>5, WorkerType DEF Claim, At, FenceInv, WorkerFenced, ReadVersion, Readers
  <2>2. GotoWithLease(w, "start", new) /\ lease'[k] = new
    BY <1>5, <2>1, GotoIs DEF Claim, Readers, Holding, Started, TypeInv, TypeOK
  <2>3. /\ worker'[w].key = k /\ worker'[w].step = worker[w].step
        /\ worker'[w].lease = new /\ worker'[w].pc = "start"
    BY <2>2, LeaseRead
  <2>4. step' = step /\ runner'[k] < v
    BY <1>5, <2>1, Numbers DEF Numeric, Claim, history, FenceInv, LeaseIds
  <2>5. worker'[w].lease.id = v /\ lease'[k].id = v /\ v \in Nat /\ runner'[k] \in Nat
    BY <1>5, <2>1, <2>2, <2>3, Numbers DEF Numeric, Claim, history
  <2>6. ReadVersion(w)'
    BY <2>1, <2>3, <2>4 DEF ReadVersion
  <2>7. HeldId(w)' /\ StaleStart(w)'
    BY <2>3, <2>4, <2>5 DEF HeldId, StaleStart, At
  <2> QED
    BY <2>3, <2>6, <2>7 DEF WorkerFenced, CurrentRunner, CommitReady, At, Started
<1>6. CASE Start(w) /\ worker'[w].pc \in Readers \cup Holding
  <2>1. k \in Keys
    BY <1>6, WorkerType DEF Start, At
  <2>2. /\ worker'[w].key = k /\ worker'[w].lease = worker[w].lease
        /\ worker'[w].pc = "rereadStep" /\ runner'[k] = worker[w].lease.id
    BY <1>6, <2>1, GotoIs DEF Start, Readers, Holding, Started, TypeInv, TypeOK
  <2>3. HeldId(w) /\ lease' = lease
    BY <1>6 DEF Start, FenceInv, WorkerFenced
  <2> QED
    BY <1>6, <2>2, <2>3
       DEF Start, WorkerFenced, ReadVersion, HeldId, StaleStart, CurrentRunner, CommitReady,
           At, Readers, Holding
<1>7. CASE /\ RereadStep(w) \/ RereadTask(w) \/ CheckLease(w) \/ Execute(w) \/ Renew(w)
           /\ worker'[w].pc \in Readers \cup Holding
  <2>1. worker[w].pc \in Started /\ UNCHANGED <<lease, runner>>
    BY <1>7 DEF RereadStep, RereadTask, CheckLease, Execute, Renew, At, Started, history
  <2>2. /\ worker'[w].key = k /\ worker'[w].pc \in Started \ {"fence"}
        /\ \/ worker'[w].lease = worker[w].lease
           \/ worker'[w].lease = lease[k] /\ lease[k].owner = w
    <3>1. CASE RereadStep(w)
      BY <3>1, StepRead DEF RereadStep, Started
    <3>2. CASE RereadTask(w)
      <4>1. worker'[w] = [worker[w] EXCEPT !.pc = "checkLease", !.task = task[k[1]]]
        BY <3>2, BecomeIs DEF RereadTask
      <4> QED
        BY <4>1, WorkerType DEF Worker, Started
    <3>3. CASE CheckLease(w)
      BY <1>7, <3>3, LeaseRead, LeaveIs DEF CheckLease, Readers, Holding, Started
    <3>4. CASE Execute(w)
      <4>1. PICK o \in {"ok", "retryable", "final"} :
              worker'[w] = [worker[w] EXCEPT
                              !.pc = IF w \in Heartbeat THEN "renew" ELSE Commit(o),
                              !.outcome = o]
        BY <3>4, BecomeIs DEF Execute
      <4>2. /\ worker'[w].pc = (IF w \in Heartbeat THEN "renew" ELSE Commit(o))
            /\ worker'[w].key = k /\ worker'[w].lease = worker[w].lease
        BY <4>1, WorkerType DEF Worker
      <4> QED
        BY <1>7, <4>2 DEF Commit, Readers, Holding, Started
    <3>5. CASE Renew(w)
      BY <1>7, <3>5, GotoIs DEF Renew, Commit, Readers, Holding, Started
    <3> QED
      BY <1>7, <3>1, <3>2, <3>3, <3>4, <3>5
  <2> QED
    BY <2>1, <2>2, StartedFenced
<1>8. CASE RenewCas(w) /\ worker'[w].pc \in Readers \cup Holding
  <2>1. k \in Keys
    BY <1>8, WorkerType DEF RenewCas, At
  <2>2. \A x \in Keys : lease'[x].id = lease[x].id /\ lease'[x].owner = lease[x].owner
    BY <1>8, <2>1 DEF RenewCas, TypeInv, TypeOK, Lease
  <2>3. /\ worker'[w].key = k /\ worker'[w].lease = worker[w].lease
        /\ worker'[w].pc \in Started \ {"fence"} /\ worker[w].pc \in Started
        /\ UNCHANGED runner
    BY <1>8, GotoIs DEF RenewCas, Commit, Readers, Holding, Started, At, history
  <2> QED
    BY <2>2, <2>3, StartedFenced
<1>9. CASE CompleteRead(w)
  <2>1. k \in Keys /\ UNCHANGED <<step, lease, runner>>
    BY <1>9, WorkerType DEF CompleteRead, At, history
  <2>2. /\ worker'[w].key = k /\ worker'[w].lease = worker[w].lease
        /\ worker'[w].step = step[k] /\ worker'[w].pc = "fence"
    BY <1>9, StepRead DEF CompleteRead
  <2>3. HeldId(w) /\ CurrentRunner(w) /\ worker[w].pc \in Started
    BY <1>9 DEF CompleteRead, At, FenceInv, WorkerFenced, Started
  <2> QED
    BY <2>1, <2>2, <2>3, Numbers
       DEF Numeric, WorkerFenced, ReadVersion, HeldId, StaleStart, CurrentRunner, CommitReady,
           At, Holding, Started
<1>10. CASE Fence(w) /\ worker'[w].pc \in Readers \cup Holding
  <2>1. Fenced(w) /\ Goto(w, "completeSave") /\ UNCHANGED <<step, runner>>
    BY <1>10, BecomeIs DEF Fence, Leave, Idle, Readers, Holding, Started, history
  <2>2. ReadVersion(w) /\ CurrentRunner(w) /\ worker[w].pc = "fence"
    BY <1>10 DEF Fence, At, FenceInv, WorkerFenced
  <2>3. /\ worker'[w].pc = "completeSave" /\ worker'[w].key = k
        /\ worker'[w].step = worker[w].step /\ worker'[w].lease = worker[w].lease
    BY <2>1, GotoIs
  <2> QED
    BY <2>1, <2>2, <2>3
       DEF Fenced, Holds, WorkerFenced, ReadVersion, HeldId, StaleStart, CurrentRunner,
           CommitReady, At, Readers, Holding, Started
<1>11. QED
  BY <1>1, <1>2, <1>3, <1>4, <1>5, <1>6, <1>7, <1>8, <1>9, <1>10, AwayMoves,
     ElsewhereFenced
     DEF WorkerStep, Release, Run, Complete, Settle, Spawn

-----------------------------------------------------------------------------
(* Fencing: the theorem                                                    *)

\* The invariant holds initially.
LEMMA FenceInit == Init => FenceInv
BY DEF Init, FenceInv, LeaseIds, WorkerFenced, ReadVersion, HeldId, StaleStart,
   CurrentRunner,
       CommitReady, At, Idle, NoLease, Readers, Holding, Started

\* The environment changes no version, no lease id and no owner.
LEMMA EnvironmentGuarantee ==
    ASSUME TypeInv, FenceInv, UNCHANGED <<step, runner>>,
           lease' = lease \/ \E k \in Keys : lease' = [lease EXCEPT ![k].live = FALSE]
    PROVE  Guarantee(NoWorker)
<1>1. \A k \in Keys : /\ lease'[k].id = lease[k].id /\ lease'[k].owner = lease[k].owner
                      /\ lease'[k].version = lease[k].version
  BY DEF TypeInv, TypeOK, Lease
<1> QED
  BY <1>1, Numbers DEF Numeric, FenceInv, LeaseIds, Guarantee

\* Every step of the system keeps it.
LEMMA FenceNext == TypeInv /\ TypeInv' /\ FenceInv /\ [Next]_vars => FenceInv'
<1> SUFFICES ASSUME TypeInv, TypeInv', FenceInv, [Next]_vars PROVE FenceInv'
  OBVIOUS
<1>1. ASSUME NEW w \in Workers, WorkerStep(w) \/ Throw(w) PROVE FenceInv'
  <2>1. Guarantee(w)
    BY <1>1, WorkerGuarantee
  <2>2. WorkerFenced(w)'
    BY <1>1, OwnFenced
  <2>3. ASSUME NEW v \in Workers, v # w PROVE WorkerFenced(v)'
    BY <1>1, <2>1, <2>3, OthersStay, OthersFenced
  <2> QED
    BY <2>1, <2>2, <2>3 DEF FenceInv, LeaseIds, Guarantee
<1>2. ASSUME Guarantee(NoWorker), UNCHANGED worker PROVE FenceInv'
  <2>1. ASSUME NEW v \in Workers PROVE WorkerFenced(v)'
    BY <1>2, OthersFenced, ExecutionAssumption
  <2> QED
    BY <1>2, <2>1 DEF FenceInv, LeaseIds, Guarantee
<1>3. ASSUME NEW k \in Keys, Expire(k) PROVE FenceInv'
  BY <1>2, <1>3, EnvironmentGuarantee DEF Expire
<1>4. CASE PassDeadline \/ UNCHANGED vars
  BY <1>2, <1>4, EnvironmentGuarantee DEF PassDeadline, vars, history
<1>5. ASSUME NEW w \in Mortal, Crash(w) PROVE FenceInv'
  <2>1. w \in Workers
    BY ExecutionAssumption
  <2>2. Guarantee(w)
    BY <1>5, QuietGuarantee DEF Crash, history
  <2>3. worker'[w].pc = "dead" /\ \A v \in Workers \ {w} : worker'[v] = worker[v]
    BY <1>5, <2>1, BecomeIs DEF Crash, Idle
  <2>4. WorkerFenced(w)'
    BY <2>1, <2>3, ElsewhereFenced DEF Readers, Holding, Started
  <2>5. ASSUME NEW v \in Workers, v # w PROVE WorkerFenced(v)'
    BY <2>2, <2>3, <2>5, OthersFenced
  <2> QED
    BY <2>2, <2>4, <2>5 DEF FenceInv, LeaseIds, Guarantee
<1>6. QED
  BY <1>1, <1>3, <1>4, <1>5 DEF Next

\* The only way from completeSave to taskRead is a save that was accepted.
LEMMA CommitIsSave ==
    ASSUME TypeInv, [Next]_vars, NEW w \in Workers,
           At(w, "completeSave"), worker'[w].pc = "taskRead"
    PROVE  CanSave(w)
<1>1. worker'[w] # worker[w]
  BY DEF At
<1>2. WorkerStep(w) \/ Throw(w) \/ Crash(w)
  <2>1. ASSUME NEW v \in Workers, WorkerStep(v) \/ Throw(v), v # w PROVE FALSE
    BY <1>1, <2>1, OthersStay
  <2>2. ASSUME NEW v \in Mortal, Crash(v), v # w PROVE FALSE
    BY <1>1, <2>2, BecomeIs, ExecutionAssumption DEF Crash
  <2>3. ASSUME NEW k \in Keys, Expire(k) PROVE FALSE
    BY <1>1, <2>3 DEF Expire
  <2>4. ~PassDeadline /\ ~UNCHANGED vars
    BY <1>1 DEF PassDeadline, vars
  <2> QED
    BY <2>1, <2>2, <2>3, <2>4 DEF Next
<1>3. CASE Crash(w)
  BY <1>3, BecomeIs DEF Crash, Idle
<1>4. CASE WorkerStep(w) \/ Throw(w)
  <2>1. CompleteSave(w)
    BY <1>4 DEF WorkerStep, Release, Run, Complete, Settle, Spawn,
         Poll, ReadTask, CheckDeps, ReadStep, ReadLease, Reset, Claim, Start, Rollback,
         RereadStep, RereadTask, CheckLease, Execute, Throw, Renew, RenewCas,
         CompleteRead, Fence, FailSave, TaskRead, TaskGet, TaskCas,
         SaveTaskGet, SaveTaskCas, Revoke, SpawnStep, SpawnGet, SpawnCas, At
  <2> QED
    BY <2>1, LeaveIs DEF CompleteSave
<1> QED
  BY <1>2, <1>3, <1>4

\* Fencing, for any number of workers, attempts and leases: the result that
\* completes a step is the result of the worker that started it last.
THEOREM FencingCorrect == Spec => FencedCommit
<1> DEFINE Commits == \A w \in Workers :
                        At(w, "completeSave") /\ worker'[w].pc = "taskRead"
                          => runner[worker[w].key] = worker[w].lease.id
<1>1. TypeInv /\ FenceInv /\ [Next]_vars => Commits
  <2> SUFFICES ASSUME TypeInv, FenceInv, [Next]_vars, NEW w \in Workers,
                      At(w, "completeSave"), worker'[w].pc = "taskRead"
               PROVE  runner[worker[w].key] = worker[w].lease.id
    OBVIOUS
  <2>1. CanSave(w)
    BY CommitIsSave
  <2> QED
    BY <2>1 DEF FenceInv, WorkerFenced, CommitReady
<1> QED
  BY <1>1, TypeInit, TypeNext, FenceInit, FenceNext, PTL DEF Spec, FencedCommit

-----------------------------------------------------------------------------
(* Single flight                                                           *)

\* Between its claim and its commit, w owns a live lease of its step, unless a
\* lease of that step was lost in use.
Inside == Holding \cup {"completeSave"}

Owned(w) ==
    worker[w].pc \in Inside /\ worker[w].key \notin lost
      => lease[worker[w].key].live /\ lease[worker[w].key].owner = w

OwnedInv == \A w \in Workers : Owned(w)

\* A step of w takes no live lease away from another worker.
Respects(w) ==
    /\ lost \subseteq lost'
    /\ \A k \in Keys : lease[k].live /\ lease[k].owner # w => lease'[k] = lease[k]

\* Claim, renew and revoke respect the leases of others.
LEMMA WorkerRespects ==
    ASSUME TypeInv, NEW w \in Workers, WorkerStep(w) \/ Throw(w)
    PROVE  Respects(w)
<1>1. CASE UNCHANGED <<lease, lost>>
  BY <1>1 DEF Respects
<1>2. CASE Claim(w)
  BY <1>2 DEF Claim, Free, Respects, TypeInv, TypeOK, history
<1>3. CASE Rollback(w) \/ Revoke(w)
  BY <1>3 DEF Rollback, Revoke, RevokeLease, Holds, Respects, TypeInv, TypeOK, history
<1>4. CASE RenewCas(w)
  BY <1>4 DEF RenewCas, Holds, Respects, TypeInv, TypeOK, history
<1> QED
  BY <1>1, <1>2, <1>3, <1>4
     DEF WorkerStep, Release, Run, Complete, Settle, Spawn,
         Poll, ReadTask, CheckDeps, ReadStep, ReadLease, Reset, Start, RereadStep, RereadTask,
         CheckLease, Execute, Throw, Renew, CompleteRead, Fence, CompleteSave, FailSave,
         TaskRead, TaskGet, TaskCas, SaveTaskGet, SaveTaskCas, SpawnStep, SpawnGet, SpawnCas,
         history

\* A worker that does not move keeps its lease.
LEMMA OthersOwned ==
    ASSUME TypeInv, OwnedInv, NEW w, NEW v \in Workers, v # w,
           Respects(w), worker'[v] = worker[v]
    PROVE  Owned(v)'
<1>1. CASE worker[v].pc \in Inside
  <2>1. worker[v].key \in Keys
    BY <1>1, BusyKey DEF Inside, Readers
  <2> QED
    BY <2>1 DEF OwnedInv, Owned, Respects
<1> QED
  BY <1>1 DEF Owned

\* A worker that stays inside keeps its step and its lease.
LEMMA StaysInside ==
    ASSUME TypeInv, NEW w \in Workers,
           \/ Start(w) \/ RereadStep(w) \/ RereadTask(w) \/ CheckLease(w) \/ Execute(w)
           \/ Renew(w) \/ RenewCas(w) \/ CompleteRead(w) \/ Fence(w),
           worker'[w].pc \in Inside
    PROVE  /\ worker[w].pc \in Inside /\ worker'[w].key = worker[w].key
           /\ lost' = lost
           /\ lease[worker[w].key].live => lease'[worker[w].key].live
           /\ lease'[worker[w].key].owner = lease[worker[w].key].owner
<1> DEFINE k == worker[w].key
<1>1. worker[w].pc \in Inside /\ lost' = lost
  BY DEF Start, RereadStep, RereadTask, CheckLease, Execute, Renew, RenewCas,
     CompleteRead,
         Fence, At, Inside, Holding, Started, history
<1>2. k \in Keys
  BY <1>1, BusyKey DEF Inside, Readers
<1>3. worker'[w].key = k
  <2>1. CASE RereadTask(w)
    <3>1. worker'[w] = [worker[w] EXCEPT !.pc = "checkLease", !.task = task[k[1]]]
      BY <2>1, BecomeIs DEF RereadTask
    <3> QED
      BY <3>1, WorkerType DEF Worker
  <2>2. CASE Execute(w)
    <3>1. PICK o \in {"ok", "retryable", "final"} :
            worker'[w] = [worker[w] EXCEPT
                            !.pc = IF w \in Heartbeat THEN "renew" ELSE Commit(o),
                            !.outcome = o]
      BY <2>2, BecomeIs DEF Execute
    <3> QED
      BY <3>1, WorkerType DEF Worker
  <2>3. CASE \/ Start(w) \/ RereadStep(w) \/ CheckLease(w) \/ Renew(w) \/ RenewCas(w)
             \/ CompleteRead(w) \/ Fence(w)
    BY <2>3, GotoIs, StepRead, LeaseRead, LeaveIs
       DEF Start, RereadStep, CheckLease, Renew, RenewCas, CompleteRead, Fence,
           Inside, Holding, Started
  <2> QED
    BY <2>1, <2>2, <2>3
<1>4. lease[k].live => lease'[k].live
  BY <1>2
     DEF Start, RereadStep, RereadTask, CheckLease, Execute, Renew, RenewCas,
         CompleteRead,
         Fence, TypeInv, TypeOK, Lease
<1>5. lease'[k].owner = lease[k].owner
  BY <1>2
     DEF Start, RereadStep, RereadTask, CheckLease, Execute, Renew, RenewCas,
         CompleteRead,
         Fence, TypeInv, TypeOK, Lease
<1> QED
  BY <1>1, <1>3, <1>4, <1>5

\* A worker keeps its own lease until it gives it back.
LEMMA OwnOwned ==
    ASSUME TypeInv, OwnedInv, NEW w \in Workers, WorkerStep(w) \/ Throw(w)
    PROVE  Owned(w)'
<1>1. CASE worker'[w].pc \notin Inside
  BY <1>1 DEF Owned
<1>2. CASE \/ Start(w) \/ RereadStep(w) \/ RereadTask(w) \/ CheckLease(w) \/ Execute(w)
           \/ Renew(w) \/ RenewCas(w) \/ CompleteRead(w) \/ Fence(w)
  BY <1>1, <1>2, StaysInside DEF OwnedInv, Owned
<1>3. CASE Claim(w) /\ worker'[w].pc \in Inside
  <2> DEFINE k   == worker[w].key
             v   == lease[k].version + 1
             new == [id |-> v, owner |-> w, version |-> v, live |-> TRUE]
  <2>1. k \in Keys
    BY <1>3, WorkerType DEF Claim, At
  <2>2. GotoWithLease(w, "start", new) /\ lease'[k] = new
    BY <1>3, <2>1, GotoIs DEF Claim, Inside, Holding, Started, TypeInv, TypeOK
  <2>3. worker'[w].key = k
    BY <2>2, LeaseRead
  <2> QED
    BY <2>2, <2>3 DEF Owned
<1>4. CASE (ReadStep(w) \/ ReadLease(w) \/ Reset(w)) /\ worker'[w].pc \in Inside
  BY <1>4, StepRead, ToRunIs, GotoIs
     DEF ReadStep, ReadLease, Reset, Inside, Holding, Started
<1> QED
  BY <1>1, <1>2, <1>3, <1>4, AwayMoves
     DEF WorkerStep, Release, Run, Complete, Settle, Spawn, Inside, Readers

\* Every step of the system keeps the invariant of the leases.
LEMMA OwnedNext == TypeInv /\ OwnedInv /\ [Next]_vars => OwnedInv'
<1> SUFFICES ASSUME TypeInv, OwnedInv, [Next]_vars PROVE OwnedInv'
  OBVIOUS
<1>1. ASSUME NEW w \in Workers, WorkerStep(w) \/ Throw(w) PROVE OwnedInv'
  <2>1. Owned(w)'
    BY <1>1, OwnOwned
  <2>2. ASSUME NEW v \in Workers, v # w PROVE Owned(v)'
    BY <1>1, <2>2, WorkerRespects, OthersStay, OthersOwned
  <2> QED
    BY <2>1, <2>2 DEF OwnedInv
<1>2. ASSUME NEW k \in Keys, Expire(k) PROVE OwnedInv'
  <2> SUFFICES ASSUME NEW v \in Workers, worker[v].pc \in Inside, worker[v].key \notin lost'
               PROVE  lease'[worker[v].key].live /\ lease'[worker[v].key].owner = v
    BY <1>2 DEF OwnedInv, Owned, Expire
  <2>1. worker[v].key \in Keys
    BY BusyKey DEF Inside, Readers
  <2>2. worker[v].key \notin lost
    BY <1>2 DEF Expire
  <2>3. lease[worker[v].key].live /\ lease[worker[v].key].owner = v
    BY <2>2 DEF OwnedInv, Owned
  <2>4. worker[v].key # k
    BY <1>2, <2>3 DEF Expire, Using, Inside, Holding, Started
  <2> QED
    BY <1>2, <2>1, <2>3, <2>4 DEF Expire, TypeInv, TypeOK
<1>3. CASE PassDeadline \/ UNCHANGED vars
  BY <1>3 DEF PassDeadline, vars, history, OwnedInv, Owned
<1>4. ASSUME NEW w \in Mortal, Crash(w) PROVE OwnedInv'
  <2>1. w \in Workers
    BY ExecutionAssumption
  <2>2. worker'[w].pc = "dead" /\ \A v \in Workers \ {w} : worker'[v] = worker[v]
    BY <1>4, <2>1, BecomeIs DEF Crash, Idle
  <2> QED
    BY <1>4, <2>2 DEF Crash, history, OwnedInv, Owned, Inside, Holding, Started
<1>5. QED
  BY <1>1, <1>2, <1>3, <1>4 DEF Next

\* Single flight, for any number of workers: only the loss of a lease in the hands
\* of its worker lets two workers execute the same step.
THEOREM SingleFlightCorrect == Spec => []SingleFlight
<1>1. Init => OwnedInv
  BY DEF Init, Idle, OwnedInv, Owned, Inside, Holding, Started
<1>2. OwnedInv => SingleFlight
  BY DEF OwnedInv, Owned, SingleFlight, Executing, Inside, Holding, Started
<1> QED
  BY <1>1, <1>2, TypeInit, TypeNext, OwnedNext, PTL DEF Spec

-----------------------------------------------------------------------------
(***************************************************************************)
(* The refinement: StepExecution implements FencedStep                     *)
(*                                                                         *)
(* Whatever the workers, the leases and the crashes do, a step is handed   *)
(* out under larger and larger leases and completed at most once under     *)
(* each, by its last holder.  FenceInv says that the holder is the last    *)
(* one; what is added here says that it has not completed the step before. *)
(***************************************************************************)

\* A result is accepted under the last lease or an earlier one; a step that runs
\* has not been completed under the last one.
AcceptedBefore ==
    \A k \in Keys : /\ accepted[k] <= runner[k]
                    /\ step[k].status = "running" => accepted[k] < runner[k]

\* A step is started under a lease that some worker may claim.
StartToken(w) == At(w, "start") => worker[w].lease.id \in 1 .. MaxLeases

\* A worker at the fence or past it, with the record it has read still stored, sees a
\* step that runs exactly if it does run.
SeesRunning(w) ==
    worker[w].pc \in {"fence", "completeSave"} /\ CanSave(w)
        /\ worker[w].step.status = "running"
      => step[worker[w].key].status = "running"

PastFence(w) == At(w, "completeSave") => worker[w].step.status = "running"

WorkerOnce(w) == StartToken(w) /\ SeesRunning(w) /\ PastFence(w)

OnceInv == AcceptedBefore /\ \A w \in Workers : WorkerOnce(w)

-----------------------------------------------------------------------------
(* What a step does to the records                                         *)

\* A step record changes with its version, unless it is created.
Versioned ==
    \A k \in Keys : step'[k].version = step[k].version
                      => step'[k].status = step[k].status \/ step[k].status = "absent"

\* A step of the system is started, completed, or neither.
HandsOut(w) ==
    /\ worker[w].key \in Keys
    /\ worker[w].lease.id \in 1 .. MaxLeases
    /\ worker[w].lease.id > runner[worker[w].key]
    /\ runner' = [runner EXCEPT ![worker[w].key] = worker[w].lease.id]
    /\ UNCHANGED accepted
    /\ \A k \in Keys : k # worker[w].key => step'[k] = step[k]

Accepts(w) ==
    /\ worker[w].key \in Keys
    /\ accepted[worker[w].key] < runner[worker[w].key]
    /\ accepted' = [accepted EXCEPT ![worker[w].key] = runner[worker[w].key]]
    /\ UNCHANGED runner
    /\ \A k \in Keys : step'[k].status = "running" => step'[k] = step[k]
    /\ step'[worker[w].key].status = "completed"

Neither ==
    /\ UNCHANGED <<runner, accepted>>
    /\ \A k \in Keys : step'[k].status = "running" => step'[k] = step[k]

\* A save raises the version of the step.
LEMMA SaveVersioned ==
    ASSUME TypeInv, NEW w \in Workers, worker[w].key \in Keys,
           NEW s \in {"queued", "completed", "failed"}, CanSave(w), Save(w, s)
    PROVE  Versioned /\ \A k \in Keys : step'[k].status = "running" => step'[k] = step[k]
<1>1. step[worker[w].key].version \in Nat
  BY Numbers DEF Numeric
<1>2. /\ step'[worker[w].key] = [status |-> s, version |-> step[worker[w].key].version + 1]
      /\ \A k \in Keys : k # worker[w].key => step'[k] = step[k]
  BY DEF CanSave, Save, TypeInv, TypeOK
<1> QED
  BY <1>1, <1>2 DEF Versioned

\* Start hands the step out under a larger lease,
LEMMA StartHandsOut ==
    ASSUME TypeInv, FenceInv, OnceInv, NEW w \in Workers, Start(w)
    PROVE  Versioned /\ (HandsOut(w) \/ Neither)
<1> DEFINE k == worker[w].key
<1>1. k \in Keys
  BY WorkerType DEF Start, At
<1>2. CASE CanSave(w)
  <2>1. /\ runner' = [runner EXCEPT ![k] = worker[w].lease.id]
        /\ UNCHANGED accepted /\ Save(w, "running")
    BY <1>2 DEF Start
  <2>2. worker[w].lease.id > runner[k]
    BY <1>1, <1>2, Numbers
       DEF Numeric, Start, At, CanSave, FenceInv, WorkerFenced, StaleStart
  <2>3. worker[w].lease.id \in 1 .. MaxLeases
    BY DEF Start, OnceInv, WorkerOnce, StartToken
  <2>4. /\ step'[k].version = step[k].version + 1
        /\ \A x \in Keys : x # k => step'[x] = step[x]
    BY <1>1, <1>2, <2>1 DEF CanSave, Save, TypeInv, TypeOK
  <2>5. Versioned
    BY <1>1, <2>4, Numbers DEF Numeric, Versioned
  <2> QED
    BY <1>1, <2>1, <2>2, <2>3, <2>4, <2>5 DEF HandsOut
<1>3. CASE ~CanSave(w)
  BY <1>3 DEF Start, Versioned, Neither
<1> QED
  BY <1>2, <1>3

\* completeStep has its result accepted under the last lease,
LEMMA CompleteAccepts ==
    ASSUME TypeInv, FenceInv, OnceInv, NEW w \in Workers, CompleteSave(w)
    PROVE  Versioned /\ (Accepts(w) \/ Neither)
<1> DEFINE k == worker[w].key
<1>1. k \in Keys
  BY WorkerType DEF CompleteSave, At
<1>2. CASE CanSave(w)
  <2>1. /\ accepted' = [accepted EXCEPT ![k] = worker[w].lease.id]
        /\ UNCHANGED runner /\ Save(w, "completed")
    BY <1>2 DEF CompleteSave
  <2>2. runner[k] = worker[w].lease.id
    BY <1>2 DEF CompleteSave, FenceInv, WorkerFenced, CommitReady
  <2>3. step[k].status = "running"
    BY <1>2 DEF CompleteSave, At, OnceInv, WorkerOnce, SeesRunning, PastFence
  <2>4. accepted[k] < runner[k]
    BY <1>1, <2>3 DEF OnceInv, AcceptedBefore
  <2>5. Versioned /\ \A x \in Keys : step'[x].status = "running" => step'[x] = step[x]
    BY <1>1, <1>2, <2>1, SaveVersioned
  <2>6. step'[k].status = "completed"
    BY <1>1, <2>1 DEF Save, TypeInv, TypeOK
  <2> QED
    BY <1>1, <2>1, <2>2, <2>4, <2>5, <2>6 DEF Accepts
<1>3. CASE ~CanSave(w)
  BY <1>3 DEF CompleteSave, Versioned, Neither
<1> QED
  BY <1>2, <1>3

\* and no other operation does either.
LEMMA OthersNeither ==
    ASSUME TypeInv, NEW w \in Workers, WorkerStep(w) \/ Throw(w), ~Start(w), ~CompleteSave(w)
    PROVE  Versioned /\ Neither
<1> DEFINE k == worker[w].key
<1>1. CASE UNCHANGED <<step, history>>
  BY <1>1 DEF Versioned, Neither, history
<1>2. CASE Reset(w) \/ FailSave(w)
  <2>1. k \in Keys
    BY <1>2, WorkerType DEF Reset, FailSave, At
  <2>2. UNCHANGED history
    BY <1>2 DEF Reset, FailSave
  <2>3. UNCHANGED step \/ \E s \in {"queued", "failed"} : CanSave(w) /\ Save(w, s)
    BY <1>2 DEF Reset, FailSave
  <2> QED
    BY <2>1, <2>2, <2>3, SaveVersioned DEF Versioned, Neither, history
<1>3. CASE SpawnStep(w)
  <2>1. UNCHANGED history /\ (UNCHANGED step \/ step' = Spawned(NextTry(k)))
    BY <1>3 DEF SpawnStep
  <2>2. \A x \in Keys : \/ step'[x] = step[x]
                        \/ step[x] = NoStep /\ step'[x] = FreshStep
    BY <2>1 DEF Spawned, TypeInv, TypeOK
  <2> QED
    BY <2>1, <2>2 DEF Versioned, Neither, history, NoStep, FreshStep
<1> QED
  BY <1>1, <1>2, <1>3
     DEF WorkerStep, Release, Run, Complete, Settle, Spawn,
         Poll, ReadTask, CheckDeps, ReadStep, ReadLease, Claim, Rollback, RereadStep,
         RereadTask, CheckLease, Execute, Throw, Renew, RenewCas, CompleteRead, Fence,
         TaskRead, TaskGet, TaskCas, SaveTaskGet, SaveTaskCas, Revoke, SpawnGet, SpawnCas

\* Nor does the environment.
LEMMA StepIs ==
    ASSUME TypeInv, FenceInv, OnceInv, [Next]_vars
    PROVE  Versioned /\ (Neither \/ \E w \in Workers : HandsOut(w) \/ Accepts(w))
<1>1. ASSUME NEW w \in Workers, WorkerStep(w) \/ Throw(w)
      PROVE  Versioned /\ (Neither \/ HandsOut(w) \/ Accepts(w))
  BY <1>1, StartHandsOut, CompleteAccepts, OthersNeither
<1>2. CASE \/ \E k \in Keys : Expire(k)
           \/ PassDeadline
           \/ \E w \in Mortal : Crash(w)
           \/ UNCHANGED vars
  <2>1. UNCHANGED <<step, runner, accepted>>
    BY <1>2 DEF Expire, PassDeadline, Crash, history, vars
  <2> QED
    BY <2>1 DEF Versioned, Neither
<1> QED
  BY <1>1, <1>2 DEF Next

-----------------------------------------------------------------------------
(* The invariant                                                           *)

LEMMA OnceInit == Init => OnceInv
BY DEF Init, OnceInv, AcceptedBefore, WorkerOnce, StartToken, SeesRunning, PastFence, At,
       Idle, FreshStep, NoStep

\* The accepted results stay behind the leases.
LEMMA BeforeNext ==
    ASSUME TypeInv, FenceInv, OnceInv, [Next]_vars
    PROVE  AcceptedBefore'
<1> USE DEF OnceInv, AcceptedBefore
<1>1. \A k \in Keys : runner[k] \in Nat /\ accepted[k] \in Nat
  BY DEF TypeInv, TypeOK
<1>2. CASE Neither
  BY <1>2 DEF Neither
<1>3. ASSUME NEW w \in Workers, HandsOut(w) PROVE AcceptedBefore'
  BY <1>1, <1>3 DEF HandsOut, TypeInv, TypeOK
<1>4. ASSUME NEW w \in Workers, Accepts(w) PROVE AcceptedBefore'
  BY <1>1, <1>4 DEF Accepts, TypeInv, TypeOK
<1>5. Neither \/ \E w \in Workers : HandsOut(w) \/ Accepts(w)
  BY StepIs
<1> QED
  BY <1>2, <1>3, <1>4, <1>5

\* What a worker has seen stays true while it does not move.
LEMMA OthersOnce ==
    ASSUME TypeInv, TypeInv', FenceInv, OnceInv, Versioned,
           NEW w, Guarantee(w), NEW v \in Workers, worker'[v] = worker[v]
    PROVE  WorkerOnce(v)'
<1> DEFINE k == worker[v].key
<1>1. StartToken(v)' /\ PastFence(v)'
  BY DEF OnceInv, WorkerOnce, StartToken, PastFence, At
<1>2. SUFFICES ASSUME worker[v].pc \in {"fence", "completeSave"}, CanSave(v)',
                      worker[v].step.status = "running"
               PROVE  step'[k].status = "running"
  BY <1>1 DEF WorkerOnce, SeesRunning
<1>3. k \in Keys
  BY <1>2, BusyKey DEF Readers
<1>4. step[k].version = worker[v].step.version /\ step'[k].version = step[k].version
  BY <1>2, <1>3, Numbers, NumbersNext
     DEF Numeric, CanSave, FenceInv, WorkerFenced, ReadVersion, Readers, Guarantee
<1>5. step[k].status = "running"
  BY <1>2, <1>4 DEF OnceInv, WorkerOnce, SeesRunning, CanSave
<1> QED
  BY <1>3, <1>4, <1>5 DEF Versioned

\* A worker elsewhere has nothing to remember.
LEMMA ElsewhereOnce ==
    ASSUME NEW w \in Workers, worker'[w].pc \notin {"start", "fence", "completeSave"}
    PROVE  WorkerOnce(w)'
BY DEF WorkerOnce, StartToken, SeesRunning, PastFence, At

\* A step of a worker keeps what is said of it.
LEMMA OwnOnce ==
    ASSUME TypeInv, OnceInv, NEW w \in Workers, WorkerStep(w) \/ Throw(w)
    PROVE  WorkerOnce(w)'
<1> DEFINE k == worker[w].key
<1>1. CASE Claim(w)
  <2> DEFINE v == lease[k].version + 1
             new == [id |-> v, owner |-> w, version |-> v, live |-> TRUE]
  <2>1. k \in Keys /\ lease[k].version \in Nat
    BY <1>1, WorkerType, Numbers DEF Numeric, Claim, At
  <2>2. Goto(w, "readTask") \/ (v <= MaxLeases /\ GotoWithLease(w, "start", new))
    BY <1>1 DEF Claim
  <2>3. CASE Goto(w, "readTask")
    BY <2>3, GotoIs, ElsewhereOnce
  <2>4. CASE v <= MaxLeases /\ GotoWithLease(w, "start", new)
    <3>1. worker'[w].pc = "start" /\ worker'[w].lease.id = v
      BY <2>4, LeaseRead
    <3>2. v \in 1 .. MaxLeases
      BY <2>1, <2>4, ExecutionAssumption
    <3> QED
      BY <3>1, <3>2 DEF WorkerOnce, StartToken, SeesRunning, PastFence, At
  <2> QED
    BY <2>2, <2>3, <2>4
<1>2. CASE CompleteRead(w)
  <2>1. worker'[w].pc = "fence" /\ worker'[w].step = step[k] /\ worker'[w].key = k
        /\ UNCHANGED step
    BY <1>2, StepRead DEF CompleteRead
  <2> QED
    BY <2>1 DEF WorkerOnce, StartToken, SeesRunning, PastFence, At
<1>3. CASE Fence(w)
  <2>1. CASE Leave(w)
    BY <2>1, LeaveIs, ElsewhereOnce
  <2>2. CASE worker[w].step.status = "running" /\ Goto(w, "completeSave")
    <3>1. /\ worker'[w].pc = "completeSave" /\ worker'[w].key = k
          /\ worker'[w].step = worker[w].step /\ UNCHANGED step
      BY <1>3, <2>2, GotoIs DEF Fence
    <3>2. SeesRunning(w) /\ worker[w].pc = "fence"
      BY <1>3 DEF Fence, At, OnceInv, WorkerOnce
    <3> QED
      BY <2>2, <3>1, <3>2 DEF WorkerOnce, StartToken, SeesRunning, PastFence, At, CanSave
  <2> QED
    BY <1>3, <2>1, <2>2 DEF Fence
<1>4. CASE worker'[w].pc \notin {"start", "fence", "completeSave"}
  BY <1>4, ElsewhereOnce
<1>5. CASE Start(w) \/ ReadStep(w) \/ ReadLease(w) \/ Reset(w) \/ RereadStep(w)
  BY <1>4, <1>5, GotoIs, StepRead, ToRunIs
     DEF Start, ReadStep, ReadLease, Reset, RereadStep
<1>6. CASE RereadTask(w) \/ Execute(w)
  <2>1. CASE RereadTask(w)
    <3>1. worker'[w] = [worker[w] EXCEPT !.pc = "checkLease", !.task = task[k[1]]]
      BY <2>1, BecomeIs DEF RereadTask
    <3> QED
      BY <3>1, WorkerType, ElsewhereOnce DEF Worker
  <2>2. CASE Execute(w)
    <3>1. PICK o \in {"ok", "retryable", "final"} :
            worker'[w] = [worker[w] EXCEPT
                            !.pc = IF w \in Heartbeat THEN "renew" ELSE Commit(o),
                            !.outcome = o]
      BY <2>2, BecomeIs DEF Execute
    <3>2. worker'[w].pc = IF w \in Heartbeat THEN "renew" ELSE Commit(o)
      BY <3>1, WorkerType DEF Worker
    <3> QED
      BY <3>2, ElsewhereOnce DEF Commit
  <2> QED
    BY <1>6, <2>1, <2>2
<1>7. CASE CheckLease(w) \/ Renew(w) \/ RenewCas(w)
  BY <1>4, <1>7, LeaseRead, LeaveIs, GotoIs DEF CheckLease, Renew, RenewCas, Commit
<1> QED
  BY <1>1, <1>2, <1>3, <1>4, <1>5, <1>6, <1>7, AwayMoves
     DEF WorkerStep, Release, Run, Complete, Settle, Spawn, Readers, Holding

LEMMA OnceNext ==
    TypeInv /\ TypeInv' /\ FenceInv /\ OnceInv /\ [Next]_vars => OnceInv'
<1> SUFFICES ASSUME TypeInv, TypeInv', FenceInv, OnceInv, [Next]_vars PROVE OnceInv'
  OBVIOUS
<1>1. AcceptedBefore' /\ Versioned
  BY BeforeNext, StepIs
<1>2. ASSUME NEW w \in Workers, WorkerStep(w) \/ Throw(w), NEW v \in Workers
      PROVE  WorkerOnce(v)'
  BY <1>1, <1>2, WorkerGuarantee, OwnOnce, OthersStay, OthersOnce
<1>3. ASSUME \/ \E k \in Keys : Expire(k)
             \/ PassDeadline
             \/ UNCHANGED vars,
             NEW v \in Workers
      PROVE  WorkerOnce(v)'
  <2>1. UNCHANGED <<step, runner, worker>>
        /\ (lease' = lease \/ \E k \in Keys : lease' = [lease EXCEPT ![k].live = FALSE])
    BY <1>3 DEF Expire, PassDeadline, vars, history
  <2> QED
    BY <1>1, <2>1, EnvironmentGuarantee, OthersOnce
<1>4. ASSUME NEW w \in Mortal, Crash(w), NEW v \in Workers PROVE WorkerOnce(v)'
  <2>1. w \in Workers /\ Guarantee(w)
    BY <1>4, QuietGuarantee, ExecutionAssumption DEF Crash, history
  <2>2. worker'[w].pc = "dead" /\ \A x \in Workers \ {w} : worker'[x] = worker[x]
    BY <1>4, <2>1, BecomeIs DEF Crash, Idle
  <2> QED
    BY <1>1, <2>1, <2>2, ElsewhereOnce, OthersOnce
<1> QED
  BY <1>1, <1>2, <1>3, <1>4 DEF Next, OnceInv

-----------------------------------------------------------------------------
(* The refinement                                                          *)

\* Every step of the workers is a step of the abstract specification or a stutter.
LEMMA Simulates ==
    ASSUME TypeInv, FenceInv, OnceInv, [Next]_vars
    PROVE  [Fencing!Next]_<<runner, accepted>>
<1>1. CASE Neither
  BY <1>1 DEF Neither
<1>2. ASSUME NEW w \in Workers, HandsOut(w) PROVE Fencing!Next
  BY <1>2 DEF HandsOut, Fencing!Next, Fencing!HandOut
<1>3. ASSUME NEW w \in Workers, Accepts(w) PROVE Fencing!Next
  BY <1>3 DEF Accepts, Fencing!Next, Fencing!Accept
<1> QED
  BY <1>1, <1>2, <1>3, StepIs

\* The leases keep their promise, for any number of workers, tasks, attempts and leases:
\* the execution of steps implements FencedStep.
THEOREM FencingImplemented == Spec => ImplementsFencing
<1>1. Init => Fencing!Init
  BY DEF Init, Fencing!Init
<1>2. TypeInv /\ FenceInv /\ OnceInv /\ [Next]_vars
        => [Fencing!Next]_<<runner, accepted>>
  BY Simulates
<1> QED
  BY <1>1, <1>2, TypeInit, TypeNext, FenceInit, FenceNext, OnceInit, OnceNext, PTL
     DEF Spec, ImplementsFencing, Fencing!Spec

-----------------------------------------------------------------------------
(***************************************************************************)
(* What task records say of steps                                          *)
(*                                                                         *)
(* A task is shown as completed, and one that waits for it is started,     *)
(* only after a result of it was accepted; a task points to an attempt     *)
(* that exists.  A task record is saved from what a worker has read some   *)
(* time before, so the invariant is about the drafts of the workers as     *)
(* much as about the stored records.  It holds because what a draft relies *)
(* on never goes away: steps are not deleted and accepted results are not  *)
(* taken back (Lasting), whatever happens to the statuses.                 *)
(***************************************************************************)

Exists(k)    == step[k] # NoStep
Committed(t) == \E a \in Attempts : accepted[<<t, a>>] > 0
DepsDone(t)  == \A d \in DependsOn[t] : Committed(d)

\* A task that is shown as completed has an accepted result, and its attempt exists.
TaskTrue == \A t \in Tasks : /\ task[t].status = "completed" => Committed(t)
                             /\ Exists(<<t, task[t].attempt>>)

Choosing == {"idle", "readTask", "checkDeps", "dead"}
Drafting == {"taskGet", "taskCas", "spawnGet", "spawnCas"}

\* A worker that has chosen a step has seen the tasks it waits for completed.
DepsSeen(w) == worker[w].pc \notin Choosing => DepsDone(worker[w].key[1])

\* A worker with a good result writes it to the task only when it was accepted.
ResultTrue(w) == /\ At(w, "failSave") => worker[w].outcome # "ok"
                 /\ At(w, "taskRead") /\ worker[w].outcome = "ok"
                      => Committed(worker[w].key[1])

\* The task record that a worker is about to save is as true as the stored one.
DraftTrue(w) ==
    worker[w].pc \in Drafting
      => /\ worker[w].draft.status = "completed" => Committed(worker[w].key[1])
         /\ Exists(<<worker[w].key[1], worker[w].draft.attempt>>)

WorkerOrdered(w) == DepsSeen(w) /\ ResultTrue(w) /\ DraftTrue(w)

OrderInv == TaskTrue /\ DependentsWait /\ \A w \in Workers : WorkerOrdered(w)

\* Steps are not deleted, accepted results are not taken back.
Lasting == /\ \A k \in Keys : Exists(k) => Exists(k)'
           /\ \A t \in Tasks : Committed(t) => Committed(t)'

-----------------------------------------------------------------------------
(* What lasts                                                              *)

\* A saved step exists.
LEMMA SavedExists ==
    ASSUME TypeInv, NEW w \in Workers, worker[w].key \in Keys,
           NEW s \in {"queued", "running", "completed", "failed"}, Save(w, s)
    PROVE  \A k \in Keys : Exists(k) => Exists(k)'
<1>1. /\ step'[worker[w].key] = [status |-> s, version |-> worker[w].step.version + 1]
      /\ \A k \in Keys : k # worker[w].key => step'[k] = step[k]
  BY DEF Save, TypeInv, TypeOK
<1>2. step'[worker[w].key].status # NoStep.status
  BY <1>1 DEF NoStep
<1> QED
  BY <1>1, <1>2 DEF Exists

\* No step of the system takes a step record away,
LEMMA ExistsLasts ==
    ASSUME TypeInv, [Next]_vars
    PROVE  \A k \in Keys : Exists(k) => Exists(k)'
<1>1. CASE UNCHANGED step
  BY <1>1 DEF Exists
<1>2. ASSUME NEW w \in Workers, Reset(w) \/ Start(w) \/ CompleteSave(w) \/ FailSave(w)
      PROVE  \A k \in Keys : Exists(k) => Exists(k)'
  <2>1. worker[w].key \in Keys
    BY <1>2, WorkerType DEF Reset, Start, CompleteSave, FailSave, At
  <2>2. UNCHANGED step \/ \E s \in {"queued", "running", "completed", "failed"} : Save(w, s)
    BY <1>2 DEF Reset, Start, CompleteSave, FailSave
  <2> QED
    BY <1>1, <2>1, <2>2, SavedExists
<1>3. ASSUME NEW w \in Workers, SpawnStep(w)
      PROVE  \A k \in Keys : Exists(k) => Exists(k)'
  <2>1. UNCHANGED step \/ step' = Spawned(NextTry(worker[w].key))
    BY <1>3 DEF SpawnStep
  <2> QED
    BY <2>1 DEF Spawned, Exists, TypeInv, TypeOK
<1> QED
  BY <1>1, <1>2, <1>3
     DEF Next, WorkerStep, Release, Run, Complete, Settle, Spawn,
         Poll, ReadTask, CheckDeps, ReadStep, ReadLease, Claim, Rollback, RereadStep,
         RereadTask, CheckLease, Execute, Throw, Renew, RenewCas, CompleteRead, Fence,
         TaskRead, TaskGet, TaskCas, SaveTaskGet, SaveTaskCas, Revoke, SpawnGet, SpawnCas,
         Expire, PassDeadline, Crash, vars

\* nor an accepted result.
LEMMA WhatLasts ==
    ASSUME TypeInv, FenceInv, OnceInv, [Next]_vars
    PROVE  Lasting
<1>1. \A k \in Keys : accepted[k] > 0 => accepted'[k] > 0
  <2>1. \A k \in Keys : accepted[k] \in Nat /\ runner[k] \in Nat
    BY DEF TypeInv, TypeOK
  <2>2. Neither \/ \E w \in Workers : HandsOut(w) \/ Accepts(w)
    BY StepIs
  <2> QED
    BY <2>1, <2>2 DEF Neither, HandsOut, Accepts, TypeInv, TypeOK
<1>2. \A t \in Tasks, a \in Attempts : <<t, a>> \in Keys
  BY DEF Keys
<1> QED
  BY <1>1, <1>2, ExistsLasts DEF Lasting, Committed

\* What lasts keeps the part of a worker that does not move.
LEMMA OthersOrdered ==
    ASSUME TypeInv, OrderInv, Lasting, NEW v \in Workers, worker'[v] = worker[v]
    PROVE  WorkerOrdered(v)'
<1> DEFINE t == worker[v].key[1]
<1>1. CASE worker[v].pc \in {"idle", "readTask", "dead"}
  BY <1>1 DEF WorkerOrdered, DepsSeen, ResultTrue, DraftTrue, Choosing, Drafting, At
<1>2. CASE worker[v].pc \notin {"idle", "readTask", "dead"}
  <2>1. t \in Tasks /\ <<t, worker[v].draft.attempt>> \in Keys
    BY <1>2, WorkerType DEF Keys, Task
  <2>2. DependsOn[t] \subseteq Tasks
    BY <2>1, ExecutionAssumption
  <2>3. DepsDone(t) => DepsDone(t)'
    BY <2>2 DEF DepsDone, Lasting
  <2>4. DepsSeen(v)'
    BY <2>3 DEF OrderInv, WorkerOrdered, DepsSeen, DepsDone
  <2>5. ResultTrue(v)'
    BY <2>1 DEF OrderInv, WorkerOrdered, ResultTrue, At, Lasting
  <2>6. DraftTrue(v)'
    BY <2>1 DEF OrderInv, WorkerOrdered, DraftTrue, Lasting, Exists
  <2> QED
    BY <2>4, <2>5, <2>6 DEF WorkerOrdered
<1> QED
  BY <1>1, <1>2

-----------------------------------------------------------------------------
(* A worker keeps its own part                                             *)

\* A worker that has chosen a step goes on with it, and drafts no task.
Carries(w) ==
    /\ worker[w].pc \notin Choosing
    /\ worker'[w].key = worker[w].key
    /\ worker'[w].pc \notin Drafting

\* The operations that carry a worker on with the step it is busy with, and neither
\* fail it nor write its task.
LEMMA CarriedOn ==
    ASSUME TypeInv, NEW w \in Workers,
           \/ ReadStep(w) \/ ReadLease(w) \/ Reset(w) \/ Claim(w) \/ Start(w) \/ Rollback(w)
           \/ RereadStep(w) \/ RereadTask(w) \/ CheckLease(w) \/ Execute(w) \/ Throw(w)
           \/ Renew(w) \/ RenewCas(w) \/ CompleteRead(w) \/ Fence(w) \/ Revoke(w)
    PROVE  \/ worker'[w].pc \in Choosing
           \/ /\ Carries(w) /\ worker'[w].pc # "taskRead"
              /\ worker'[w].pc = "failSave" => worker'[w].outcome # "ok"
<1> DEFINE k == worker[w].key
<1>1. CASE ReadLease(w) \/ Rollback(w) \/ Throw(w) \/ Fence(w) \/ Revoke(w) \/ Start(w)
  <2>1. \/ Leave(w)
        \/ \E l \in {"reset", "readTask", "revoke", "completeSave", "spawnStep",
                     "rereadStep", "rollback"} : Goto(w, l)
    BY <1>1 DEF ReadLease, Rollback, Throw, Fence, Revoke, Start
  <2>2. worker[w].pc \notin Choosing
    BY <1>1 DEF ReadLease, Rollback, Throw, Fence, Revoke, Start, At, Choosing
  <2> QED
    BY <2>1, <2>2, LeaveIs, GotoIs DEF Carries, Choosing, Drafting
<1>2. CASE ReadStep(w) \/ Reset(w)
  <2>1. worker[w].pc \notin Choosing
    BY <1>2 DEF ReadStep, Reset, At, Choosing
  <2>2. \/ Goto(w, "readTask")
        \/ \E s : GotoWithStep(w, "readLease", s)
        \/ \E s : ToRun(w, s)
    BY <1>2 DEF ReadStep, Reset
  <2>3. ASSUME NEW s, ToRun(w, s)
        PROVE  worker'[w].pc = "failSave" => worker'[w].outcome # "ok"
    <3>1. worker'[w] = [worker[w] EXCEPT !.pc = IF late THEN "failSave" ELSE "claim",
                                         !.step = s,
                                         !.outcome = IF late THEN "late" ELSE "none"]
      BY <2>3, BecomeIs DEF ToRun
    <3>2. worker'[w].outcome = IF late THEN "late" ELSE "none"
      BY <3>1, WorkerType DEF Worker
    <3> QED
      BY <3>2
  <2> QED
    BY <2>1, <2>2, <2>3, GotoIs, StepRead, ToRunIs DEF Carries, Choosing, Drafting
<1>3. CASE Claim(w) \/ RereadStep(w) \/ CheckLease(w) \/ CompleteRead(w)
  <2>1. worker[w].pc \notin Choosing
    BY <1>3 DEF Claim, RereadStep, CheckLease, CompleteRead, At, Choosing
  <2>2. \/ Leave(w) \/ Goto(w, "readTask")
        \/ \E s : GotoWithStep(w, "rereadTask", s) \/ GotoWithStep(w, "fence", s)
        \/ \E x : GotoWithLease(w, "start", x) \/ GotoWithLease(w, "execute", x)
    BY <1>3 DEF Claim, RereadStep, CheckLease, CompleteRead
  <2> QED
    BY <2>1, <2>2, LeaveIs, GotoIs, StepRead, LeaseRead DEF Carries, Choosing, Drafting
<1>4. CASE RereadTask(w)
  <2>1. worker'[w] = [worker[w] EXCEPT !.pc = "checkLease", !.task = task[k[1]]]
    BY <1>4, BecomeIs DEF RereadTask
  <2>2. worker'[w].pc = "checkLease" /\ worker'[w].key = k
    BY <2>1, WorkerType DEF Worker
  <2> QED
    BY <1>4, <2>2 DEF RereadTask, At, Carries, Choosing, Drafting
<1>5. CASE Execute(w)
  <2>1. PICK o \in {"ok", "retryable", "final"} :
          worker'[w] = [worker[w] EXCEPT
                          !.pc = IF w \in Heartbeat THEN "renew" ELSE Commit(o),
                          !.outcome = o]
    BY <1>5, BecomeIs DEF Execute
  <2>2. /\ worker'[w].pc = IF w \in Heartbeat THEN "renew" ELSE Commit(o)
        /\ worker'[w].outcome = o /\ worker'[w].key = k
    BY <2>1, WorkerType DEF Worker
  <2> QED
    BY <1>5, <2>2 DEF Execute, At, Commit, Carries, Choosing, Drafting
<1>6. CASE Renew(w) \/ RenewCas(w)
  <2>1. Goto(w, "renewCas") \/ Goto(w, Commit(worker[w].outcome))
    BY <1>6 DEF Renew, RenewCas
  <2>2. worker'[w].outcome = worker[w].outcome
    <3>1. \E l : worker'[w] = [worker[w] EXCEPT !.pc = l]
      BY <2>1, BecomeIs DEF Goto
    <3> QED
      BY <3>1, WorkerType DEF Worker
  <2>3. worker[w].pc \notin Choosing
    BY <1>6 DEF Renew, RenewCas, At, Choosing
  <2> QED
    BY <2>1, <2>2, <2>3, GotoIs DEF Commit, Carries, Choosing, Drafting
<1> QED
  BY <1>1, <1>2, <1>3, <1>4, <1>5, <1>6

\* A worker that is choosing has nothing to remember; one that is carried on has only
\* the tasks its step waits for.
LEMMA ChoosingOrdered ==
    ASSUME NEW w \in Workers, worker'[w].pc \in Choosing
    PROVE  WorkerOrdered(w)'
BY DEF WorkerOrdered, DepsSeen, ResultTrue, DraftTrue, Choosing, Drafting, At

\* What a worker saw of the tasks its step waits for stays true.
LEMMA DepsLast ==
    ASSUME TypeInv, OrderInv, Lasting, NEW w \in Workers, worker[w].pc \notin Choosing,
           worker'[w].key = worker[w].key
    PROVE  DepsSeen(w)'
<1>1. worker[w].key[1] \in Tasks
  BY WorkerType DEF Choosing
<1>2. DependsOn[worker[w].key[1]] \subseteq Tasks
  BY <1>1, ExecutionAssumption
<1> QED
  BY <1>2 DEF OrderInv, WorkerOrdered, DepsSeen, DepsDone, Lasting

\* releaseSteps chooses a step when it has seen what the task waits for.
LEMMA ChosenOrdered ==
    ASSUME TypeInv, OrderInv, Lasting, NEW w \in Workers,
           Poll(w) \/ ReadTask(w) \/ CheckDeps(w)
    PROVE  WorkerOrdered(w)'
<1>1. CASE Poll(w)
  <2>1. worker'[w] = [worker[w] EXCEPT !.pc = "readTask", !.rest = TaskOrder]
    BY <1>1, BecomeIs DEF Poll
  <2>2. worker'[w].pc = "readTask"
    BY <2>1, WorkerType DEF Worker
  <2> QED
    BY <2>2, ChoosingOrdered DEF Choosing
<1>2. CASE ReadTask(w)
  <2> DEFINE t == Head(worker[w].rest)
             l == IF DependsOn[t] = {} THEN "readStep" ELSE "checkDeps"
             q == Tail(worker[w].rest)
             x == <<t, task[t].attempt>>
  <2>1. \/ Leave(w)
        \/ worker'[w] = [Idle EXCEPT !.pc = l, !.rest = q, !.key = x]
    BY <1>2, BecomeIs DEF ReadTask
  <2>2. x[1] = t
    OBVIOUS
  <2> HIDE DEF l, q, x
  <2>3. CASE worker'[w] = [Idle EXCEPT !.pc = l, !.rest = q, !.key = x]
    <3>1. worker'[w].pc = l /\ worker'[w].key[1] = t
      BY <2>2, <2>3 DEF Idle
    <3>2. l \in {"readStep", "checkDeps"} /\ (l = "readStep" => DependsOn[t] = {})
      BY DEF l
    <3>3. DepsSeen(w)'
      BY <3>1, <3>2 DEF DepsSeen, DepsDone, Choosing
    <3> QED
      BY <3>1, <3>2, <3>3 DEF WorkerOrdered, ResultTrue, DraftTrue, Drafting, At
  <2> QED
    BY <2>1, <2>3, LeaveIs, ChoosingOrdered DEF Choosing
<1>3. CASE CheckDeps(w)
  <2> DEFINE t == worker[w].key[1]
  <2>1. t \in Tasks /\ DependsOn[t] \subseteq Tasks
    BY <1>3, WorkerType, ExecutionAssumption DEF CheckDeps, At
  <2>2. CASE Goto(w, "readTask")
    BY <2>2, GotoIs, ChoosingOrdered DEF Choosing
  <2>3. CASE /\ Goto(w, "readStep")
             /\ \A d \in DependsOn[t] : task[d].status = "completed"
    <3>1. DepsDone(t)
      BY <2>1, <2>3 DEF OrderInv, TaskTrue, DepsDone
    <3>2. \A d \in DependsOn[t] : Committed(d)'
      BY <2>1, <3>1 DEF DepsDone, Lasting
    <3>3. worker'[w].pc = "readStep" /\ worker'[w].key = worker[w].key
      BY <2>3, GotoIs
    <3> QED
      BY <3>2, <3>3 DEF WorkerOrdered, DepsSeen, DepsDone, ResultTrue, DraftTrue, Drafting, At
  <2> QED
    BY <1>3, <2>2, <2>3 DEF CheckDeps
<1> QED
  BY <1>1, <1>2, <1>3

\* completeStep goes on to the task when the result was accepted, failStep with none.
LEMMA SettledOrdered ==
    ASSUME TypeInv, FenceInv, OnceInv, OrderInv, Lasting, NEW w \in Workers,
           CompleteSave(w) \/ FailSave(w)
    PROVE  WorkerOrdered(w)'
<1> DEFINE k == worker[w].key
<1>1. k \in Keys /\ worker[w].pc \notin Choosing
  BY WorkerType DEF CompleteSave, FailSave, At, Choosing
<1>2. CASE CompleteSave(w)
  <2>1. CASE Leave(w)
    BY <2>1, LeaveIs, ChoosingOrdered DEF Choosing
  <2>2. CASE CanSave(w) /\ Goto(w, "taskRead")
    <3>1. worker'[w].pc = "taskRead" /\ worker'[w].key = k
      BY <2>2, GotoIs
    <3>2. accepted'[k] > 0
      <4>1. accepted' = [accepted EXCEPT ![k] = worker[w].lease.id] /\ UNCHANGED runner
        BY <1>2, <2>2 DEF CompleteSave
      <4>2. runner[k] = worker[w].lease.id
        BY <1>2, <2>2 DEF CompleteSave, FenceInv, WorkerFenced, CommitReady
      <4>3. step[k].status = "running"
        BY <1>2, <2>2 DEF CompleteSave, At, OnceInv, WorkerOnce, SeesRunning, PastFence
      <4>4. accepted[k] < runner[k] /\ accepted[k] \in Nat /\ runner[k] \in Nat
        BY <1>1, <4>3 DEF OnceInv, AcceptedBefore, TypeInv, TypeOK
      <4> QED
        BY <1>1, <4>1, <4>2, <4>4 DEF TypeInv, TypeOK
    <3>3. k[2] \in Attempts /\ k = <<k[1], k[2]>>
      BY <1>1 DEF Keys
    <3>4. Committed(k[1])'
      BY <3>1, <3>2, <3>3 DEF Committed
    <3>5. DepsSeen(w)'
      BY <1>1, <3>1, DepsLast
    <3> QED
      BY <3>1, <3>4, <3>5 DEF WorkerOrdered, ResultTrue, DraftTrue, Drafting, At
  <2> QED
    BY <1>2, <2>1, <2>2 DEF CompleteSave
<1>3. CASE FailSave(w)
  <2>1. worker[w].outcome # "ok"
    BY <1>3 DEF FailSave, OrderInv, WorkerOrdered, ResultTrue
  <2>2. \/ worker'[w] = [worker[w] EXCEPT !.pc = "taskRead"]
        \/ \E l \in {"readTask", "revoke"} :
              worker'[w] = [worker[w] EXCEPT !.pc = l, !.outcome = "none"]
    BY <1>3, BecomeIs DEF FailSave, Goto
  <2>3. /\ worker'[w].pc \in {"taskRead", "readTask", "revoke"}
        /\ worker'[w].key = k /\ worker'[w].outcome # "ok"
    BY <2>1, <2>2, WorkerType DEF Worker
  <2>4. DepsSeen(w)'
    BY <1>1, <2>3, DepsLast
  <2> QED
    BY <2>3, <2>4 DEF WorkerOrdered, ResultTrue, DraftTrue, Drafting, At
<1> QED
  BY <1>2, <1>3

\* The draft of a task is made from a record that is true, or for an attempt that has
\* just been made sure of.
LEMMA DraftedOrdered ==
    ASSUME TypeInv, OrderInv, Lasting, NEW w \in Workers, TaskRead(w) \/ SpawnStep(w)
    PROVE  WorkerOrdered(w)'
<1> DEFINE k == worker[w].key
<1>1. k \in Keys /\ k[1] \in Tasks /\ task[k[1]] \in Task /\ worker[w].pc \notin Choosing
  BY WorkerType DEF TaskRead, SpawnStep, At, Choosing
<1>2. CASE TaskRead(w)
  <2> DEFINE d == Advanced(w, task[k[1]])
  <2>1. /\ d.attempt = task[k[1]].attempt
        /\ d.status = IF worker[w].outcome = "ok" THEN "completed" ELSE task[k[1]].status
    BY <1>1 DEF Advanced, Task
  <2>2. d.status = "completed" => Committed(k[1])
    BY <1>1, <1>2, <2>1
       DEF TaskRead, OrderInv, WorkerOrdered, ResultTrue, TaskTrue
  <2>3. Exists(<<k[1], d.attempt>>) /\ <<k[1], d.attempt>> \in Keys
    BY <1>1, <2>1 DEF OrderInv, TaskTrue, Keys, Task
  <2>4. worker'[w] = [worker[w] EXCEPT !.pc = "taskGet", !.draft = d]
    BY <1>2, BecomeIs DEF TaskRead
  <2> HIDE DEF d
  <2>5. worker'[w].pc = "taskGet" /\ worker'[w].draft = d /\ worker'[w].key = k
    BY <2>4, WorkerType DEF Worker
  <2>6. d.status = "completed" => \E a \in Attempts : accepted'[<<k[1], a>>] > 0
    BY <1>1, <2>2 DEF Lasting, Committed
  <2>7. step'[<<k[1], d.attempt>>] # NoStep
    BY <2>3 DEF Lasting, Exists
  <2>8. DraftTrue(w)'
    BY <2>5, <2>6, <2>7 DEF DraftTrue, Exists, Committed
  <2> QED
    BY <1>1, <2>5, <2>8, DepsLast DEF WorkerOrdered, ResultTrue, At
<1>3. CASE SpawnStep(w)
  <2> DEFINE d == [status  |-> "queued",
                   attempt |-> k[2] + 1,
                   version |-> worker[w].task.version + 1]
             n == <<k[1], k[2] + 1>>
  <2>1. CASE Leave(w)
    BY <2>1, LeaveIs, ChoosingOrdered DEF Choosing
  <2>2. CASE /\ step' = Spawned(NextTry(k))
             /\ worker'[w] = [worker[w] EXCEPT !.pc = "spawnGet", !.draft = d]
    <3>1. k[2] \in 1 .. MaxRetries
      BY <1>3 DEF SpawnStep, TypeInv, SpawnOK
    <3>2. n \in Keys
      BY <1>1, <3>1, ExecutionAssumption DEF Keys, Attempts
    <3>3. step'[n] # NoStep
      BY <2>2, <3>2 DEF Spawned, NextTry, FreshStep, NoStep, TypeInv, TypeOK
    <3>4. d.status = "queued" /\ d.attempt = k[2] + 1
      OBVIOUS
    <3> HIDE DEF d
    <3>5. worker'[w].pc = "spawnGet" /\ worker'[w].draft = d /\ worker'[w].key = k
      BY <2>2, WorkerType DEF Worker
    <3>6. DraftTrue(w)'
      BY <3>3, <3>4, <3>5 DEF DraftTrue, Exists
    <3> QED
      BY <1>1, <3>5, <3>6, DepsLast DEF WorkerOrdered, ResultTrue, At
  <2> QED
    BY <1>3, <2>1, <2>2, BecomeIs DEF SpawnStep
<1> QED
  BY <1>2, <1>3

\* It stays what it is while it is saved.
LEMMA SavingOrdered ==
    ASSUME TypeInv, OrderInv, Lasting, NEW w \in Workers,
           TaskGet(w) \/ TaskCas(w) \/ SpawnGet(w) \/ SpawnCas(w)
    PROVE  WorkerOrdered(w)'
<1> DEFINE k == worker[w].key
<1>1. k \in Keys /\ k[1] \in Tasks /\ worker[w].pc \in Drafting
  BY WorkerType
     DEF TaskGet, TaskCas, SpawnGet, SpawnCas, SaveTaskGet, SaveTaskCas, At, Drafting
<1>2. \/ Leave(w)
      \/ \E l \in {"readTask", "revoke"} : Goto(w, l)
      \/ \E l \in {"taskCas", "spawnCas"} :
            worker'[w] = [worker[w] EXCEPT !.pc = l, !.stored = task[k[1]]]
  BY BecomeIs
     DEF TaskGet, TaskCas, SpawnGet, SpawnCas, SaveTaskGet, SaveTaskCas, AfterTask
<1>3. CASE Leave(w)
  BY <1>3, LeaveIs, ChoosingOrdered DEF Choosing
<1>4. ASSUME NEW l \in {"readTask", "revoke"}, Goto(w, l) PROVE WorkerOrdered(w)'
  <2>1. worker'[w].pc = l /\ worker'[w].key = k
    BY <1>4, GotoIs
  <2>2. DepsSeen(w)'
    BY <1>1, <2>1, DepsLast DEF Choosing, Drafting
  <2> QED
    BY <1>4, <2>1, <2>2 DEF WorkerOrdered, ResultTrue, DraftTrue, Drafting, At
<1>5. ASSUME NEW l \in {"taskCas", "spawnCas"},
             worker'[w] = [worker[w] EXCEPT !.pc = l, !.stored = task[k[1]]]
      PROVE  WorkerOrdered(w)'
  <2>1. worker'[w].pc = l /\ worker'[w].key = k /\ worker'[w].draft = worker[w].draft
    BY <1>5, WorkerType DEF Worker
  <2>2. DepsSeen(w)'
    BY <1>1, <2>1, DepsLast DEF Choosing, Drafting
  <2>3. <<k[1], worker[w].draft.attempt>> \in Keys
    BY <1>1, WorkerType DEF Keys, Task
  <2>4. DraftTrue(w)'
    BY <1>1, <2>1, <2>3 DEF OrderInv, WorkerOrdered, DraftTrue, Lasting, Exists
  <2> QED
    BY <1>5, <2>1, <2>2, <2>4 DEF WorkerOrdered, ResultTrue, At
<1> QED
  BY <1>2, <1>3, <1>4, <1>5

\* So every step of a worker keeps what is said of it.
LEMMA OwnOrdered ==
    ASSUME TypeInv, FenceInv, OnceInv, OrderInv, Lasting, NEW w \in Workers,
           WorkerStep(w) \/ Throw(w)
    PROVE  WorkerOrdered(w)'
<1>1. ASSUME Carries(w), worker'[w].pc # "taskRead",
             worker'[w].pc = "failSave" => worker'[w].outcome # "ok"
      PROVE  WorkerOrdered(w)'
  <2>1. DepsSeen(w)'
    BY <1>1, DepsLast DEF Carries
  <2> QED
    BY <1>1, <2>1 DEF Carries, WorkerOrdered, ResultTrue, DraftTrue, At
<1> QED
  BY <1>1, CarriedOn, ChoosingOrdered, ChosenOrdered, SettledOrdered, DraftedOrdered,
     SavingOrdered
     DEF WorkerStep, Release, Run, Complete, Settle, Spawn

-----------------------------------------------------------------------------
(* The records                                                             *)

\* A task that is written gets a draft, which is as true as the record it replaces.
LEMMA TaskTrueNext ==
    ASSUME TypeInv, OrderInv, Lasting, [Next]_vars
    PROVE  TaskTrue'
<1>1. \A t \in Tasks : <<t, task[t].attempt>> \in Keys
  BY DEF TypeInv, TypeOK, Keys, Task
<1>2. CASE UNCHANGED task
  BY <1>1, <1>2 DEF OrderInv, TaskTrue, Lasting, Exists
<1>3. ASSUME NEW w \in Workers, TaskCas(w) \/ SpawnCas(w) PROVE TaskTrue'
  <2> DEFINE k == worker[w].key
  <2>1. k[1] \in Tasks /\ worker[w].draft \in Task /\ worker[w].pc \in Drafting
    BY <1>3, WorkerType DEF TaskCas, SpawnCas, SaveTaskCas, At, Drafting
  <2>2. UNCHANGED task \/ task' = [task EXCEPT ![k[1]] = worker[w].draft]
    BY <1>3 DEF TaskCas, SpawnCas, SaveTaskCas
  <2>3. CASE task' = [task EXCEPT ![k[1]] = worker[w].draft]
    <3>1. /\ task'[k[1]] = worker[w].draft
          /\ \A t \in Tasks : t # k[1] => task'[t] = task[t]
      BY <2>1, <2>3 DEF TypeInv, TypeOK
    <3>2. <<k[1], worker[w].draft.attempt>> \in Keys
      BY <2>1 DEF Keys, Task
    <3>3. /\ worker[w].draft.status = "completed" => Committed(k[1])
          /\ Exists(<<k[1], worker[w].draft.attempt>>)
      BY <2>1 DEF OrderInv, WorkerOrdered, DraftTrue
    <3>4. ASSUME NEW t \in Tasks, t = k[1]
          PROVE  /\ task'[t].status = "completed" => Committed(t)'
                 /\ step'[<<t, task'[t].attempt>>] # NoStep
      BY <3>1, <3>2, <3>3, <3>4 DEF Lasting, Exists
    <3>5. ASSUME NEW t \in Tasks, t # k[1]
          PROVE  /\ task'[t].status = "completed" => Committed(t)'
                 /\ step'[<<t, task'[t].attempt>>] # NoStep
      BY <1>1, <3>1, <3>5 DEF OrderInv, TaskTrue, Lasting, Exists
    <3> QED
      BY <3>4, <3>5 DEF TaskTrue, Exists
  <2> QED
    BY <1>2, <2>2, <2>3
<1> QED
  BY <1>2, <1>3
     DEF Next, WorkerStep, Release, Run, Complete, Settle, Spawn,
         Poll, ReadTask, CheckDeps, ReadStep, ReadLease, Reset, Claim, Start, Rollback,
         RereadStep, RereadTask, CheckLease, Execute, Throw, Renew, RenewCas, CompleteRead,
         Fence, CompleteSave, FailSave, TaskRead, TaskGet, SaveTaskGet, Revoke, SpawnStep,
         SpawnGet, Expire, PassDeadline, Crash, vars

\* A step is started by a worker that has seen what it waits for.
LEMMA DependentsNext ==
    ASSUME TypeInv, OrderInv, Lasting, [Next]_vars
    PROVE  DependentsWait'
<1>0. \A k \in Keys : k[1] \in Tasks /\ DependsOn[k[1]] \subseteq Tasks
  BY ExecutionAssumption DEF Keys
<1>1. SUFFICES ASSUME NEW k \in Keys, runner'[k] > 0, NEW d \in DependsOn[k[1]]
               PROVE  Committed(d)'
  BY DEF DependentsWait, Committed
<1>2. CASE runner'[k] = runner[k]
  BY <1>0, <1>1, <1>2 DEF OrderInv, DependentsWait, Committed, Lasting
<1>3. CASE runner'[k] # runner[k]
  <2>1. PICK w \in Workers : Start(w)
    BY <1>3
       DEF Next, WorkerStep, Release, Run, Complete, Settle, Spawn, history,
           Poll, ReadTask, CheckDeps, ReadStep, ReadLease, Reset, Claim, Rollback,
           RereadStep, RereadTask, CheckLease, Execute, Throw, Renew, RenewCas,
           CompleteRead, Fence, CompleteSave, FailSave, TaskRead, TaskGet, TaskCas,
           SaveTaskGet, SaveTaskCas, Revoke, SpawnStep, SpawnGet, SpawnCas,
           Expire, PassDeadline, Crash, vars
  <2>2. worker[w].key = k
    BY <1>3, <2>1 DEF Start, TypeInv, TypeOK
  <2>3. DepsDone(k[1])
    BY <2>1, <2>2 DEF Start, At, OrderInv, WorkerOrdered, DepsSeen, Choosing
  <2> QED
    BY <1>0, <2>3 DEF DepsDone, Lasting
<1> QED
  BY <1>2, <1>3

LEMMA OrderInit == Init => OrderInv
<1> SUFFICES ASSUME Init PROVE OrderInv
  OBVIOUS
<1>1. TaskTrue
  <2>1. \A t \in Tasks : <<t, 1>> \in Keys
    BY ExecutionAssumption DEF Keys, Attempts
  <2> QED
    BY <2>1 DEF Init, TaskTrue, Exists, FreshTask, FreshStep, NoStep
<1>2. DependentsWait
  BY DEF Init, DependentsWait
<1>3. \A w \in Workers : WorkerOrdered(w)
  BY DEF Init, Idle, WorkerOrdered, DepsSeen, ResultTrue, DraftTrue, Choosing, Drafting, At
<1> QED
  BY <1>1, <1>2, <1>3 DEF OrderInv

LEMMA OrderNext ==
    TypeInv /\ FenceInv /\ OnceInv /\ OrderInv /\ [Next]_vars => OrderInv'
<1> SUFFICES ASSUME TypeInv, FenceInv, OnceInv, OrderInv, [Next]_vars PROVE OrderInv'
  OBVIOUS
<1>1. Lasting
  BY WhatLasts
<1>2. TaskTrue' /\ DependentsWait'
  BY <1>1, TaskTrueNext, DependentsNext
<1>3. ASSUME NEW w \in Workers, WorkerStep(w) \/ Throw(w), NEW v \in Workers
      PROVE  WorkerOrdered(v)'
  BY <1>1, <1>3, OwnOrdered, OthersStay, OthersOrdered
<1>4. ASSUME \/ \E k \in Keys : Expire(k)
             \/ PassDeadline
             \/ UNCHANGED vars,
             NEW v \in Workers
      PROVE  WorkerOrdered(v)'
  <2>1. UNCHANGED worker
    BY <1>4 DEF Expire, PassDeadline, vars
  <2> QED
    BY <1>1, <2>1, OthersOrdered
<1>5. ASSUME NEW w \in Mortal, Crash(w), NEW v \in Workers PROVE WorkerOrdered(v)'
  <2>1. w \in Workers
    BY ExecutionAssumption
  <2>2. worker'[w].pc = "dead" /\ \A x \in Workers \ {w} : worker'[x] = worker[x]
    BY <1>5, <2>1, BecomeIs DEF Crash, Idle
  <2> QED
    BY <1>1, <2>1, <2>2, OthersOrdered, ChoosingOrdered DEF Choosing
<1>6. \A v \in Workers : WorkerOrdered(v)'
  BY <1>3, <1>4, <1>5 DEF Next
<1> QED
  BY <1>2, <1>6 DEF OrderInv

-----------------------------------------------------------------------------
(* Theorems                                                                *)

LEMMA OrderCorrect == Spec => []OrderInv
BY TypeInit, TypeNext, FenceInit, FenceNext, OnceInit, OnceNext, OrderInit, OrderNext,
   PTL DEF Spec

\* A step is started only after a result of each task it waits for was accepted, however
\* stale the task records are that releaseSteps reads.
THEOREM DependentsCorrect == Spec => []DependentsWait
<1>1. OrderInv => DependentsWait
  BY DEF OrderInv
<1> QED
  BY <1>1, OrderCorrect, PTL

\* A task always points to an attempt whose step exists, wherever a worker dies in
\* spawnRetry and whichever stale task record is saved.
THEOREM CurrentCorrect == Spec => []CurrentStepExists
<1>1. OrderInv => CurrentStepExists
  BY DEF OrderInv, TaskTrue, Exists, CurrentStepExists
<1> QED
  BY <1>1, OrderCorrect, PTL
==============================================================================
