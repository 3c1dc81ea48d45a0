--------------------------- MODULE SubmissionProofs ---------------------------
(***************************************************************************)
(* Theorems about Submission for any number of calls, keys, tasks and      *)
(* runs, checked by TLAPS: the state keeps its types                       *)
(* (SubmissionTypeCorrect), what a call returns is a complete submission   *)
(* (ReturnedCorrect), no run is minted before the last one has ended       *)
(* (MintedCorrect), and planning again undoes nothing (ReplayCorrect).     *)
(*                                                                         *)
(* A caller acts on a job and on a run that it has read some time before.  *)
(* What it may rely on is what never goes away, whoever writes (Lasts): a  *)
(* run that has ended has ended, a task that was planned stays planned, a  *)
(* run that has its tasks keeps them.                                      *)
(***************************************************************************)
EXTENDS Submission, TLAPS

HasStep(t) == task[t] >= 1 /\ t \in stepped
Planned(n) == run[n].planned \/ n \in ended
After(n)   == n > 1 => n - 1 \in ended

\* A job names its last run, which comes after one that has ended.
JobOK(j) == j.current = j.count /\ After(j.current)

\* Nobody but its creator has touched a run of version 1; one that was moved on has its
\* tasks or has ended.
RunOK(n) ==
    /\ run[n].version <= 1 => run[n] \in {NoRun, NewRun}
    /\ run[n] \in {NoRun, NewRun} \/ Planned(n)
    /\ run[n].status \in Terminal => n \in ended
    /\ Exists(run[n]) => After(n)

Planning == {"saveTask", "saveStep", "pointTask"}
Saving   == {"getStored", "saveRun", "event"}
Writing  == {"saveJob", "getRun", "newRun"} \cup Planning \cup Saving

\* What a caller in state r may rely on.
CallerOK(r) ==
    /\ JobOK(r.job)
    /\ r.pc = "getPrior" => r.job.current \in Runs
    /\ r.pc = "saveJob" => r.id \in {r.job.count, r.job.count + 1}
    /\ r.pc \in Writing => r.id \in Runs /\ After(r.id)
    /\ r.pc \in Planning \cup Saving => run[r.id].version >= 1
    /\ r.pc \in Planning \cup {"getStored", "saveRun"} =>
          r.run.version >= 1 /\ (r.run.status \in Terminal => r.id \in ended)
    /\ r.pc \in Planning =>
          r.rest # <<>> /\ \A t \in Tasks : HasStep(t) \/ \E i \in 1 .. Len(r.rest) : r.rest[i] = t
    /\ r.pc = "pointTask" => Head(r.rest) \in stepped
    /\ r.pc \in Saving => \A t \in Tasks : HasStep(t)
    /\ r.pc = "saveRun" => r.stored = NewRun \/ Planned(r.id)
    /\ r.pc = "event" => Planned(r.id)
    /\ r.pc = "done" => r.id \in Runs /\ Complete(r.id)

\* The types and the invariant of what is stored.
StoreOK == /\ recorded \subseteq Keys /\ appended \subseteq Keys
           /\ job \in Job /\ JobOK(job)
           /\ run \in [Runs -> Run] /\ \A n \in Runs : RunOK(n)
           /\ task \in [Tasks -> -1 .. 2] /\ stepped \subseteq Tasks
           /\ submitted \subseteq Runs /\ ended \subseteq Runs /\ settled \subseteq Runs

SubInv == /\ StoreOK
          /\ caller \in [Callers -> Caller]
          /\ \A c \in Callers : CallerOK(caller[c])

\* What never goes away.
Lasts == /\ ended \subseteq ended' /\ stepped \subseteq stepped'
         /\ \A t \in Tasks : task[t] <= task'[t]
         /\ \A n \in Runs : Planned(n) => Planned(n)'
         /\ \A n \in Runs : run[n].version >= 1 => run'[n].version >= 1

-----------------------------------------------------------------------------
(* Types                                                                   *)

LEMMA UpdateType ==
    ASSUME NEW D, NEW R, NEW f \in [D -> R], NEW d, NEW v \in R
    PROVE  [f EXCEPT ![d] = v] \in [D -> R]
OBVIOUS

\* The empty records, and what the constants are.
LEMMA EmptyTypes ==
    /\ MaxRuns \in Nat \ {0} /\ 1 \in Runs /\ Runs \subseteq 0 .. MaxRuns
    /\ NoJob \in Job /\ NoRun \in Run /\ NewRun \in Run /\ NewCaller \in Caller
    /\ NoRun.version = -1 /\ NewRun.version = 1 /\ ~NoRun.planned /\ ~NewRun.planned
    /\ NewRun.status \notin Terminal /\ NoRun.status \notin Terminal
<1>1. MaxRuns \in Nat \ {0} /\ 1 \in Runs /\ Runs \subseteq 0 .. MaxRuns
  BY SubmissionAssumption DEF Runs
<1>2. NoJob \in Job /\ NoRun \in Run /\ NewRun \in Run
  BY <1>1 DEF NoJob, NoRun, NewRun, Job, Run, RunStatus
<1>3. <<>> \in Seq(Tasks)
  OBVIOUS
<1>4. NewCaller \in Caller
  BY <1>1, <1>2, <1>3 DEF NewCaller, Caller
<1> QED
  BY <1>1, <1>2, <1>4 DEF NoRun, NewRun, Terminal

\* What a caller in a state r relies on stays true.
LEMMA CallerLasts ==
    ASSUME StoreOK, StoreOK', Lasts, NEW r \in Caller, CallerOK(r)
    PROVE  CallerOK(r)'
<1>1. \A n : After(n) => After(n)'
  BY DEF After, Lasts
<1>2. \A t \in Tasks : HasStep(t) => HasStep(t)'
  BY DEF HasStep, Lasts, StoreOK
<1>3. JobOK(r.job)'
  BY <1>1 DEF CallerOK, JobOK
<1>4. r.id \in Runs /\ Complete(r.id) => Complete(r.id)'
  <2>1. Complete(r.id) <=> (\A t \in Tasks : HasStep(t)) /\ Planned(r.id)
    BY DEF Complete, HasStep, Planned
  <2>2. Complete(r.id)' <=> (\A t \in Tasks : HasStep(t)') /\ Planned(r.id)'
    BY DEF Complete, HasStep, Planned
  <2> QED
    BY <1>2, <2>1, <2>2 DEF Lasts
<1>5. r.pc \in Writing => r.id \in Runs /\ After(r.id)'
  BY <1>1 DEF CallerOK
<1>6. r.pc \in Planning \cup Saving => run'[r.id].version >= 1
  BY DEF CallerOK, Writing, Lasts
<1>7. r.pc \in Planning \cup {"getStored", "saveRun"} =>
          r.run.version >= 1 /\ (r.run.status \in Terminal => r.id \in ended')
  BY DEF CallerOK, Lasts
<1>8. /\ r.pc \in Planning =>
            r.rest # <<>> /\ \A t \in Tasks : HasStep(t)' \/ \E i \in 1 .. Len(r.rest) : r.rest[i] = t
      /\ r.pc = "pointTask" => Head(r.rest) \in stepped'
      /\ r.pc \in Saving => \A t \in Tasks : HasStep(t)'
  BY <1>2 DEF CallerOK, Lasts
<1>9. /\ r.pc = "saveRun" => r.stored = NewRun \/ Planned(r.id)'
      /\ r.pc = "event" => Planned(r.id)'
  BY DEF CallerOK, Lasts, Writing, Saving
<1> QED
  BY <1>3, <1>4, <1>5, <1>6, <1>7, <1>8, <1>9 DEF CallerOK

-----------------------------------------------------------------------------
(* What is stored                                                          *)

\* A caller that is about to write a run knows what it writes.
LEMMA Writer ==
    ASSUME SubInv, NEW c \in Callers
    PROVE  /\ caller[c] \in Caller /\ CallerOK(caller[c])
           /\ caller[c].job \in Job /\ caller[c].run \in Run /\ caller[c].rest \in Seq(Tasks)
           /\ caller[c].id \in 0 .. MaxRuns
           /\ caller[c].pc \in Writing => caller[c].id \in Runs
BY DEF SubInv, Caller, CallerOK

\* The run a caller writes in the end.
LEMMA UpdatedType ==
    ASSUME NEW r \in Run
    PROVE  /\ Updated(r) \in Run /\ Updated(r).planned
           /\ Updated(r).version = r.version + 1
           /\ Updated(r).status \in Terminal => r.status \in Terminal
BY DEF Updated, Run, RunStatus, Terminal

\* One run is written: it is enough to look at that one.
LEMMA OneRun ==
    ASSUME StoreOK, NEW n \in Runs, NEW r \in Run, run' = [run EXCEPT ![n] = r],
           ended \subseteq ended', ended' \subseteq Runs,
           r.version <= 1 => r \in {NoRun, NewRun},
           r \in {NoRun, NewRun} \/ r.planned \/ n \in ended',
           r.status \in Terminal => n \in ended',
           r.version >= 0 => After(n),
           Planned(n) => r.planned \/ n \in ended',
           run[n].version >= 1 => r.version >= 1
    PROVE  /\ run' \in [Runs -> Run] /\ \A k \in Runs : RunOK(k)'
           /\ \A k \in Runs : Planned(k) => Planned(k)'
           /\ \A k \in Runs : run[k].version >= 1 => run'[k].version >= 1
<1>1. run'[n] = r /\ \A k \in Runs \ {n} : run'[k] = run[k]
  BY DEF StoreOK
<1>2. \A k : After(k) => After(k)'
  BY DEF After
<1>3. RunOK(n)'
  BY <1>1, <1>2 DEF RunOK, Planned, Exists
<1>4. \A k \in Runs \ {n} : RunOK(k)'
  BY <1>1, <1>2 DEF RunOK, Planned, Exists, StoreOK
<1>5. \A k \in Runs : Planned(k) => Planned(k)'
  BY <1>1 DEF Planned
<1> QED
  BY <1>1, <1>3, <1>4, <1>5, UpdateType DEF StoreOK

\* Nothing that is stored changes.
LEMMA SameStore ==
    ASSUME StoreOK, UNCHANGED <<store, ended, settled>>
    PROVE  StoreOK' /\ Lasts
BY DEF StoreOK, Lasts, store, JobOK, RunOK, Planned, After, Exists

\* The job that is saved names the run of the caller.
LEMMA SaveJobStore ==
    ASSUME SubInv, NEW c \in Callers, SaveJob(c)
    PROVE  StoreOK' /\ Lasts
<1> DEFINE j == caller[c].job
           n == caller[c].id
           next == [status  |-> IF j.status \in Terminal THEN j.status ELSE "running",
                    version |-> j.version + 1,
                    current |-> n,
                    count   |-> IF n > j.count THEN n ELSE j.count]
<1>1. /\ j \in Job /\ n \in 1 .. MaxRuns /\ n \in {j.count, j.count + 1} /\ After(n)
  BY Writer DEF SaveJob, At, CallerOK, Writing, Runs
<1>2. next \in Job /\ next.current = n /\ next.count = n
  BY <1>1, EmptyTypes DEF Job, RunStatus
<1>3. job' = next \/ job' = job
  BY DEF SaveJob
<1> HIDE DEF next
<1>4. UNCHANGED <<recorded, run, task, stepped, submitted, appended, ended, settled>>
  BY DEF SaveJob
<1>5. job' \in Job /\ JobOK(job')
  BY <1>1, <1>2, <1>3 DEF SubInv, StoreOK, JobOK
<1> QED
  BY <1>4, <1>5 DEF SubInv, StoreOK, Lasts, JobOK, RunOK, Planned, After, Exists

LEMMA CreateRunStore ==
    ASSUME SubInv, NEW c \in Callers, CreateRun(c)
    PROVE  StoreOK' /\ Lasts
<1> DEFINE n == caller[c].id
<1>1. n \in Runs /\ After(n)
  BY Writer DEF CreateRun, At, CallerOK, Writing
<1>2. UNCHANGED <<recorded, job, task, stepped, submitted, appended, ended, settled>>
  BY DEF CreateRun
<1>3. CASE UNCHANGED run
  BY <1>2, <1>3, SameStore DEF SubInv, store
<1>4. CASE SaveRunAccepts(run[n], NewRun) /\ run' = [run EXCEPT ![n] = NewRun]
  <2>1. run[n] \in {NoRun, NewRun}
    BY <1>1, <1>4, EmptyTypes DEF SaveRunAccepts, SubInv, StoreOK, RunOK
  <2>2. Planned(n) => n \in ended
    BY <2>1, EmptyTypes DEF Planned
  <2>3. StoreOK /\ ended' \subseteq Runs /\ ended' = ended
    BY <1>2 DEF SubInv, StoreOK
  <2>4. /\ run' \in [Runs -> Run] /\ \A k \in Runs : RunOK(k)'
        /\ \A k \in Runs : Planned(k) => Planned(k)'
        /\ \A k \in Runs : run[k].version >= 1 => run'[k].version >= 1
    <3>1. /\ NewRun \in Run /\ NewRun \in {NoRun, NewRun} /\ NewRun.version = 1
          /\ NewRun.status \notin Terminal
      BY EmptyTypes
    <3>2. /\ run[n].version >= 1 => NewRun.version >= 1
          /\ NewRun.version >= 0 => After(n)
          /\ Planned(n) => NewRun.planned \/ n \in ended'
      BY <1>1, <2>2, <2>3, <3>1
    <3> QED
      BY <1>1, <1>4, <2>3, <3>1, <3>2, OneRun
  <2> QED
    BY <1>2, <2>3, <2>4 DEF StoreOK, Lasts, JobOK, After
<1> QED
  BY <1>3, <1>4 DEF CreateRun

LEMMA SaveRunStore ==
    ASSUME SubInv, NEW c \in Callers, SaveRun(c)
    PROVE  StoreOK' /\ Lasts
<1> DEFINE n == caller[c].id
           r == Updated(caller[c].run)
<1>1. /\ n \in Runs /\ After(n) /\ caller[c].run \in Run /\ caller[c].run.version >= 1
      /\ caller[c].run.status \in Terminal => n \in ended
  BY Writer DEF SaveRun, At, CallerOK, Writing, Saving
<1>2. UNCHANGED <<recorded, job, task, stepped, submitted, appended, ended, settled>>
  BY DEF SaveRun
<1>3. CASE UNCHANGED run
  BY <1>2, <1>3, SameStore DEF SubInv, store
<1>4. CASE run' = [run EXCEPT ![n] = r]
  <2>1. caller[c].run.version \in Int
    BY <1>1 DEF Run
  <2>2. r \in Run /\ r.planned /\ r.version > 1 /\ (r.status \in Terminal => n \in ended)
    BY <1>1, <2>1, UpdatedType
  <2>3. StoreOK /\ ended' \subseteq Runs /\ ended' = ended
    BY <1>2 DEF SubInv, StoreOK
  <2> HIDE DEF r
  <2>4. /\ run' \in [Runs -> Run] /\ \A k \in Runs : RunOK(k)'
        /\ \A k \in Runs : Planned(k) => Planned(k)'
        /\ \A k \in Runs : run[k].version >= 1 => run'[k].version >= 1
    <3>1. r.version >= 1 /\ ~(r.version <= 1)
      BY <2>2 DEF Run
    <3> QED
      BY <1>1, <1>4, <2>2, <2>3, <3>1, OneRun
  <2> QED
    BY <1>2, <2>3, <2>4 DEF StoreOK, Lasts, JobOK, After
<1> QED
  BY <1>3, <1>4 DEF SaveRun

\* planDag: a version is never behind the stored one.
LEMMA SavedType ==
    ASSUME StoreOK, NEW t \in Tasks, NEW v \in 0 .. 1
    PROVE  /\ Saved(t, v) \in [Tasks -> -1 .. 2]
           /\ \A u \in Tasks : task[u] <= Saved(t, v)[u]
           /\ Saved(t, v)[t] >= v
BY DEF Saved, StoreOK

LEMMA PlanStore ==
    ASSUME SubInv, NEW c \in Callers, PlanTask(c) \/ PlanStep(c) \/ PointTask(c)
    PROVE  StoreOK' /\ Lasts
<1> DEFINE t == Head(caller[c].rest)
<1>1. t \in Tasks
  BY Writer DEF PlanTask, PlanStep, PointTask, At, CallerOK, Planning
<1>2. UNCHANGED <<recorded, job, run, submitted, appended, ended, settled>>
  BY DEF PlanTask, PlanStep, PointTask
<1>3. \/ task' = Saved(t, 0) /\ UNCHANGED stepped
      \/ task' = Saved(t, 1) /\ UNCHANGED stepped
      \/ UNCHANGED task /\ stepped' = stepped \cup {t}
  BY DEF PlanTask, PlanStep, PointTask
<1> HIDE DEF t
<1>4. /\ task' \in [Tasks -> -1 .. 2] /\ \A u \in Tasks : task[u] <= task'[u]
      /\ stepped' \subseteq Tasks /\ stepped \subseteq stepped'
  <2>1. /\ task \in [Tasks -> -1 .. 2] /\ \A u \in Tasks : task[u] <= task[u]
        /\ stepped \subseteq Tasks
    BY DEF SubInv, StoreOK
  <2>2. \A v \in 0 .. 1 : /\ Saved(t, v) \in [Tasks -> -1 .. 2]
                         /\ \A u \in Tasks : task[u] <= Saved(t, v)[u]
    BY <1>1, SavedType DEF SubInv
  <2> QED
    BY <1>1, <1>3, <2>1, <2>2
<1> QED
  BY <1>2, <1>4 DEF SubInv, StoreOK, Lasts, JobOK, RunOK, Planned, After, Exists

LEMMA WriteStore ==
    ASSUME SubInv, NEW c \in Callers, Submit(c)
    PROVE  StoreOK' /\ Lasts
<1>1. CASE RecordKey(c) \/ AppendEvent(c)
  <2>1. KeyOf[c] \in Keys
    BY SubmissionAssumption
  <2>2. AppendEvent(c) => caller[c].id \in Runs
    BY Writer DEF AppendEvent, At, Writing, Saving
  <2> QED
    BY <1>1, <2>1, <2>2 DEF RecordKey, AppendEvent, SubInv, StoreOK, Lasts, JobOK, RunOK, Planned,
                            After, Exists
<1>2. CASE Lookup(c) \/ Check(c) \/ GetJob(c) \/ GetPrior(c) \/ GetRun(c) \/ GetStored(c)
  BY <1>2, SameStore DEF Lookup, Check, GetJob, GetPrior, GetRun, GetStored, SubInv
<1> QED
  BY <1>1, <1>2, SaveJobStore, CreateRunStore, SaveRunStore, PlanStore DEF Submit, Write

\* A worker that executes a task, moves a run or saves the job.
LEMMA WorkerStore ==
    ASSUME SubInv, \/ \E t \in Tasks : Work(t)
                   \/ \E n \in Runs : MoveRun(n) \/ EndJob(n)
    PROVE  StoreOK' /\ Lasts /\ UNCHANGED caller
<1>1. ASSUME NEW t \in Tasks, Work(t) PROVE StoreOK' /\ Lasts /\ UNCHANGED caller
  <2>1. task' \in [Tasks -> -1 .. 2] /\ \A u \in Tasks : task[u] <= task'[u]
    BY <1>1 DEF Work, SubInv, StoreOK
  <2> QED
    BY <1>1, <2>1 DEF Work, SubInv, StoreOK, Lasts, JobOK, RunOK, Planned, After, Exists
<1>2. ASSUME NEW n \in Runs, MoveRun(n) PROVE StoreOK' /\ Lasts /\ UNCHANGED caller
  <2>1. PICK to \in {"verifying", "completed", "failed", "cancel_requested", "cancelled"} :
           /\ CanTransition(run[n].status, to)
           /\ to = "failed" => run[n].planned
           /\ to \in {"verifying", "completed"} => run[n].planned
           /\ run' = [run EXCEPT ![n] = Moved(run[n], to)]
           /\ ended' = IF to \in Terminal THEN ended \cup {n} ELSE ended
    BY <1>2 DEF MoveRun
  <2>2. /\ StoreOK /\ run[n] \in Run /\ RunOK(n) /\ run[n].version >= 0
    BY <1>2 DEF SubInv, StoreOK, MoveRun, Active, Exists
  <2>3. run[n].version \in Int /\ run[n].version >= 1
    BY <2>2, EmptyTypes DEF RunOK, Run
  <2> DEFINE r == Moved(run[n], to)
  <2>4. /\ r \in Run /\ r.planned = run[n].planned /\ r.version = run[n].version + 1
        /\ r.status = to
    <3>1. to \in RunStatus /\ run[n].version + 1 \in Nat
      BY <2>2, <2>3 DEF RunStatus
    <3>2. r \in Run
      BY <2>2, <3>1 DEF Moved, Run
    <3>3. r.planned = run[n].planned /\ r.version = run[n].version + 1 /\ r.status = to
      BY <2>2 DEF Moved, Run
    <3> QED
      BY <3>2, <3>3
  <2>5. to = "cancel_requested" => run[n] # NewRun
    BY <2>1 DEF CanTransition, ValidTransitions, NewRun
  <2>6. r.planned \/ n \in ended'
    <3>1. to = "cancel_requested" => Planned(n)
      BY <2>2, <2>3, <2>5, EmptyTypes DEF RunOK
    <3> QED
      BY <2>1, <2>4, <3>1 DEF Planned, Terminal
  <2>7. ended \subseteq ended' /\ ended' \subseteq Runs
    BY <2>1, <2>2 DEF StoreOK
  <2>8. /\ r.version >= 1 /\ ~(r.version <= 1)
        /\ r.status \in Terminal => n \in ended'
        /\ After(n)
    BY <2>1, <2>2, <2>3, <2>4 DEF RunOK, Exists
  <2> HIDE DEF r
  <2>9. run' = [run EXCEPT ![n] = r]
    BY <2>1 DEF r
  <2>10. /\ run' \in [Runs -> Run] /\ \A k \in Runs : RunOK(k)'
         /\ \A k \in Runs : Planned(k) => Planned(k)'
         /\ \A k \in Runs : run[k].version >= 1 => run'[k].version >= 1
    BY <2>2, <2>4, <2>6, <2>7, <2>8, <2>9, OneRun
  <2>11. UNCHANGED <<recorded, job, task, stepped, submitted, appended, caller, settled>>
    BY <1>2 DEF MoveRun
  <2>12. JobOK(job)'
    BY <2>2, <2>7, <2>11 DEF StoreOK, JobOK, After
  <2> QED
    BY <2>2, <2>7, <2>10, <2>11, <2>12 DEF StoreOK, Lasts
<1>3. ASSUME NEW n \in Runs, EndJob(n) PROVE StoreOK' /\ Lasts /\ UNCHANGED caller
  <2>1. run[n].status \in RunStatus /\ job \in Job
    BY DEF SubInv, StoreOK, Run
  <2>2. /\ job' \in Job /\ job'.current = job.current /\ job'.count = job.count
    <3>1. job' = [job EXCEPT !.status = run[n].status, !.version = @ + 1] /\ Exists(job)
      BY <1>3 DEF EndJob
    <3>2. job.version + 1 \in Nat
      BY <2>1, <3>1 DEF Exists, Job
    <3>3. job' \in Job
      BY <2>1, <3>1, <3>2 DEF Job
    <3>4. job'.current = job.current /\ job'.count = job.count
      BY <2>1, <3>1 DEF Job
    <3> QED
      BY <3>3, <3>4
  <2>3. /\ UNCHANGED <<recorded, run, task, stepped, submitted, appended, caller, ended>>
        /\ settled' = settled \cup {n}
    BY <1>3 DEF EndJob
  <2> QED
    BY <2>2, <2>3 DEF SubInv, StoreOK, Lasts, JobOK, RunOK, Planned, After, Exists
<1> QED
  BY <1>1, <1>2, <1>3

-----------------------------------------------------------------------------
(* What a caller relies on                                                 *)

\* A caller that only goes somewhere else keeps the rest.
LEMMA GoneIs ==
    ASSUME NEW o \in Caller, NEW r, NEW l,
           l \in {"new", "lookup", "check", "getJob", "getPrior", "saveJob", "getRun", "newRun",
                  "saveTask", "saveStep", "pointTask", "getStored", "saveRun", "event", "done",
                  "dead"},
           r = [o EXCEPT !.pc = l]
    PROVE  /\ r \in Caller /\ r.pc = l /\ r.job = o.job /\ r.id = o.id /\ r.resume = o.resume
           /\ r.run = o.run /\ r.stored = o.stored /\ r.rest = o.rest
BY DEF Caller

\* The search: nothing to rely on yet, except that a run that is returned is complete.
LEMMA LookStep ==
    ASSUME SubInv, StoreOK', Lasts, NEW c \in Callers, RecordKey(c) \/ Lookup(c) \/ Check(c)
    PROVE  \E r \in Caller : caller' = [caller EXCEPT ![c] = r] /\ CallerOK(r)'
<1>1. PICK o \in Caller : o = caller[c]
  BY Writer
<1>2. CallerOK(o)
  BY <1>1, Writer
<1>3. CallerOK(o)'
  BY <1>2, CallerLasts DEF SubInv
<1>4. JobOK(o.job)'
  BY <1>3 DEF CallerOK
<1>5. ASSUME NEW l \in {"lookup", "getJob"}, Goto(c, l)
      PROVE  \E r \in Caller : caller' = [caller EXCEPT ![c] = r] /\ CallerOK(r)'
  <2>1. PICK r : r = [o EXCEPT !.pc = l]
    OBVIOUS
  <2>2. r \in Caller /\ r.pc = l /\ r.job = o.job
    BY <2>1, GoneIs
  <2>3. CallerOK(r)'
    BY <1>4, <2>2 DEF CallerOK, Writing, Planning, Saving
  <2> QED
    BY <1>1, <1>5, <2>1, <2>2, <2>3 DEF Goto, Become
<1>6. CASE Lookup(c)
  <2>1. PICK r : r = [o EXCEPT !.pc = "check", !.id = job.current]
    OBVIOUS
  <2>2. r \in Caller /\ r.pc = "check" /\ r.job = o.job
    BY <2>1 DEF Caller, SubInv, StoreOK, Job
  <2>3. CallerOK(r)'
    BY <1>4, <2>2 DEF CallerOK, Writing, Planning, Saving
  <2> QED
    BY <1>1, <1>6, <2>1, <2>2, <2>3 DEF Lookup, Become
<1>7. CASE Check(c) /\ Goto(c, "done") /\ o.id # 0 /\ Durable(o.id)
  <2>1. PICK r : r = [o EXCEPT !.pc = "done"]
    OBVIOUS
  <2>2. r \in Caller /\ r.pc = "done" /\ r.job = o.job /\ r.id = o.id
    BY <2>1, GoneIs
  <2>3. o.id \in Runs
    BY <1>7, EmptyTypes DEF Caller, Runs
  <2>4. UNCHANGED <<run, task, stepped, ended>>
    BY <1>7 DEF Check, store
  <2>5. Complete(o.id)'
    BY <1>7, <2>4 DEF Complete, Durable, Materialized
  <2>6. CallerOK(r)'
    BY <1>4, <2>2, <2>3, <2>5 DEF CallerOK, Writing, Planning, Saving
  <2> QED
    BY <1>1, <1>7, <2>1, <2>2, <2>6 DEF Goto, Become
<1> QED
  BY <1>1, <1>5, <1>6, <1>7 DEF RecordKey, Check

\* A caller that chooses run n of job j.
LEMMA ChooseStep ==
    ASSUME SubInv, StoreOK', Lasts, NEW c \in Callers, NEW j \in Job, NEW n \in Runs,
           NEW b \in BOOLEAN, Choose(c, j, n, b), JobOK(j), n \in {j.count, j.count + 1}, After(n)
    PROVE  \E r \in Caller : caller' = [caller EXCEPT ![c] = r] /\ CallerOK(r)'
<1>1. PICK o \in Caller : o = caller[c]
  BY Writer
<1>2. PICK r : r = [o EXCEPT !.pc = "saveJob", !.job = j, !.id = n, !.resume = b]
  OBVIOUS
<1>3. r \in Caller /\ r.pc = "saveJob" /\ r.job = j /\ r.id = n
  BY <1>2, EmptyTypes DEF Caller
<1>4. JobOK(j)' /\ After(n)'
  BY DEF JobOK, After, Lasts
<1>5. CallerOK(r)'
  BY <1>3, <1>4 DEF CallerOK, Writing, Planning, Saving
<1> QED
  BY <1>1, <1>2, <1>3, <1>5 DEF Choose, Become

LEMMA JobStep ==
    ASSUME SubInv, StoreOK', Lasts, NEW c \in Callers, GetJob(c) \/ GetPrior(c) \/ SaveJob(c)
    PROVE  \E r \in Caller : caller' = [caller EXCEPT ![c] = r] /\ CallerOK(r)'
<1>1. PICK o \in Caller : o = caller[c]
  BY Writer
<1>2. CallerOK(o)
  BY <1>1, Writer
<1>3. CallerOK(o)'
  BY <1>2, CallerLasts DEF SubInv
<1>4. CASE GetJob(c)
  <2>1. job \in Job /\ JobOK(job) /\ UNCHANGED <<job, ended>>
    BY <1>4 DEF SubInv, StoreOK, GetJob, store
  <2>2. CASE job.current = 0
    <3>1. Choose(c, job, 1, FALSE)
      BY <1>4, <2>2 DEF GetJob
    <3>2. 1 \in {job.count, job.count + 1} /\ After(1)
      BY <2>1, <2>2 DEF JobOK, After
    <3> QED
      BY <2>1, <3>1, <3>2, ChooseStep, EmptyTypes
  <2>3. CASE job.current # 0
    <3>1. PICK j \in Job : j = job
      BY <2>1
    <3>2. PICK r : r = [o EXCEPT !.pc = "getPrior", !.job = j]
      OBVIOUS
    <3>3. r \in Caller /\ r.pc = "getPrior" /\ r.job = j
      BY <3>2 DEF Caller
    <3>4. j.current \in Runs
      BY <2>3, <3>1, EmptyTypes DEF Job, Runs
    <3>5. JobOK(j)'
      BY <2>1, <3>1 DEF JobOK, After
    <3>6. CallerOK(r)'
      BY <3>3, <3>4, <3>5 DEF CallerOK, Writing, Planning, Saving
    <3> QED
      BY <1>1, <1>4, <2>3, <3>1, <3>2, <3>3, <3>6 DEF GetJob, Become
  <2> QED
    BY <2>2, <2>3
<1>5. CASE GetPrior(c)
  <2>1. PICK j \in Job : j = o.job
    BY DEF Caller
  <2>2. JobOK(j) /\ j.current \in Runs
    BY <1>1, <1>2, <1>5, <2>1 DEF CallerOK, GetPrior, At
  <2>3. CASE Choose(c, j, j.current, TRUE)
    BY <2>2, <2>3, ChooseStep DEF JobOK
  <2>4. CASE /\ run[j.current].status \in Terminal /\ j.count < MaxRuns
             /\ Choose(c, j, j.count + 1, FALSE)
    <3>1. j.current \in ended /\ j.count = j.current
      BY <2>2, <2>4 DEF SubInv, StoreOK, RunOK, JobOK
    <3>2. j.count + 1 \in Runs /\ (j.count + 1) - 1 = j.count
      BY <2>2, <2>4, <3>1, EmptyTypes DEF Runs
    <3> QED
      BY <2>2, <2>4, <3>1, <3>2, ChooseStep DEF After
  <2> QED
    BY <1>1, <1>5, <2>1, <2>3, <2>4 DEF GetPrior
<1>6. CASE SaveJob(c)
  <2>1. PICK r : r = [o EXCEPT !.pc = IF o.resume THEN "getRun" ELSE "newRun", !.job = NoJob]
    OBVIOUS
  <2>2. r \in Caller /\ r.pc \in {"getRun", "newRun"} /\ r.job = NoJob /\ r.id = o.id
    BY <2>1, EmptyTypes DEF Caller
  <2>3. o.pc = "saveJob"
    BY <1>1, <1>6 DEF SaveJob, At
  <2>4. JobOK(NoJob)'
    BY DEF JobOK, NoJob, After
  <2>5. CallerOK(r)'
    BY <1>3, <2>2, <2>3, <2>4 DEF CallerOK, Writing, Planning, Saving
  <2> QED
    BY <1>1, <1>6, <2>1, <2>2, <2>5 DEF SaveJob, Become
<1> QED
  BY <1>4, <1>5, <1>6

\* A caller that has a run record to continue with plans the tasks.
LEMMA PlanStart ==
    ASSUME SubInv, StoreOK', Lasts, NEW c \in Callers, NEW u \in Run, Plan(c, u),
           caller[c].id \in Runs, After(caller[c].id),
           run'[caller[c].id].version >= 1, u.version >= 1,
           u.status \in Terminal => caller[c].id \in ended
    PROVE  \E r \in Caller : caller' = [caller EXCEPT ![c] = r] /\ CallerOK(r)'
<1>1. PICK o \in Caller : o = caller[c]
  BY Writer
<1>2. CallerOK(o)
  BY <1>1, Writer
<1>3. CallerOK(o)'
  BY <1>2, CallerLasts DEF SubInv
<1>4. PICK r : r = [o EXCEPT !.pc = "saveTask", !.run = u, !.rest = TaskOrder]
  OBVIOUS
<1>5. TaskOrder \in Seq(Tasks) /\ TaskOrder # <<>>
  BY SubmissionAssumption
<1>6. /\ r \in Caller /\ r.pc = "saveTask" /\ r.run = u /\ r.rest = TaskOrder
      /\ r.job = o.job /\ r.id = o.id
  BY <1>4, <1>5 DEF Caller
<1>7. \A t \in Tasks : \E i \in 1 .. Len(r.rest) : r.rest[i] = t
  BY <1>6, SubmissionAssumption
<1>8. JobOK(r.job)' /\ After(r.id)'
  BY <1>1, <1>3, <1>6 DEF CallerOK, After, Lasts
<1>9. r.id \in Runs /\ run'[r.id].version >= 1 /\ (r.run.status \in Terminal => r.id \in ended')
  BY <1>1, <1>6 DEF Lasts
<1>10. CallerOK(r)'
  BY <1>5, <1>6, <1>7, <1>8, <1>9 DEF CallerOK, Writing, Planning, Saving
<1> QED
  BY <1>1, <1>4, <1>6, <1>10 DEF Plan, Become

LEMMA RunStep ==
    ASSUME SubInv, StoreOK', Lasts, NEW c \in Callers, GetRun(c) \/ CreateRun(c)
    PROVE  \E r \in Caller : caller' = [caller EXCEPT ![c] = r] /\ CallerOK(r)'
<1>1. PICK o \in Caller : o = caller[c]
  BY Writer
<1>2. CallerOK(o)
  BY <1>1, Writer
<1>3. CallerOK(o)'
  BY <1>2, CallerLasts DEF SubInv
<1>4. /\ o.pc \in {"getRun", "newRun"} /\ o.id \in Runs /\ After(o.id)
      /\ run[o.id] \in Run /\ RunOK(o.id)
  BY <1>1, <1>2 DEF GetRun, CreateRun, At, CallerOK, Writing, SubInv, StoreOK
<1>5. run[o.id].version >= 0 => run[o.id].version >= 1
  BY <1>4, EmptyTypes DEF RunOK, Run
<1>6. CASE Plan(c, run[o.id]) /\ run[o.id].version >= 1 /\ UNCHANGED run
  <2>1. PICK u \in Run : u = run[o.id]
    BY <1>4
  <2>2. u.status \in Terminal => o.id \in ended
    BY <1>4, <2>1 DEF RunOK
  <2> QED
    BY <1>1, <1>4, <1>6, <2>1, <2>2, PlanStart
<1>7. CASE Plan(c, NewRun) /\ run' = [run EXCEPT ![o.id] = NewRun]
  <2>1. run'[o.id].version >= 1
    BY <1>4, <1>7, EmptyTypes DEF SubInv, StoreOK
  <2>2. NewRun \in Run /\ NewRun.version >= 1 /\ NewRun.status \notin Terminal
    BY EmptyTypes
  <2> QED
    BY <1>1, <1>4, <1>7, <2>1, <2>2, PlanStart
<1>8. CASE Goto(c, "newRun") /\ o.pc = "getRun"
  <2>1. PICK r : r = [o EXCEPT !.pc = "newRun"]
    OBVIOUS
  <2>2. r \in Caller /\ r.pc = "newRun" /\ r.job = o.job /\ r.id = o.id
    BY <2>1, GoneIs
  <2>3. CallerOK(r)'
    BY <1>3, <1>8, <2>2 DEF CallerOK, Writing, Planning, Saving
  <2> QED
    BY <1>1, <1>8, <2>1, <2>2, <2>3 DEF Goto, Become
<1>9. GetRun(c) => \/ Plan(c, run[o.id]) /\ run[o.id].version >= 1 /\ UNCHANGED run
                   \/ Goto(c, "newRun") /\ o.pc = "getRun"
  BY <1>1, <1>5 DEF GetRun, At, Exists, store
<1>10. CreateRun(c) => \/ Plan(c, run[o.id]) /\ run[o.id].version >= 1 /\ UNCHANGED run
                       \/ Plan(c, NewRun) /\ run' = [run EXCEPT ![o.id] = NewRun]
  <2>1. ~SaveRunAccepts(run[o.id], NewRun) => run[o.id].version >= 1
    BY <1>4, EmptyTypes DEF SaveRunAccepts, Run
  <2> QED
    BY <1>1, <2>1 DEF CreateRun
<1> QED
  BY <1>6, <1>7, <1>8, <1>9, <1>10

\* planDag: what is planned is not in the rest, and has its step.
LEMMA TasksStep ==
    ASSUME SubInv, StoreOK', Lasts, NEW c \in Callers, PlanTask(c) \/ PlanStep(c) \/ PointTask(c)
    PROVE  \E r \in Caller : caller' = [caller EXCEPT ![c] = r] /\ CallerOK(r)'
<1>1. PICK o \in Caller : o = caller[c]
  BY Writer
<1>2. CallerOK(o)
  BY <1>1, Writer
<1>3. CallerOK(o)'
  BY <1>2, CallerLasts DEF SubInv
<1>4. PICK h : h = Head(o.rest)
  OBVIOUS
<1>5. o.pc \in Planning /\ o.rest # <<>> /\ o.rest \in Seq(Tasks) /\ h \in Tasks
  <2>1. o.pc \in Planning /\ o.rest # <<>>
    BY <1>1, <1>2 DEF PlanTask, PlanStep, PointTask, At, CallerOK, Planning
  <2>2. o.rest \in Seq(Tasks)
    BY DEF Caller
  <2> QED
    BY <1>4, <2>1, <2>2
<1>6. CASE PlanTask(c)
  <2>1. PICK r : r = [o EXCEPT !.pc = "saveStep"]
    OBVIOUS
  <2>2. /\ r \in Caller /\ r.pc = "saveStep" /\ r.job = o.job /\ r.id = o.id
        /\ r.run = o.run /\ r.rest = o.rest
    BY <2>1, GoneIs
  <2>3. CallerOK(r)'
    BY <1>3, <1>5, <2>2 DEF CallerOK, Writing, Planning, Saving
  <2> QED
    BY <1>1, <1>6, <2>1, <2>2, <2>3 DEF PlanTask, Goto, Become
<1>7. CASE PlanStep(c)
  <2>1. PICK r : r = [o EXCEPT !.pc = "pointTask"]
    OBVIOUS
  <2>2. /\ r \in Caller /\ r.pc = "pointTask" /\ r.job = o.job /\ r.id = o.id
        /\ r.run = o.run /\ r.rest = o.rest
    BY <2>1, GoneIs
  <2>3. Head(r.rest) \in stepped'
    BY <1>1, <1>7, <2>2 DEF PlanStep
  <2>4. CallerOK(r)'
    BY <1>3, <1>5, <2>2, <2>3 DEF CallerOK, Writing, Planning, Saving
  <2> QED
    BY <1>1, <1>7, <2>1, <2>2, <2>4 DEF PlanStep, Goto, Become
<1>8. CASE PointTask(c)
  <2>1. PICK s : s = Tail(o.rest)
    OBVIOUS
  <2>2. PICK r : r = [o EXCEPT !.pc = IF s = <<>> THEN "getStored" ELSE "saveTask", !.rest = s]
    OBVIOUS
  <2>3. s \in Seq(Tasks)
    BY <1>5, <2>1
  <2>4. /\ r \in Caller /\ r.pc = (IF s = <<>> THEN "getStored" ELSE "saveTask") /\ r.job = o.job
        /\ r.id = o.id /\ r.run = o.run /\ r.rest = s
    BY <2>2, <2>3 DEF Caller
  <2>5. HasStep(h)'
    <3>1. task' = Saved(h, 1) /\ o.pc = "pointTask"
      BY <1>1, <1>4, <1>8 DEF PointTask, At
    <3>2. task'[h] >= 1
      BY <1>5, <3>1, SavedType DEF SubInv
    <3>3. h \in stepped'
      BY <1>3, <1>4, <3>1 DEF CallerOK
    <3> QED
      BY <3>2, <3>3 DEF HasStep
  <2>6. \A t \in Tasks : HasStep(t)' \/ \E i \in 1 .. Len(s) : s[i] = t
    <3>1. ASSUME NEW t \in Tasks, NEW i \in 1 .. Len(o.rest), o.rest[i] = t, t # h
          PROVE  \E k \in 1 .. Len(s) : s[k] = t
      <4>1. i # 1
        BY <1>4, <1>5, <3>1
      <4>2. i - 1 \in 1 .. Len(s) /\ s[i - 1] = t
        BY <1>5, <2>1, <3>1, <4>1
      <4> QED
        BY <4>2
    <3>2. \A t \in Tasks : HasStep(t)' \/ \E i \in 1 .. Len(o.rest) : o.rest[i] = t
      BY <1>3, <1>5 DEF CallerOK
    <3> QED
      BY <2>5, <3>1, <3>2
  <2>7. s = <<>> => \A t \in Tasks : HasStep(t)'
    BY <2>6
  <2>8. CallerOK(r)'
    <3>1. CASE s = <<>>
      BY <1>3, <1>5, <2>4, <2>7, <3>1 DEF CallerOK, Writing, Planning, Saving
    <3>2. CASE s # <<>>
      BY <1>3, <1>5, <2>4, <2>6, <3>2 DEF CallerOK, Writing, Planning, Saving
    <3> QED
      BY <3>1, <3>2
  <2> QED
    BY <1>1, <1>8, <2>1, <2>2, <2>4, <2>8 DEF PointTask, Become
<1> QED
  BY <1>6, <1>7, <1>8

\* saveRun: what it finds instead of its own write is a run that has its tasks or has ended.
LEMMA SaveStep ==
    ASSUME SubInv, StoreOK', Lasts, NEW c \in Callers,
           GetStored(c) \/ SaveRun(c) \/ AppendEvent(c)
    PROVE  \E r \in Caller : caller' = [caller EXCEPT ![c] = r] /\ CallerOK(r)'
<1>1. PICK o \in Caller : o = caller[c]
  BY Writer
<1>2. CallerOK(o)
  BY <1>1, Writer
<1>3. CallerOK(o)'
  BY <1>2, CallerLasts DEF SubInv
<1>4. /\ o.pc \in Saving /\ o.id \in Runs /\ run[o.id] \in Run /\ RunOK(o.id)
      /\ run[o.id].version >= 1 /\ run[o.id] # NoRun
  <2>1. o.pc \in Saving
    BY <1>1 DEF GetStored, SaveRun, AppendEvent, At, Saving
  <2>2. o.id \in Runs /\ run[o.id].version >= 1
    BY <1>2, <2>1 DEF CallerOK, Writing
  <2>3. run[o.id] # NoRun
    BY <2>2, EmptyTypes
  <2>4. run[o.id] \in Run /\ RunOK(o.id)
    BY <2>2 DEF SubInv, StoreOK
  <2> QED
    BY <2>1, <2>2, <2>3, <2>4
<1>5. CASE GetStored(c) /\ SaveRunAccepts(run[o.id], Updated(o.run))
  <2>1. PICK u \in Run : u = run[o.id]
    BY <1>4
  <2>2. PICK r : r = [o EXCEPT !.pc = "saveRun", !.stored = u]
    OBVIOUS
  <2>3. /\ r \in Caller /\ r.pc = "saveRun" /\ r.job = o.job /\ r.id = o.id /\ r.run = o.run
        /\ r.stored = u
    BY <2>2 DEF Caller
  <2>4. r.stored = NewRun \/ Planned(r.id)'
    BY <1>4, <2>1, <2>3 DEF RunOK, Lasts
  <2>5. o.pc = "getStored"
    BY <1>1, <1>5 DEF GetStored, At
  <2>6. CallerOK(r)'
    BY <1>3, <2>3, <2>4, <2>5 DEF CallerOK, Writing, Planning, Saving
  <2> QED
    BY <1>1, <1>5, <2>1, <2>2, <2>3, <2>6 DEF GetStored, Become
<1>6. CASE GetStored(c) /\ ~SaveRunAccepts(run[o.id], Updated(o.run))
  <2>1. PICK r : r = [o EXCEPT !.pc = "event"]
    OBVIOUS
  <2>2. r \in Caller /\ r.pc = "event" /\ r.job = o.job /\ r.id = o.id
    BY <2>1, GoneIs
  <2>3. o.pc = "getStored"
    BY <1>1, <1>6 DEF GetStored, At
  <2>4. run[o.id].version > 1
    <3>1. o.run \in Run /\ o.run.version >= 1
      BY <1>2, <2>3 DEF CallerOK, Caller
    <3>2. Updated(o.run).version = o.run.version + 1
      BY <3>1, UpdatedType
    <3> QED
      BY <1>4, <1>6, <3>1, <3>2 DEF SaveRunAccepts, Run
  <2>5. Planned(r.id)'
    <3>1. run[o.id] \notin {NoRun, NewRun}
      BY <2>4, EmptyTypes
    <3>2. Planned(o.id)
      BY <1>4, <3>1 DEF RunOK
    <3> QED
      BY <1>4, <2>2, <3>2 DEF Lasts
  <2>6. CallerOK(r)'
    BY <1>3, <2>2, <2>3, <2>5 DEF CallerOK, Writing, Planning, Saving
  <2> QED
    BY <1>1, <1>6, <2>1, <2>2, <2>6 DEF GetStored, Goto, Become
<1>7. CASE SaveRun(c)
  <2>1. PICK r : r = [o EXCEPT !.pc = "event", !.run = NoRun, !.stored = NoRun]
    OBVIOUS
  <2>2. r \in Caller /\ r.pc = "event" /\ r.job = o.job /\ r.id = o.id
    BY <2>1, EmptyTypes DEF Caller
  <2>3. o.pc = "saveRun"
    BY <1>1, <1>7 DEF SaveRun, At
  <2>4. Planned(o.id)'
    <3>1. CASE run[o.id] = o.stored
      <4>1. run'[o.id] = Updated(o.run)
        BY <1>1, <1>4, <1>7, <3>1 DEF SaveRun, SubInv, StoreOK
      <4> QED
        BY <4>1 DEF Updated, Planned
    <3>2. CASE run[o.id] # o.stored
      <4>1. o.stored = NewRun \/ Planned(o.id)
        BY <1>2, <2>3 DEF CallerOK
      <4>2. Planned(o.id)
        BY <1>4, <3>2, <4>1 DEF RunOK
      <4> QED
        BY <1>4, <4>2 DEF Lasts
    <3> QED
      BY <3>1, <3>2
  <2>5. CallerOK(r)'
    BY <1>3, <2>2, <2>3, <2>4 DEF CallerOK, Writing, Planning, Saving
  <2> QED
    BY <1>1, <1>7, <2>1, <2>2, <2>5 DEF SaveRun, Become
<1>8. CASE AppendEvent(c)
  <2>1. PICK r : r = [NewCaller EXCEPT !.pc = "done", !.id = o.id]
    OBVIOUS
  <2>2. r \in Caller /\ r.pc = "done" /\ r.job = NoJob /\ r.id = o.id
    <3>1. NewCaller \in Caller /\ NewCaller.job = NoJob
      BY EmptyTypes DEF NewCaller
    <3> QED
      BY <2>1, <3>1 DEF Caller
  <2>3. o.pc = "event"
    BY <1>1, <1>8 DEF AppendEvent, At
  <2>4. Complete(o.id)'
    BY <1>3, <2>3 DEF CallerOK, Saving, Complete, HasStep, Planned
  <2>5. JobOK(NoJob)'
    BY DEF JobOK, NoJob, After
  <2>6. CallerOK(r)'
    BY <1>4, <2>2, <2>4, <2>5 DEF CallerOK, Writing, Planning, Saving
  <2> QED
    BY <1>1, <1>8, <2>1, <2>2, <2>6 DEF AppendEvent, Become
<1> QED
  BY <1>1, <1>5, <1>6, <1>7, <1>8

LEMMA CrashStep ==
    ASSUME SubInv, StoreOK', Lasts, NEW c \in Callers, Crash(c)
    PROVE  \E r \in Caller : caller' = [caller EXCEPT ![c] = r] /\ CallerOK(r)'
<1>1. PICK r : r = [NewCaller EXCEPT !.pc = "dead"]
  OBVIOUS
<1>2. r \in Caller /\ r.pc = "dead" /\ r.job = NoJob
  <2>1. NewCaller \in Caller /\ NewCaller.job = NoJob
    BY EmptyTypes DEF NewCaller
  <2> QED
    BY <1>1, <2>1, GoneIs
<1>3. JobOK(NoJob)'
  BY DEF JobOK, NoJob, After
<1>4. CallerOK(r)'
  BY <1>2, <1>3 DEF CallerOK, Writing, Planning, Saving
<1> QED
  BY <1>1, <1>2, <1>4 DEF Crash, Become

-----------------------------------------------------------------------------
(* The theorems                                                            *)

LEMMA SubInit == Init => SubInv
<1> SUFFICES ASSUME Init PROVE SubInv
  OBVIOUS
<1>1. JobOK(NoJob) /\ NewCaller.job = NoJob /\ NewCaller.pc = "new"
  BY DEF JobOK, NoJob, After, NewCaller
<1>2. CallerOK(NewCaller)
  BY <1>1 DEF CallerOK, Writing, Planning, Saving
<1>3. \A n \in Runs : RunOK(n)
  BY EmptyTypes DEF Init, RunOK, Exists
<1>4. StoreOK
  BY <1>1, <1>3, EmptyTypes DEF Init, StoreOK
<1> QED
  BY <1>2, <1>4, EmptyTypes DEF Init, SubInv

LEMMA SubNext == SubInv /\ [Next]_vars => SubInv' /\ Lasts
<1> SUFFICES ASSUME SubInv, [Next]_vars PROVE SubInv' /\ Lasts
  OBVIOUS
<1>1. ASSUME StoreOK', Lasts, NEW c \in Callers,
             \E r \in Caller : caller' = [caller EXCEPT ![c] = r] /\ CallerOK(r)'
      PROVE  SubInv'
  <2>1. PICK r \in Caller : caller' = [caller EXCEPT ![c] = r] /\ CallerOK(r)'
    BY <1>1
  <2>2. caller' \in [Callers -> Caller]
    BY <2>1, UpdateType DEF SubInv
  <2>3. ASSUME NEW d \in Callers PROVE CallerOK(caller[d])'
    <3>1. CASE d = c
      <4>1. caller'[d] = r
        BY <2>1, <3>1 DEF SubInv
      <4> QED
        BY <2>1, <4>1 DEF CallerOK, Complete, JobOK, After, HasStep, Planned
    <3>2. CASE d # c
      <4>1. PICK o \in Caller : o = caller[d]
        BY Writer
      <4>2. caller'[d] = o
        BY <2>1, <3>2, <4>1 DEF SubInv
      <4>3. CallerOK(o)
        BY <4>1, Writer
      <4>4. CallerOK(o)'
        BY <1>1, <4>3, CallerLasts DEF SubInv
      <4> QED
        BY <4>2, <4>4 DEF CallerOK, Complete, JobOK, After, HasStep, Planned
    <3> QED
      BY <3>1, <3>2
  <2> QED
    BY <1>1, <2>2, <2>3 DEF SubInv
<1>2. ASSUME StoreOK', Lasts, UNCHANGED caller PROVE SubInv'
  <2>1. ASSUME NEW d \in Callers PROVE CallerOK(caller[d])'
    <3>1. PICK o \in Caller : o = caller[d]
      BY Writer
    <3>2. CallerOK(o)
      BY <3>1, Writer
    <3>3. CallerOK(o)'
      BY <1>2, <3>2, CallerLasts DEF SubInv
    <3>4. caller'[d] = o
      BY <1>2, <3>1
    <3> QED
      BY <3>3, <3>4 DEF CallerOK, Complete, JobOK, After, HasStep, Planned
  <2> QED
    BY <1>2, <2>1 DEF SubInv
<1>3. ASSUME NEW c \in Callers, Submit(c) PROVE SubInv' /\ Lasts
  <2>1. StoreOK' /\ Lasts
    BY <1>3, WriteStore
  <2>2. \E r \in Caller : caller' = [caller EXCEPT ![c] = r] /\ CallerOK(r)'
    BY <1>3, <2>1, LookStep, JobStep, RunStep, TasksStep, SaveStep DEF Submit, Write
  <2> QED
    BY <1>1, <2>1, <2>2
<1>4. ASSUME NEW c \in Mortal, Crash(c) PROVE SubInv' /\ Lasts
  <2>1. c \in Callers
    BY SubmissionAssumption
  <2>2. StoreOK' /\ Lasts
    BY <1>4, SameStore DEF Crash, SubInv
  <2> QED
    BY <1>1, <1>4, <2>1, <2>2, CrashStep
<1>5. CASE \/ \E t \in Tasks : Work(t)
           \/ \E n \in Runs : MoveRun(n) \/ EndJob(n)
  BY <1>2, <1>5, WorkerStore
<1>6. CASE UNCHANGED vars
  <2>1. StoreOK' /\ Lasts
    BY <1>6, SameStore DEF vars, store, SubInv
  <2> QED
    BY <1>2, <1>6, <2>1 DEF vars
<1> QED
  BY <1>3, <1>4, <1>5, <1>6 DEF Next

\* The invariant of the callers and of what they write.
LEMMA SubCorrect == Spec => []SubInv
BY SubInit, SubNext, PTL DEF Spec

\* The stored records and the state of the callers keep their types.
THEOREM SubmissionTypeCorrect == Spec => []TypeOK
<1>1. SubInv => TypeOK
  BY DEF SubInv, StoreOK, TypeOK
<1> QED
  BY <1>1, SubCorrect, PTL

\* Whatever a call of submit returns is a complete submission, whoever wrote it and wherever
\* others have died: its tasks are there with their steps, and its run has its taskIds unless
\* it was ended before.
THEOREM ReturnedCorrect == Spec => []ReturnedIsComplete
<1>1. SubInv => ReturnedIsComplete
  BY DEF SubInv, CallerOK, ReturnedIsComplete, At
<1> QED
  BY <1>1, SubCorrect, PTL

\* No second run is minted for a job before the first has come to an end.
THEOREM MintedCorrect == Spec => []NextRunAfterEnd
<1>1. SubInv => NextRunAfterEnd
  BY DEF SubInv, StoreOK, RunOK, After, NextRunAfterEnd
<1> QED
  BY <1>1, SubCorrect, PTL

\* Planning again what has been planned undoes nothing that a worker has done.
THEOREM ReplayCorrect == Spec => ReplayIsSafe
<1>1. SubInv /\ [Next]_vars => [\A t \in Tasks : task'[t] >= task[t]]_vars
  <2>1. SubInv /\ SubInv' => \A t \in Tasks : task[t] \in Int /\ task'[t] \in Int
    BY DEF SubInv, StoreOK
  <2> QED
    BY <2>1, SubNext DEF Lasts
<1> QED
  BY <1>1, SubCorrect, PTL DEF Spec, ReplayIsSafe
====
