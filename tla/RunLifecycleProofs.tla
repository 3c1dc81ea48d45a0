-------------------------- MODULE RunLifecycleProofs --------------------------
(***************************************************************************)
(* How a run ends, for any number of workers, tasks and deaths: an ended   *)
(* run stays as it is, a completed one has a committed result for each     *)
(* task, the job is not ended before the run, a cancelled run is not       *)
(* worked on, and executions that are counted keep to the budget.          *)
(*                                                                         *)
(* The invariant says what a worker on its way to end the run may rely on, *)
(* although it has read the run and the tasks some time ago.               *)
(***************************************************************************)
EXTENDS RunLifecycle, FiniteSetTheorems, TLAPS

Ending(w) == worker[w].pc \in {"read", "move"}

Begun == run.status # "running"          \* somebody has begun to end the run

AllDone == Tasks \subseteq done

HasTask(w) ==
    worker[w].pc \in {"guard", "execute", "saveTask", "usage"} => worker[w].task \in Tasks

\* It moves the run to the last status or to the one before.
HasAim(w) == Ending(w) => worker[w].to \in {Via(worker[w].final), worker[w].final}

\* What it has committed or seen committed
HasDone(w) ==
    /\ worker[w].pc = "saveTask" => worker[w].outcome = "ok" /\ worker[w].task \in done
    /\ worker[w].pc = "finalize"
         => \A t \in Tasks : \/ \E i \in 1 .. Len(worker[w].rest) : worker[w].rest[i] = t
                             \/ t \in done
    /\ Ending(w) /\ worker[w].final = "completed" => AllDone

\* What it knows of the run: the record it has read, or that the run has moved since
HasBegun(w) ==
    /\ worker[w].pc = "move" => worker[w].run = run \/ Begun
    /\ Ending(w) /\ worker[w].to \in {"completed", "cancelled"} => Begun
    /\ worker[w].pc \in {"getJob", "saveJob"} => Begun

\* How much it has executed since the run was cancelled
Tardy(w) ==
    /\ tardy[w] <= 1
    /\ ~marker \/ worker[w].pc \in {"release", "guard"} => tardy[w] = 0

WorkerInv(w) == HasTask(w) /\ HasAim(w) /\ HasDone(w) /\ HasBegun(w) /\ Tardy(w)

StepsInv == \A t \in Tasks : task[t] = "completed" => t \in done

RunInv == /\ run.status # "queued"
          /\ run.status = "completed" => AllDone
          /\ job.status \in Terminal => Begun

LifeInv == /\ TypeOK /\ StepsInv /\ RunInv
           /\ \A w \in Workers : WorkerInv(w)

-----------------------------------------------------------------------------
(* Workers and their records                                               *)

\* What Become says of the worker that moves and of the others.
LEMMA BecomeIs ==
    ASSUME TypeOK, NEW w \in Workers, NEW r, Become(w, r)
    PROVE  /\ worker'[w] = r /\ \A v \in Workers \ {w} : worker'[v] = worker[v]
           /\ r \in Worker => worker' \in [Workers -> Worker]
BY DEF Become, TypeOK

\* The fields of a worker.
LEMMA WorkerType ==
    ASSUME TypeOK, NEW w \in Workers
    PROVE  /\ worker[w] \in Worker
           /\ worker[w].pc \in Locations
           /\ worker[w].run \in Record /\ worker[w].job \in Record
           /\ worker[w].task \in Tasks \cup {NoTask}
           /\ worker[w].outcome \in {"none", "ok", "retry", "final"}
           /\ worker[w].rest \in Seq(Tasks)
           /\ worker[w].to \in RunStatus
           /\ worker[w].final \in Terminal
BY DEF TypeOK, Worker

LEMMA IdleType == Idle \in Worker
BY DEF Idle, Worker, Locations, NoRecord, Record, RunStatus, Terminal

\* A worker that moves on keeps what it remembers,
LEMMA GotoIs ==
    ASSUME TypeOK, NEW w \in Workers, NEW l \in Locations, Goto(w, l)
    PROVE  /\ worker'[w] = [worker[w] EXCEPT !.pc = l]
           /\ worker'[w].pc = l /\ worker'[w].task = worker[w].task
           /\ worker'[w].outcome = worker[w].outcome
           /\ \A v \in Workers \ {w} : worker'[v] = worker[v]
           /\ worker' \in [Workers -> Worker]
<1>1. [worker[w] EXCEPT !.pc = l] \in Worker
  BY WorkerType DEF Worker
<1> QED
  BY <1>1, BecomeIs, WorkerType DEF Goto, Worker

\* one that is done is idle,
LEMMA LeaveIs ==
    ASSUME TypeOK, NEW w \in Workers, Leave(w)
    PROVE  /\ worker'[w] = Idle /\ worker'[w].pc = "idle"
           /\ \A v \in Workers \ {w} : worker'[v] = worker[v]
           /\ worker' \in [Workers -> Worker]
BY BecomeIs, IdleType DEF Leave, Idle

LEMMA ViaIs ==
    ASSUME NEW how \in Terminal
    PROVE  /\ Via(how) \in RunStatus
           /\ how = "completed" => Via(how) = "verifying"
           /\ how = "cancelled" => Via(how) = "cancel_requested"
           /\ how = "failed" => Via(how) = "failed"
BY DEF Terminal, Via, RunStatus

\* one that sets out to end the run has everything to do,
LEMMA EndIs ==
    ASSUME TypeOK, NEW w \in Workers, NEW how \in Terminal, End(w, how)
    PROVE  /\ worker'[w].pc = "read"
           /\ worker'[w].to = Via(how) /\ worker'[w].final = how
           /\ \A v \in Workers \ {w} : worker'[v] = worker[v]
           /\ worker' \in [Workers -> Worker]
<1> DEFINE r == [Idle EXCEPT !.pc = "read", !.to = Via(how), !.final = how]
<1>1. r \in Worker /\ r.pc = "read" /\ r.to = Via(how) /\ r.final = how
  BY IdleType, ViaIs DEF Idle, Worker, Locations
<1> QED
  BY <1>1, BecomeIs DEF End

\* and one that looks at the tasks has all of them to read.
LEMMA LookIs ==
    ASSUME TypeOK, NEW w \in Workers, LookAtTasks(w)
    PROVE  /\ worker'[w].pc = "finalize" /\ worker'[w].rest = TaskOrder
           /\ \A v \in Workers \ {w} : worker'[v] = worker[v]
           /\ worker' \in [Workers -> Worker]
<1> DEFINE r == [Idle EXCEPT !.pc = "finalize", !.rest = TaskOrder]
<1>1. r \in Worker /\ r.pc = "finalize" /\ r.rest = TaskOrder
  BY IdleType, LifecycleAssumption DEF Idle, Worker, Locations
<1> QED
  BY <1>1, BecomeIs DEF LookAtTasks

\* A step of w moves no other worker.
LEMMA OthersStay ==
    ASSUME TypeOK, NEW w \in Workers, WorkerStep(w) \/ Crash(w)
    PROVE  \A v \in Workers \ {w} : worker'[v] = worker[v]
<1>1. UNCHANGED worker \/ \E r : Become(w, r)
  BY DEF WorkerStep, Poll, ReadMarker, Release, NothingToRelease, Guard, Settle, Complete,
         SaveTask, Fail, Throw, AddUsage, Recheck, Finalize, Read, Move, GetJob, SaveJob,
         Crash, Execute, Goto, Leave, End, LookAtTasks
<1> QED
  BY <1>1, BecomeIs

-----------------------------------------------------------------------------
(* What a step does to the records the others rely on                      *)

\* The run is moved on, and only to end it.
RunStays == run' = run \/ (run'.status \in RunStatus \ {"queued", "running"})

Guarantee(w) ==
    /\ done \subseteq done' /\ RunStays /\ UNCHANGED marker
    /\ \A v \in Workers \ {w} : tardy'[v] = tardy[v] /\ worker'[v] = worker[v]

\* It is enough for a worker that does not move.
LEMMA OthersKeep ==
    ASSUME LifeInv, NEW w \in Workers, NEW v \in Workers, v # w, Guarantee(w)
    PROVE  WorkerInv(v)'
<1> USE DEF LifeInv, WorkerInv, Guarantee
<1>1. worker'[v] = worker[v] /\ tardy'[v] = tardy[v] /\ WorkerInv(v)
  OBVIOUS
<1>2. HasTask(v)' /\ HasAim(v)' /\ Tardy(v)'
  BY <1>1 DEF HasTask, HasAim, Ending, Tardy
<1>3. HasDone(v)'
  BY <1>1 DEF HasDone, Ending, AllDone
<1>6. Begun => Begun'
  BY DEF RunStays, Begun
<1>7. run' = run \/ Begun'
  BY DEF RunStays, Begun
<1>8. HasBegun(v)'
  BY <1>1, <1>6, <1>7 DEF HasBegun, Ending
<1> QED
  BY <1>2, <1>3, <1>8

-----------------------------------------------------------------------------
(* What a worker does                                                      *)

\* The types are kept,
LEMMA WorkerKeepsTypes ==
    ASSUME LifeInv, NEW w \in Workers, WorkerStep(w)
    PROVE  TypeOK'
<1> USE DEF LifeInv
<1>0. TypeOK /\ HasTask(w) /\ worker[w] \in Worker
  BY WorkerType DEF WorkerInv
<1>1. CASE Poll(w)
  BY <1>0, <1>1, GotoIs DEF Poll, Locations, TypeOK, steps, calls
<1>2. CASE ReadMarker(w)
  BY <1>0, <1>2, GotoIs, EndIs DEF ReadMarker, Locations, Terminal, TypeOK, steps, calls
<1>3. CASE Release(w)
  <2>1. \A t \in Tasks : [worker[w] EXCEPT !.pc = "guard", !.task = t] \in Worker
    BY <1>0 DEF Worker, Locations
  <2>2. worker' \in [Workers -> Worker]
    BY <1>0, <1>3, <2>1, BecomeIs, LeaveIs DEF Release
  <2>3. open' \in [Tasks -> BOOLEAN]
    BY <1>0, <1>3 DEF Release, TypeOK
  <2> QED
    BY <1>0, <1>3, <2>2, <2>3 DEF Release, calls, TypeOK
<1>4. CASE NothingToRelease(w) \/ Throw(w)
  BY <1>0, <1>4, LeaveIs DEF NothingToRelease, Throw, Uncounted, TypeOK, steps, calls
<1>5. CASE Guard(w)
  <2>1. worker' \in [Workers -> Worker]
    BY <1>0, <1>5, EndIs, LeaveIs, GotoIs DEF Guard, Execute, Locations, Terminal
  <2>2. tardy' \in [Workers -> Nat] /\ kept' \in Int
    BY <1>0, <1>5 DEF Guard, Execute, TypeOK
  <2> QED
    BY <1>0, <1>5, <2>1, <2>2 DEF Guard, TypeOK, steps, calls
<1>6. CASE Complete(w)
  <2>1. [worker[w] EXCEPT !.pc = "saveTask", !.outcome = "ok"] \in Worker
    BY <1>0 DEF Worker, Locations
  <2>2. worker' \in [Workers -> Worker]
    BY <1>0, <1>6, <2>1, BecomeIs, LeaveIs DEF Complete
  <2>3. done' \subseteq Tasks /\ open' \in [Tasks -> BOOLEAN]
    BY <1>0, <1>6 DEF Complete, At, HasTask, TypeOK
  <2>4. usage' \in Nat /\ kept' \in Int
    BY <1>0, <1>6 DEF Complete, Uncounted, calls, TypeOK
  <2> QED
    BY <1>0, <1>6, <2>2, <2>3, <2>4 DEF Complete, TypeOK
<1>7. CASE SaveTask(w)
  BY <1>0, <1>7, GotoIs DEF SaveTask, Locations, calls, TypeOK
<1>8. CASE Fail(w)
  <2>1. \A o \in {"retry", "final"} :
          [worker[w] EXCEPT !.pc = "usage", !.outcome = o] \in Worker
    BY <1>0 DEF Worker, Locations
  <2>2. worker' \in [Workers -> Worker]
    BY <1>0, <1>8, <2>1, BecomeIs DEF Fail
  <2> QED
    BY <1>0, <1>8, <2>2 DEF Fail, calls, TypeOK
<1>9. CASE AddUsage(w)
  <2>1. worker' \in [Workers -> Worker]
    BY <1>0, <1>9, GotoIs, LeaveIs, LookIs DEF AddUsage, Locations
  <2>2. open' \in [Tasks -> BOOLEAN]
    BY <1>0, <1>9 DEF AddUsage, TypeOK
  <2>3. usage' \in Nat /\ kept' \in Int
    BY <1>0, <1>9 DEF AddUsage, Uncounted, TypeOK
  <2> QED
    BY <1>0, <1>9, <2>1, <2>2, <2>3 DEF AddUsage, TypeOK
<1>10. CASE Recheck(w)
  BY <1>0, <1>10, EndIs, LookIs DEF Recheck, Terminal, TypeOK, steps, calls
<1>11. CASE Finalize(w)
  <2>1. worker[w].rest # <<>> => [worker[w] EXCEPT !.rest = Tail(worker[w].rest)] \in Worker
    BY <1>0 DEF Worker
  <2>2. worker' \in [Workers -> Worker]
    BY <1>0, <1>11, <2>1, EndIs, LeaveIs, BecomeIs DEF Finalize, Terminal
  <2> QED
    BY <1>0, <1>11, <2>2 DEF Finalize, TypeOK, steps, calls
<1>12. CASE Read(w)
  <2>1. [worker[w] EXCEPT !.pc = "move", !.run = run] \in Worker
    BY <1>0 DEF Worker, Locations, TypeOK
  <2>2. worker' \in [Workers -> Worker]
    BY <1>0, <1>12, <2>1, BecomeIs DEF Read
  <2> QED
    BY <1>0, <1>12, <2>2 DEF Read, TypeOK, steps, calls
<1>13. CASE Move(w)
  <2> DEFINE l == IF worker[w].to = worker[w].final THEN "getJob" ELSE "read"
  <2>1. l \in {"getJob", "read"} /\ worker[w].final \in RunStatus /\ NoRecord \in Record
    BY WorkerType, <1>0 DEF NoRecord, Record, RunStatus, Terminal
  <2>2. Become(w, [worker[w] EXCEPT !.pc = l, !.run = NoRecord, !.to = worker[w].final])
    BY <1>13 DEF Move
  <2> HIDE DEF l
  <2>3. [worker[w] EXCEPT !.pc = l, !.run = NoRecord, !.to = worker[w].final] \in Worker
    BY <1>0, <2>1 DEF Worker, Locations
  <2>4. worker' \in [Workers -> Worker]
    BY <1>0, <2>2, <2>3, BecomeIs
  <2>5. worker[w].to \in RunStatus /\ run.version + 1 \in Nat
    BY <1>0, WorkerType DEF TypeOK, Record
  <2>6. [run EXCEPT !.status = worker[w].to, !.version = @ + 1] \in Record
    BY <1>0, <2>5 DEF TypeOK, Record
  <2>7. run' \in Record
    BY <1>0, <1>13, <2>6 DEF Move, AfterTransition, Moved, TypeOK
  <2> QED
    BY <1>0, <1>13, <2>4, <2>7 DEF Move, TypeOK, steps, calls
<1>14. CASE GetJob(w)
  <2>1. [worker[w] EXCEPT !.pc = "saveJob", !.job = job] \in Worker
    BY <1>0 DEF Worker, Locations, TypeOK
  <2>2. worker' \in [Workers -> Worker]
    BY <1>0, <1>14, <2>1, BecomeIs DEF GetJob
  <2> QED
    BY <1>0, <1>14, <2>2 DEF GetJob, TypeOK, steps, calls
<1>15. CASE SaveJob(w)
  <2>1. [status |-> worker[w].final, version |-> worker[w].job.version + 1] \in Record
    BY <1>0, WorkerType DEF Record, RunStatus, Terminal
  <2> QED
    BY <1>0, <1>15, <2>1, LeaveIs DEF SaveJob, TypeOK, steps, calls
<1> QED
  BY <1>1, <1>2, <1>3, <1>4, <1>5, <1>6, <1>7, <1>8, <1>9, <1>10, <1>11, <1>12, <1>13,
     <1>14, <1>15
     DEF WorkerStep, Settle

\* and what the others rely on.
LEMMA WorkerGuarantee ==
    ASSUME LifeInv, NEW w \in Workers, WorkerStep(w)
    PROVE  Guarantee(w)
<1> USE DEF LifeInv
<1>0. TypeOK /\ HasTask(w) /\ HasAim(w) /\ worker[w] \in Worker
  BY WorkerType DEF WorkerInv
<1>1. \A v \in Workers \ {w} : worker'[v] = worker[v]
  BY OthersStay
<1>2. \A v \in Workers \ {w} : tardy'[v] = tardy[v]
  BY <1>0
     DEF WorkerStep, Poll, ReadMarker, Release, NothingToRelease, Guard, Settle, Complete,
         SaveTask, Fail, Throw, AddUsage, Recheck, Finalize, Read, Move, GetJob, SaveJob,
         Execute, TypeOK
<1>3. UNCHANGED marker
  BY DEF WorkerStep, Poll, ReadMarker, Release, NothingToRelease, Guard, Settle, Complete,
         SaveTask, Fail, Throw, AddUsage, Recheck, Finalize, Read, Move, GetJob, SaveJob
<1>4. RunStays
  <2>1. CASE Move(w)
    <3>1. run' = run \/ run'.status = worker[w].to
      BY <1>0, <2>1 DEF Move, AfterTransition, Moved, TypeOK, Record
    <3>2. worker[w].to \in {Via(worker[w].final), worker[w].final} /\ worker[w].final \in Terminal
      BY <1>0, <2>1, WorkerType DEF Move, At, HasAim, Ending
    <3>3. worker[w].to \in RunStatus \ {"queued", "running"}
      BY <3>2, ViaIs DEF Terminal, RunStatus
    <3> QED
      BY <3>1, <3>3 DEF RunStays
  <2>2. CASE ~Move(w)
    BY <2>2
       DEF RunStays, WorkerStep, Poll, ReadMarker, Release, NothingToRelease, Guard, Settle,
           Complete, SaveTask, Fail, Throw, AddUsage, Recheck, Finalize, Read, GetJob, SaveJob
  <2> QED
    BY <2>1, <2>2
<1>5. done \subseteq done'
  BY DEF WorkerStep, Poll, ReadMarker, Release, NothingToRelease, Guard, Settle, Complete,
         SaveTask, Fail, Throw, AddUsage, Recheck, Finalize, Read, Move, GetJob, SaveJob,
         steps
<1> QED
  BY <1>1, <1>2, <1>3, <1>4, <1>5 DEF Guarantee

\* A worker keeps what is said of it.
LEMMA OwnKeep ==
    ASSUME LifeInv, NEW w \in Workers, WorkerStep(w)
    PROVE  WorkerInv(w)'
<1> USE DEF LifeInv
<1>0. /\ TypeOK /\ HasTask(w) /\ HasAim(w) /\ HasDone(w) /\ HasBegun(w) /\ Tardy(w)
      /\ worker[w] \in Worker /\ tardy[w] \in Nat
  BY WorkerType DEF WorkerInv, TypeOK
<1>a. ASSUME worker'[w].pc \in {"idle", "marker", "dead", "recheck"}, Tardy(w)'
      PROVE  WorkerInv(w)'
  BY <1>a DEF WorkerInv, HasTask, HasAim, HasDone, HasBegun, Ending
<1>b. ASSUME NEW how \in Terminal, End(w, how), UNCHANGED <<tardy, marker, run>>,
             how = "completed" => AllDone'
      PROVE  WorkerInv(w)'
  <2>1. worker'[w].pc = "read" /\ worker'[w].to = Via(how) /\ worker'[w].final = how
    BY <1>0, <1>b, EndIs
  <2>2. worker'[w].to \notin {"completed", "cancelled"}
    BY <2>1, ViaIs DEF Terminal
  <2>3. Tardy(w)'
    BY <1>0, <1>b, <2>1 DEF Tardy
  <2> QED
    BY <1>b, <2>1, <2>2, <2>3
       DEF WorkerInv, HasTask, HasAim, HasDone, HasBegun, Ending
<1>c. ASSUME Leave(w), UNCHANGED <<tardy, marker>> PROVE WorkerInv(w)'
  <2>1. worker'[w].pc = "idle"
    BY <1>0, <1>c, LeaveIs
  <2> QED
    BY <1>0, <1>a, <1>c, <2>1 DEF Tardy
<1>d. ASSUME LookAtTasks(w), UNCHANGED <<tardy, marker>> PROVE WorkerInv(w)'
  <2>1. worker'[w].pc = "finalize" /\ worker'[w].rest = TaskOrder
    BY <1>0, <1>d, LookIs
  <2>2. \A t \in Tasks : \E i \in 1 .. Len(worker'[w].rest) : worker'[w].rest[i] = t
    BY <2>1, LifecycleAssumption
  <2> QED
    BY <1>0, <1>d, <2>1, <2>2
       DEF WorkerInv, HasTask, HasAim, HasDone, HasBegun, Ending, Tardy
<1>1. CASE Poll(w)
  <2>1. worker'[w].pc \in {"idle", "marker"} /\ UNCHANGED <<tardy, marker>>
    BY <1>0, <1>1, GotoIs DEF Poll, At, Locations
  <2> QED
    BY <1>0, <1>a, <2>1 DEF Tardy
<1>2. CASE ReadMarker(w)
  <2>1. CASE marker
    BY <1>2, <1>b, <2>1 DEF ReadMarker, Terminal
  <2>2. CASE ~marker
    <3>1. worker'[w].pc = "release" /\ UNCHANGED <<tardy, marker>>
      BY <1>0, <1>2, <2>2, GotoIs DEF ReadMarker, Locations
    <3> QED
      BY <1>0, <2>2, <3>1
         DEF WorkerInv, HasTask, HasAim, HasDone, HasBegun, Ending, Tardy
  <2> QED
    BY <2>1, <2>2
<1>3. CASE Release(w)
  <2>1. CASE Leave(w)
    BY <1>3, <1>c, <2>1 DEF Release
  <2>2. ASSUME NEW t \in Tasks, Become(w, [worker[w] EXCEPT !.pc = "guard", !.task = t])
        PROVE  WorkerInv(w)'
    <3>1. worker'[w] = [worker[w] EXCEPT !.pc = "guard", !.task = t]
      BY <1>0, <2>2, BecomeIs
    <3>2. worker'[w].pc = "guard" /\ worker'[w].task = t
      BY <1>0, <3>1 DEF Worker
    <3>3. UNCHANGED <<tardy, marker>> /\ tardy[w] = 0
      BY <1>0, <1>3 DEF Release, At, Tardy
    <3> QED
      BY <3>2, <3>3 DEF WorkerInv, HasTask, HasAim, HasDone, HasBegun, Ending, Tardy
  <2> QED
    BY <1>3, <2>1, <2>2 DEF Release
<1>4. CASE NothingToRelease(w) \/ Throw(w)
  BY <1>4, <1>c DEF NothingToRelease, Throw
<1>5. CASE Guard(w)
  <2>1. CASE Execute(w)
    <3>1. worker'[w].pc = "execute" /\ worker'[w].task = worker[w].task
      BY <1>0, <2>1, GotoIs DEF Execute, Locations
    <3>2. worker[w].pc = "guard" /\ tardy[w] = 0 /\ worker[w].task \in Tasks
      BY <1>0, <1>5 DEF Guard, At, Tardy, HasTask
    <3>3. UNCHANGED marker /\ tardy'[w] \in {0, 1} /\ (~marker => tardy'[w] = 0)
      BY <1>0, <1>5, <2>1, <3>2 DEF Guard, Execute, TypeOK
    <3> QED
      BY <3>1, <3>2, <3>3
         DEF WorkerInv, HasTask, HasAim, HasDone, HasBegun, Ending, Tardy
  <2>2. CASE (End(w, "failed") \/ Leave(w)) /\ UNCHANGED tardy
    BY <1>5, <1>b, <1>c, <2>2 DEF Guard, Terminal
  <2> QED
    BY <1>5, <2>1, <2>2 DEF Guard
<1>6. CASE Complete(w)
  <2>1. CASE Leave(w)
    BY <1>6, <1>c, <2>1 DEF Complete
  <2>2. CASE /\ done' = done \cup {worker[w].task}
             /\ Become(w, [worker[w] EXCEPT !.pc = "saveTask", !.outcome = "ok"])
    <3>1. worker[w].task \in Tasks
      BY <1>0, <1>6 DEF Complete, At, HasTask
    <3>a. worker'[w] = [worker[w] EXCEPT !.pc = "saveTask", !.outcome = "ok"]
      BY <1>0, <2>2, BecomeIs
    <3>2. /\ worker'[w].pc = "saveTask" /\ worker'[w].task = worker[w].task
          /\ worker'[w].outcome = "ok"
      BY <1>0, <3>a DEF Worker
    <3>3. worker[w].task \in done'
      BY <2>2
    <3> QED
      BY <1>0, <1>6, <3>1, <3>2, <3>3
         DEF Complete, WorkerInv, HasTask, HasAim, HasDone, HasBegun, Ending, Tardy
  <2> QED
    BY <1>6, <2>1, <2>2 DEF Complete
<1>7. CASE SaveTask(w)
  <2>1. /\ worker'[w].pc = "usage" /\ worker'[w].task = worker[w].task
        /\ worker'[w].outcome = worker[w].outcome
    BY <1>0, <1>7, GotoIs DEF SaveTask, Locations
  <2>2. /\ worker[w].outcome = "ok" /\ worker[w].task \in Tasks
        /\ UNCHANGED <<tardy, marker>> /\ worker[w].pc = "saveTask"
    BY <1>0, <1>7 DEF SaveTask, At, HasDone, HasTask
  <2> QED
    BY <1>0, <2>1, <2>2
       DEF WorkerInv, HasTask, HasAim, HasDone, HasBegun, Ending, Tardy
<1>8. CASE Fail(w)
  <2>1. PICK o \in {"retry", "final"} :
          Become(w, [worker[w] EXCEPT !.pc = "usage", !.outcome = o])
    BY <1>8 DEF Fail
  <2>2. worker'[w] = [worker[w] EXCEPT !.pc = "usage", !.outcome = o]
    BY <1>0, <2>1, BecomeIs
  <2>3. worker'[w].pc = "usage" /\ worker'[w].task = worker[w].task
    BY <1>0, <2>2 DEF Worker
  <2>4. worker[w].task \in Tasks /\ UNCHANGED <<tardy, marker>>
    BY <1>0, <1>8 DEF Fail, At, HasTask
  <2> QED
    BY <1>0, <2>3, <2>4
       DEF WorkerInv, HasTask, HasAim, HasDone, HasBegun, Ending, Tardy
<1>9. CASE AddUsage(w)
  <2>1. CASE Goto(w, "recheck")
    <3>1. worker'[w].pc = "recheck" /\ UNCHANGED <<tardy, marker>>
      BY <1>0, <1>9, <2>1, GotoIs DEF AddUsage, Locations
    <3> QED
      BY <1>0, <1>a, <3>1 DEF Tardy
  <2>2. CASE Leave(w) \/ LookAtTasks(w)
    BY <1>9, <1>c, <1>d, <2>2 DEF AddUsage
  <2> QED
    BY <1>9, <2>1, <2>2 DEF AddUsage
<1>10. CASE Recheck(w)
  BY <1>10, <1>b, <1>d DEF Recheck, Terminal
<1>11. CASE Finalize(w)
  <2> DEFINE rest == worker[w].rest
  <2>0. /\ worker[w].pc = "finalize" /\ UNCHANGED <<tardy, marker, run, task, done>>
        /\ rest \in Seq(Tasks)
    BY <1>0, <1>11, WorkerType DEF Finalize, At, steps
  <2>1. CASE Leave(w)
    BY <2>0, <2>1, <1>c
  <2>2. CASE rest = <<>> /\ End(w, "completed")
    <3>1. AllDone'
      BY <1>0, <2>0, <2>2 DEF HasDone, AllDone
    <3> QED
      BY <1>b, <2>0, <2>2, <3>1 DEF Terminal
  <2>3. CASE /\ rest # <<>> /\ task[Head(rest)] = "completed"
             /\ Become(w, [worker[w] EXCEPT !.rest = Tail(rest)])
    <3>1. worker'[w] = [worker[w] EXCEPT !.rest = Tail(rest)]
      BY <1>0, <2>3, BecomeIs
    <3>2. worker'[w].pc = "finalize" /\ worker'[w].rest = Tail(rest)
      BY <1>0, <2>0, <3>1 DEF Worker
    <3>3. ASSUME NEW t \in Tasks, t \notin done
          PROVE  \E i \in 1 .. Len(Tail(rest)) : Tail(rest)[i] = t
      <4>1. PICK i \in 1 .. Len(rest) : rest[i] = t
        BY <1>0, <2>0, <3>3 DEF HasDone
      <4>2. i # 1
        BY <2>0, <2>3, <3>3, <4>1 DEF StepsInv
      <4>3. i - 1 \in 1 .. Len(Tail(rest)) /\ Tail(rest)[i - 1] = t
        BY <2>0, <2>3, <4>1, <4>2
      <4> QED
        BY <4>3
    <3> QED
      BY <1>0, <2>0, <3>2, <3>3
         DEF WorkerInv, HasTask, HasAim, HasDone, HasBegun, Ending, Tardy
  <2> QED
    BY <1>11, <2>1, <2>2, <2>3 DEF Finalize
<1>12. CASE Read(w)
  <2>1. worker'[w] = [worker[w] EXCEPT !.pc = "move", !.run = run]
    BY <1>0, <1>12, BecomeIs DEF Read
  <2>2. /\ worker'[w].pc = "move" /\ worker'[w].run = run
        /\ worker'[w].to = worker[w].to /\ worker'[w].final = worker[w].final
    BY <1>0, <2>1 DEF Worker
  <2>3. UNCHANGED <<tardy, marker, run, done>> /\ worker[w].pc = "read"
    BY <1>12 DEF Read, At, steps
  <2> QED
    BY <1>0, <2>2, <2>3
       DEF WorkerInv, HasTask, HasAim, HasDone, HasBegun, Ending, Tardy, AllDone,
           Begun
<1>13. CASE Move(w)
  <2> DEFINE l == IF worker[w].to = worker[w].final THEN "getJob" ELSE "read"
  <2>1. worker'[w] = [worker[w] EXCEPT !.pc = l, !.run = NoRecord, !.to = worker[w].final]
    BY <1>0, <1>13, BecomeIs DEF Move
  <2>2. /\ worker'[w].pc = l /\ worker'[w].to = worker[w].final
        /\ worker'[w].final = worker[w].final
    BY <1>0, <2>1 DEF Worker
  <2>3. UNCHANGED <<tardy, marker, done>> /\ worker[w].pc = "move"
    BY <1>13 DEF Move, At, steps
  <2>4. worker[w].to \in {Via(worker[w].final), worker[w].final} /\ worker[w].final \in Terminal
    BY <1>0, <2>3, WorkerType DEF HasAim, Ending
  <2>5. Begun'
    <3>1. worker[w].to \in RunStatus \ {"running"} /\ worker[w].to # "queued"
      BY <2>4, ViaIs DEF Terminal, RunStatus
    <3>2. CASE Begun
      BY <1>0, <1>13, <3>1, <3>2 DEF Begun, Move, AfterTransition, Moved, TypeOK, Record
    <3>3. CASE ~Begun
      <4>1. worker[w].run = run /\ run.status = "running"
        BY <1>0, <2>3, <3>3 DEF HasBegun, Begun
      <4>2. worker[w].to \in {"verifying", "cancel_requested", "failed"}
        BY <1>0, <2>3, <2>4, <3>3, ViaIs DEF HasBegun, Ending, Terminal
      <4>3. CanTransition("running", worker[w].to)
        BY <4>2 DEF CanTransition, ValidTransitions
      <4> QED
        BY <1>0, <1>13, <3>1, <4>1, <4>3
           DEF Move, AfterTransition, Moves, Moved, Begun, TypeOK, Record
    <3> QED
      BY <3>2, <3>3
  <2> QED
    BY <1>0, <2>2, <2>3, <2>5
       DEF WorkerInv, HasTask, HasAim, HasDone, HasBegun, Ending, Tardy, AllDone
<1>14. CASE GetJob(w)
  <2>1. worker'[w] = [worker[w] EXCEPT !.pc = "saveJob", !.job = job]
    BY <1>0, <1>14, BecomeIs DEF GetJob
  <2>2. worker'[w].pc = "saveJob" /\ UNCHANGED <<tardy, marker, run>> /\ worker[w].pc = "getJob"
    BY <1>0, <1>14, <2>1 DEF Worker, GetJob, At
  <2> QED
    BY <1>0, <2>2
       DEF WorkerInv, HasTask, HasAim, HasDone, HasBegun, Ending, Tardy, Begun
<1>15. CASE SaveJob(w)
  BY <1>15, <1>c DEF SaveJob
<1> QED
  BY <1>1, <1>2, <1>3, <1>4, <1>5, <1>6, <1>7, <1>8, <1>9, <1>10, <1>11, <1>12, <1>13,
     <1>14, <1>15
     DEF WorkerStep, Settle

\* The records of the tasks say no more than was committed.
LEMMA StepsKeep ==
    ASSUME LifeInv, NEW w \in Workers, WorkerStep(w)
    PROVE  StepsInv'
<1> USE DEF LifeInv
<1>1. TypeOK /\ HasTask(w) /\ HasDone(w) /\ StepsInv
  BY DEF WorkerInv
<1>2. done \subseteq done'
  BY WorkerGuarantee DEF Guarantee
<1>3. CASE SaveTask(w)
  BY <1>1, <1>2, <1>3 DEF SaveTask, At, HasDone, HasTask, StepsInv, TypeOK
<1>4. CASE UNCHANGED task
  BY <1>1, <1>2, <1>4 DEF StepsInv
<1> QED
  BY <1>3, <1>4
     DEF WorkerStep, Poll, ReadMarker, Release, NothingToRelease, Guard, Settle, Complete,
         Fail, Throw, AddUsage, Recheck, Finalize, Read, Move, GetJob, SaveJob, steps

\* The records of the run and of the job stay consistent with the steps.
LEMMA RunKeep ==
    ASSUME LifeInv, NEW w \in Workers, WorkerStep(w)
    PROVE  RunInv'
<1> USE DEF LifeInv
<1>0. /\ TypeOK /\ HasAim(w) /\ HasDone(w) /\ HasBegun(w) /\ worker[w] \in Worker
  BY WorkerType DEF WorkerInv
<1>1. done \subseteq done' /\ RunStays
  BY WorkerGuarantee DEF Guarantee
<1>2. AllDone => AllDone'
  BY <1>1 DEF AllDone
<1>3. Begun => Begun'
  BY <1>1 DEF RunStays, Begun
<1>4. run'.status # "queued"
  BY <1>1 DEF RunStays, RunInv
<1>5. run'.status = "completed" => AllDone'
  <2>1. CASE Move(w)
    <3>1. run' = run \/ run'.status = worker[w].to
      BY <1>0, <2>1 DEF Move, AfterTransition, Moved, TypeOK, Record
    <3>2. /\ worker[w].to \in {Via(worker[w].final), worker[w].final}
          /\ worker[w].final \in Terminal /\ Ending(w)
      BY <1>0, <2>1, WorkerType DEF Move, At, HasAim, Ending
    <3>3. worker[w].to = "completed" => worker[w].final = "completed"
      BY <3>2, ViaIs DEF Terminal
    <3>4. worker[w].to = "completed" => AllDone
      BY <1>0, <3>2, <3>3 DEF HasDone
    <3> QED
      BY <1>2, <3>1, <3>4 DEF RunInv
  <2>2. CASE UNCHANGED run
    BY <1>2, <2>2 DEF RunInv
  <2> QED
    BY <2>1, <2>2
       DEF WorkerStep, Poll, ReadMarker, Release, NothingToRelease, Guard, Settle, Complete,
           SaveTask, Fail, Throw, AddUsage, Recheck, Finalize, Read, GetJob, SaveJob
<1>6. job'.status \in Terminal => Begun'
  <2>1. CASE SaveJob(w)
    BY <1>0, <1>3, <2>1 DEF SaveJob, At, HasBegun
  <2>2. CASE UNCHANGED job
    BY <1>3, <2>2 DEF RunInv
  <2> QED
    BY <2>1, <2>2
       DEF WorkerStep, Poll, ReadMarker, Release, NothingToRelease, Guard, Settle, Complete,
           SaveTask, Fail, Throw, AddUsage, Recheck, Finalize, Read, Move, GetJob
<1> QED
  BY <1>4, <1>5, <1>6 DEF RunInv

-----------------------------------------------------------------------------
(* What the environment does                                               *)

LEMMA WorkerInvStays ==
    ASSUME NEW w \in Workers, WorkerInv(w), UNCHANGED <<run, done, worker, tardy>>,
           marker => marker'
    PROVE  WorkerInv(w)'
BY DEF WorkerInv, HasTask, HasAim, HasDone, HasBegun, Tardy, Ending, AllDone, Begun

LEMMA SwitchKeeps ==
    ASSUME LifeInv, Cancel \/ PassDeadline \/ UNCHANGED vars
    PROVE  LifeInv'
<1> USE DEF LifeInv
<1>1. /\ UNCHANGED <<run, job, calls, steps, worker, tardy>>
      /\ marker => marker'
      /\ marker' \in BOOLEAN /\ late' \in BOOLEAN
  BY DEF Cancel, PassDeadline, vars, steps, TypeOK
<1>2. TypeOK'
  BY <1>1 DEF TypeOK, calls, steps
<1>3. StepsInv' /\ RunInv'
  BY <1>1 DEF StepsInv, RunInv, AllDone, Begun, steps
<1>4. \A w \in Workers : WorkerInv(w)'
  BY <1>1, WorkerInvStays DEF steps
<1> QED
  BY <1>2, <1>3, <1>4

LEMMA OverwriteKeeps ==
    ASSUME LifeInv, NEW t \in Stale, Overwrite(t)
    PROVE  LifeInv'
<1> USE DEF LifeInv
<1>1. /\ UNCHANGED <<run, job, marker, late, calls, done, worker, tardy>>
      /\ \E o \in BOOLEAN : open' = [open EXCEPT ![t] = o]
      /\ \/ task' = [task EXCEPT ![t] = "queued"]
         \/ t \in done /\ task' = [task EXCEPT ![t] = "completed"]
  BY DEF Overwrite
<1>2. TypeOK'
  BY <1>1 DEF TypeOK, calls
<1>3. StepsInv' /\ RunInv'
  BY <1>1 DEF StepsInv, RunInv, AllDone, Begun, TypeOK
<1>4. \A w \in Workers : WorkerInv(w)'
  BY <1>1, WorkerInvStays
<1> QED
  BY <1>2, <1>3, <1>4

LEMMA CrashKeeps ==
    ASSUME LifeInv, NEW w \in Workers, Crash(w)
    PROVE  LifeInv'
<1> USE DEF LifeInv
<1> DEFINE r == [Idle EXCEPT !.pc = "dead"]
<1>1. UNCHANGED <<run, job, marker, late, steps, tardy>> /\ Become(w, r)
  BY DEF Crash
<1>2. r \in Worker /\ r.pc = "dead"
  BY IdleType DEF Idle, Worker, Locations
<1>3. /\ worker'[w].pc = "dead" /\ worker' \in [Workers -> Worker]
      /\ \A v \in Workers \ {w} : worker'[v] = worker[v]
  BY <1>1, <1>2, BecomeIs
<1>4. TypeOK'
  <2>1. usage' \in Nat /\ kept' \in Int
    BY DEF Crash, Uncounted, calls, TypeOK
  <2> QED
    BY <1>1, <1>3, <2>1 DEF TypeOK, steps
<1>5. StepsInv'
  BY <1>1 DEF StepsInv, steps
<1>6. RunInv'
  BY <1>1 DEF RunInv, AllDone, Begun, steps
<1>7. WorkerInv(w)'
  BY <1>1, <1>3
     DEF WorkerInv, HasTask, HasAim, HasDone, HasBegun, Tardy, Ending
<1>8. ASSUME NEW v \in Workers \ {w} PROVE WorkerInv(v)'
  <2>1. Guarantee(w)
    BY <1>1, <1>3 DEF Guarantee, RunStays, steps
  <2> QED
    BY <2>1, OthersKeep
<1> QED
  BY <1>4, <1>5, <1>6, <1>7, <1>8

-----------------------------------------------------------------------------
(* The invariant and what follows from it                                  *)

LEMMA LifeInit == Init => LifeInv
<1> SUFFICES ASSUME Init PROVE LifeInv
  OBVIOUS
<1>1. TypeOK
  <2>1. run \in Record /\ job \in Record
    BY DEF Init, Record, RunStatus
  <2>2. worker \in [Workers -> Worker]
    BY IdleType DEF Init
  <2>3. usage \in Nat /\ kept \in Int /\ done \subseteq Tasks /\ tardy \in [Workers -> Nat]
    BY DEF Init
  <2>4. /\ open \in [Tasks -> BOOLEAN] /\ task \in [Tasks -> {"queued", "completed"}]
        /\ marker \in BOOLEAN /\ late \in BOOLEAN
    BY DEF Init
  <2> QED
    BY <2>1, <2>2, <2>3, <2>4 DEF TypeOK
<1>2. Idle.pc = "idle"
  BY DEF Idle
<1>3. \A w \in Workers : worker[w] = Idle /\ tardy[w] = 0
  BY DEF Init
<1>4. \A w \in Workers : WorkerInv(w)
  BY <1>2, <1>3 DEF WorkerInv, HasTask, HasAim, HasDone, HasBegun, Tardy, Ending
<1>5. StepsInv
  BY <1>2, <1>3 DEF Init, StepsInv
<1>6. RunInv
  BY DEF Init, RunInv, Begun, Terminal
<1> QED
  BY <1>1, <1>4, <1>5, <1>6 DEF LifeInv

LEMMA LifeNext == LifeInv /\ [Next]_vars => LifeInv'
<1> SUFFICES ASSUME LifeInv, [Next]_vars PROVE LifeInv'
  OBVIOUS
<1>1. ASSUME NEW w \in Workers, WorkerStep(w) PROVE LifeInv'
  <2>1. TypeOK' /\ StepsInv' /\ RunInv' /\ WorkerInv(w)'
    BY <1>1, WorkerKeepsTypes, StepsKeep, RunKeep, OwnKeep
  <2>2. \A v \in Workers : v # w => WorkerInv(v)'
    BY <1>1, WorkerGuarantee, OthersKeep
  <2> QED
    BY <2>1, <2>2 DEF LifeInv
<1>2. ASSUME NEW w \in Mortal, Crash(w) PROVE LifeInv'
  BY <1>2, CrashKeeps, LifecycleAssumption
<1> QED
  BY <1>1, <1>2, SwitchKeeps, OverwriteKeeps DEF Next

\* However many workers end the run, all that is said above of their records holds.
THEOREM LifeCorrect == Spec => []LifeInv
BY LifeInit, LifeNext, PTL DEF Spec

\* Every record keeps its shape.
THEOREM LifeTypeCorrect == Spec => []TypeOK
<1>1. LifeInv => TypeOK
  BY DEF LifeInv
<1> QED
  BY <1>1, LifeCorrect, PTL

\* A completed run has a committed result for each task (maybeFinalize).
THEOREM CompletedCorrect == Spec => []CompletedIsDone
<1>1. LifeInv => CompletedIsDone
  BY DEF LifeInv, RunInv, AllDone, CompletedIsDone
<1> QED
  BY <1>1, LifeCorrect, PTL

\* Once a run is cancelled, no worker begins more than one execution for it (processOne).
THEOREM CancelCorrect == Spec => []CancelStopsWork
<1>1. LifeInv => CancelStopsWork
  BY DEF LifeInv, WorkerInv, Tardy, CancelStopsWork
<1> QED
  BY <1>1, LifeCorrect, PTL

\* A job is not shown as ended while its run goes on (maybeFinalize, cancelRun,
\* failRunBudget).
THEOREM JobCorrect == Spec => []JobNotAhead
<1>1. LifeInv => JobNotAhead
  BY DEF LifeInv, RunInv, Begun, JobNotAhead, TypeOK, Record, RunStatus, Terminal
<1> QED
  BY <1>1, LifeCorrect, PTL

\* An ended run stays as it is (transitionRun).
THEOREM TerminalCorrect == Spec => TerminalStays
<1>1. LifeInv /\ [Next]_vars => [run.status \in Terminal => run' = run]_vars
  <2> SUFFICES ASSUME LifeInv, Next, run.status \in Terminal PROVE run' = run
    BY DEF vars
  <2>1. ASSUME NEW w \in Workers, Move(w) PROVE run' = run
    <3>1. /\ worker[w].to \in {Via(worker[w].final), worker[w].final}
          /\ worker[w].final \in Terminal
      BY <2>1, WorkerType DEF LifeInv, WorkerInv, Move, At, HasAim, Ending
    <3>2. worker[w].to # "queued"
      BY <3>1, ViaIs DEF Terminal
    <3>3. ~CanTransition(run.status, worker[w].to)
      BY <3>2 DEF CanTransition, ValidTransitions, Terminal
    <3> QED
      BY <2>1, <3>3 DEF Move, AfterTransition, Moves
  <2>2. CASE \A w \in Workers : ~Move(w)
    BY <2>2
       DEF Next, WorkerStep, Poll, ReadMarker, Release, NothingToRelease, Guard, Settle,
           Complete, SaveTask, Fail, Throw, AddUsage, Recheck, Finalize, Read, GetJob,
           SaveJob, Cancel, PassDeadline, Overwrite, Crash
  <2> QED
    BY <2>1, <2>2
<1> QED
  BY <1>1, LifeCorrect, PTL DEF Spec, TerminalStays

-----------------------------------------------------------------------------
(* The budget                                                              *)

\* Every execution that is not lost to the counters is counted, or in the hands of a
\* worker; and with those in hand the counted ones keep to the budget.
Flying == {w \in Workers : InFlight(w)}

BudgetInv == /\ kept = usage + Cardinality(Flying)
             /\ kept <= MaxCalls + Cardinality(Workers)

LEMMA FlyingIs ==
    /\ Cardinality(Workers) \in Nat
    /\ \A S \in SUBSET Workers : Cardinality(S) \in Nat /\ Cardinality(S) <= Cardinality(Workers)
    /\ \A S \in SUBSET Workers : \A w \in S : Cardinality(S \ {w}) = Cardinality(S) - 1
    /\ \A S \in SUBSET Workers : \A w \in Workers \ S :
          Cardinality(S \cup {w}) = Cardinality(S) + 1
<1>1. IsFiniteSet(Workers)
  BY LifecycleAssumption
<1>2. ASSUME NEW S \in SUBSET Workers
      PROVE  IsFiniteSet(S) /\ Cardinality(S) \in Nat /\ Cardinality(S) <= Cardinality(Workers)
  BY <1>1, FS_Subset, FS_CardinalityType
<1>3. ASSUME NEW S \in SUBSET Workers, NEW w \in S
      PROVE  Cardinality(S \ {w}) = Cardinality(S) - 1
  BY <1>2, <1>3, FS_RemoveElement
<1>4. ASSUME NEW S \in SUBSET Workers, NEW w \in Workers \ S
      PROVE  Cardinality(S \cup {w}) = Cardinality(S) + 1
  BY <1>2, <1>4, FS_AddElement
<1> QED
  BY <1>1, <1>2, <1>3, <1>4, FS_CardinalityType

\* An execution goes into flight when it is begun, and only within the budget; it comes
\* down when it is counted or lost.
TakesOff(w) == /\ w \notin Flying /\ Flying' = Flying \cup {w}
               /\ kept' = kept + 1 /\ UNCHANGED usage
               /\ usage <= MaxCalls

Lands(w) == /\ w \in Flying /\ Flying' = Flying \ {w}
            /\ \/ usage' = usage + 1 /\ UNCHANGED kept
               \/ UNCHANGED usage /\ kept' = kept - 1

FliesOn == Flying' = Flying /\ UNCHANGED calls

\* What becomes of Flying when one worker moves
LEMMA FlyingMoves ==
    ASSUME NEW w \in Workers, \A v \in Workers \ {w} : worker'[v] = worker[v]
    PROVE  /\ InFlight(w)' /\ InFlight(w) => Flying' = Flying
           /\ ~InFlight(w)' /\ ~InFlight(w) => Flying' = Flying
           /\ InFlight(w)' /\ ~InFlight(w) => w \notin Flying /\ Flying' = Flying \cup {w}
           /\ ~InFlight(w)' /\ InFlight(w) => w \in Flying /\ Flying' = Flying \ {w}
BY DEF Flying, InFlight

LEMMA FlightIs ==
    ASSUME LifeInv, NEW w \in Workers, WorkerStep(w)
    PROVE  TakesOff(w) \/ Lands(w) \/ FliesOn
<1>0. TypeOK /\ worker[w] \in Worker /\ \A v \in Workers \ {w} : worker'[v] = worker[v]
  BY WorkerType, OthersStay DEF LifeInv
<1>a. ASSUME ~InFlight(w), ~InFlight(w)', UNCHANGED calls PROVE FliesOn
  BY <1>0, <1>a, FlyingMoves DEF FliesOn
<1>b. ASSUME InFlight(w), ~InFlight(w)', Uncounted PROVE Lands(w)
  BY <1>0, <1>b, FlyingMoves DEF Lands, Uncounted
<1>1. CASE Guard(w)
  <2>1. ~InFlight(w)
    BY <1>1 DEF Guard, At, InFlight
  <2>2. CASE (End(w, "failed") \/ Leave(w)) /\ UNCHANGED kept
    <3>1. ~InFlight(w)' /\ UNCHANGED calls
      BY <1>0, <1>1, <2>2, EndIs, LeaveIs DEF Guard, InFlight, Terminal, calls
    <3> QED
      BY <1>a, <2>1, <3>1
  <2>3. CASE ~Breach /\ Execute(w)
    <3>1. InFlight(w)' /\ kept' = kept + 1 /\ UNCHANGED usage
      BY <1>0, <1>1, <2>3, GotoIs DEF Guard, Execute, InFlight, Locations
    <3>2. usage <= MaxCalls
      BY <1>0, <2>3, LifecycleAssumption DEF Breach, TypeOK
    <3> QED
      BY <1>0, <2>1, <3>1, <3>2, FlyingMoves DEF TakesOff
  <2> QED
    BY <1>1, <2>2, <2>3 DEF Guard
<1>2. CASE AddUsage(w)
  <2>1. InFlight(w) /\ ~InFlight(w)'
    BY <1>0, <1>2, GotoIs, LeaveIs, LookIs DEF AddUsage, At, InFlight, Locations
  <2> QED
    BY <1>0, <1>2, <2>1, FlyingMoves DEF AddUsage, Lands, Uncounted
<1>3. CASE Complete(w)
  <2>1. InFlight(w)
    BY <1>3 DEF Complete, At, InFlight
  <2>2. CASE Leave(w) /\ Uncounted
    BY <1>0, <1>b, <2>1, <2>2, LeaveIs DEF InFlight
  <2>3. CASE /\ Become(w, [worker[w] EXCEPT !.pc = "saveTask", !.outcome = "ok"])
             /\ UNCHANGED calls
    <3>1. worker'[w] = [worker[w] EXCEPT !.pc = "saveTask", !.outcome = "ok"]
      BY <1>0, <2>3, BecomeIs
    <3>2. InFlight(w)'
      BY <1>0, <3>1 DEF InFlight, Worker
    <3> QED
      BY <1>0, <2>1, <2>3, <3>2, FlyingMoves DEF FliesOn
  <2> QED
    BY <1>3, <2>2, <2>3 DEF Complete
<1>4. CASE SaveTask(w)
  <2>1. InFlight(w) /\ InFlight(w)' /\ UNCHANGED calls
    BY <1>0, <1>4, GotoIs DEF SaveTask, At, InFlight, Locations
  <2> QED
    BY <1>0, <2>1, FlyingMoves DEF FliesOn
<1>5. CASE Fail(w)
  <2>1. PICK o \in {"retry", "final"} :
          Become(w, [worker[w] EXCEPT !.pc = "usage", !.outcome = o])
    BY <1>5 DEF Fail
  <2>2. worker'[w] = [worker[w] EXCEPT !.pc = "usage", !.outcome = o]
    BY <1>0, <2>1, BecomeIs
  <2>3. InFlight(w) /\ InFlight(w)' /\ UNCHANGED calls
    BY <1>0, <1>5, <2>2 DEF Fail, At, InFlight, Worker
  <2> QED
    BY <1>0, <2>3, FlyingMoves DEF FliesOn
<1>6. CASE Throw(w)
  BY <1>0, <1>6, <1>b, LeaveIs DEF Throw, At, InFlight
<1>7. CASE Poll(w) \/ ReadMarker(w) \/ NothingToRelease(w) \/ Recheck(w) \/ SaveJob(w)
  <2>1. ~InFlight(w) /\ ~InFlight(w)'
    BY <1>0, <1>7, GotoIs, LeaveIs, EndIs, LookIs
       DEF Poll, ReadMarker, NothingToRelease, Recheck, SaveJob, At, InFlight, Locations,
           Terminal
  <2> QED
    BY <1>7, <1>a, <2>1 DEF Poll, ReadMarker, NothingToRelease, Recheck, SaveJob
<1>8. CASE Release(w)
  <2>1. Leave(w) \/ \E t \in Tasks : worker'[w] = [worker[w] EXCEPT !.pc = "guard", !.task = t]
    BY <1>0, <1>8, BecomeIs DEF Release
  <2>2. ~InFlight(w) /\ ~InFlight(w)'
    BY <1>0, <1>8, <2>1, LeaveIs DEF Release, At, InFlight, Worker
  <2> QED
    BY <1>8, <1>a, <2>2 DEF Release
<1>9. CASE Finalize(w)
  <2>1. \/ Leave(w) \/ End(w, "completed")
        \/ worker'[w] = [worker[w] EXCEPT !.rest = Tail(worker[w].rest)]
    BY <1>0, <1>9, BecomeIs DEF Finalize
  <2>2. ~InFlight(w) /\ ~InFlight(w)'
    BY <1>0, <1>9, <2>1, LeaveIs, EndIs DEF Finalize, At, InFlight, Worker, Terminal
  <2> QED
    BY <1>9, <1>a, <2>2 DEF Finalize
<1>10. CASE Read(w) \/ GetJob(w)
  <2>1. \/ worker'[w] = [worker[w] EXCEPT !.pc = "move", !.run = run]
        \/ worker'[w] = [worker[w] EXCEPT !.pc = "saveJob", !.job = job]
    BY <1>0, <1>10, BecomeIs DEF Read, GetJob
  <2>2. ~InFlight(w) /\ ~InFlight(w)'
    BY <1>0, <1>10, <2>1 DEF Read, GetJob, At, InFlight, Worker
  <2> QED
    BY <1>10, <1>a, <2>2 DEF Read, GetJob
<1>11. CASE Move(w)
  <2> DEFINE l == IF worker[w].to = worker[w].final THEN "getJob" ELSE "read"
  <2>1. worker'[w] = [worker[w] EXCEPT !.pc = l, !.run = NoRecord, !.to = worker[w].final]
    BY <1>0, <1>11, BecomeIs DEF Move
  <2>2. ~InFlight(w) /\ ~InFlight(w)'
    BY <1>0, <1>11, <2>1 DEF Move, At, InFlight, Worker
  <2> QED
    BY <1>11, <1>a, <2>2 DEF Move
<1> QED
  BY <1>1, <1>2, <1>3, <1>4, <1>5, <1>6, <1>7, <1>8, <1>9, <1>10, <1>11 DEF WorkerStep, Settle

LEMMA BudgetNext == LifeInv /\ BudgetInv /\ [Next]_vars => BudgetInv'
<1> SUFFICES ASSUME LifeInv, BudgetInv, [Next]_vars PROVE BudgetInv'
  OBVIOUS
<1>1. \/ \E w \in Workers : TakesOff(w) \/ Lands(w)
      \/ FliesOn
  <2>1. ASSUME NEW w \in Mortal, Crash(w) PROVE Lands(w) \/ FliesOn
    <3>1. /\ w \in Workers /\ TypeOK
          /\ worker'[w] = [Idle EXCEPT !.pc = "dead"]
          /\ \A v \in Workers \ {w} : worker'[v] = worker[v]
      BY <2>1, BecomeIs, LifecycleAssumption DEF Crash, LifeInv
    <3>2. ~InFlight(w)'
      BY <3>1 DEF Idle, InFlight
    <3> QED
      BY <2>1, <3>1, <3>2, FlyingMoves DEF Crash, Lands, FliesOn, Uncounted
  <2>2. ASSUME Cancel \/ PassDeadline \/ (\E t \in Stale : Overwrite(t)) \/ UNCHANGED vars
        PROVE  FliesOn
    BY <2>2 DEF Cancel, PassDeadline, Overwrite, vars, Flying, InFlight, FliesOn
  <2> QED
    BY <2>1, <2>2, FlightIs, LifecycleAssumption DEF Next
<1>2. Flying \in SUBSET Workers /\ Flying' \in SUBSET Workers
  BY DEF Flying
<1>3. /\ usage \in Nat /\ kept \in Int /\ MaxCalls \in Nat
      /\ Cardinality(Workers) \in Nat
      /\ Cardinality(Flying) \in Nat /\ Cardinality(Flying') \in Nat
      /\ Cardinality(Flying') <= Cardinality(Workers)
  BY <1>2, FlyingIs, LifecycleAssumption DEF LifeInv, TypeOK
<1>4. ASSUME NEW w \in Workers, TakesOff(w) PROVE BudgetInv'
  <2>1. Cardinality(Flying') = Cardinality(Flying) + 1
    BY <1>2, <1>4, FlyingIs DEF TakesOff
  <2> QED
    BY <1>3, <1>4, <2>1 DEF TakesOff, BudgetInv
<1>5. ASSUME NEW w \in Workers, Lands(w) PROVE BudgetInv'
  <2>1. Cardinality(Flying') = Cardinality(Flying) - 1
    BY <1>2, <1>5, FlyingIs DEF Lands
  <2> QED
    BY <1>3, <1>5, <2>1 DEF Lands, BudgetInv
<1>6. CASE FliesOn
  BY <1>6 DEF FliesOn, BudgetInv, calls
<1> QED
  BY <1>1, <1>4, <1>5, <1>6

\* The executions of a run that are counted, or still in hand, exceed its budget by at
\* most one for each worker; all others ended without being counted (guardBudget,
\* accumulateUsage).
THEOREM OverrunCorrect == Spec => []OverrunBounded
<1>1. Init => BudgetInv
  <2> SUFFICES ASSUME Init PROVE BudgetInv
    OBVIOUS
  <2>1. Flying = {}
    BY DEF Init, Flying, InFlight, Idle
  <2> QED
    BY <2>1, FlyingIs, FS_EmptySet, LifecycleAssumption DEF Init, BudgetInv
<1>2. BudgetInv => OverrunBounded
  BY DEF BudgetInv, OverrunBounded
<1> QED
  BY <1>1, <1>2, LifeCorrect, BudgetNext, PTL DEF Spec
=============================================================================
