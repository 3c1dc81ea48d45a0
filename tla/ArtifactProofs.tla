--------------------------- MODULE ArtifactProofs ---------------------------
(***************************************************************************)
(* That the row of an artifact only moves forward, for any number of calls *)
(* that race and die.                                                      *)
(***************************************************************************)
EXTENDS Artifact, TLAPS

\* A delete that is about to mark a row has read one.
MarkKnowsRow == \A c \in Calls : At(c, "mark") => call[c].read # "ABSENT"

RowInv == TypeOK /\ MarkKnowsRow

-----------------------------------------------------------------------------
(* Where one process is                                                    *)

\* Becoming something changes one process, to a process.
LEMMA BecomeOne ==
    ASSUME TypeOK, NEW c \in Calls, NEW l \in Place, NEW r \in Row, Become(c, l, r)
    PROVE  /\ call' \in [Calls -> Process]
           /\ call'[c] = [pc |-> l, read |-> r]
           /\ \A d \in Calls : d # c => call'[d] = call[d]
BY DEF TypeOK, Become, Process

\* The row that a process remembers is a row.
LEMMA ReadRow ==
    ASSUME TypeOK, NEW c \in Calls
    PROVE  call[c].read \in Row
BY DEF TypeOK, Process

\* A process that goes somewhere else than to mark keeps the invariant on processes.
LEMMA MoveKeeps ==
    ASSUME RowInv, NEW c \in Calls, NEW l \in Place, NEW r \in Row, Become(c, l, r),
           l = "mark" => r # "ABSENT"
    PROVE  call' \in [Calls -> Process] /\ MarkKnowsRow'
<1>1. /\ call' \in [Calls -> Process]
      /\ call'[c] = [pc |-> l, read |-> r]
      /\ \A d \in Calls : d # c => call'[d] = call[d]
  BY BecomeOne DEF RowInv
<1>2. ASSUME NEW d \in Calls, call'[d].pc = "mark"
      PROVE  call'[d].read # "ABSENT"
  <2>1. CASE d = c
    BY <1>1, <1>2, <2>1
  <2>2. CASE d # c
    BY <1>1, <1>2, <2>2 DEF RowInv, MarkKnowsRow, At
  <2> QED BY <2>1, <2>2
<1> QED BY <1>1, <1>2 DEF MarkKnowsRow, At

LEMMA GotoKeeps ==
    ASSUME RowInv, NEW c \in Calls, NEW l \in Place, Goto(c, l), l # "mark"
    PROVE  call' \in [Calls -> Process] /\ MarkKnowsRow'
<1>1. call[c].read \in Row
  BY ReadRow DEF RowInv
<1> QED BY <1>1, MoveKeeps DEF Goto

LEMMA LeaveKeeps ==
    ASSUME RowInv, NEW c \in Calls, Leave(c)
    PROVE  call' \in [Calls -> Process] /\ MarkKnowsRow'
<1>1. Become(c, "idle", "ABSENT")
  BY DEF Leave, Become, Idle
<1>2. "idle" \in Place /\ "ABSENT" \in Row
  BY DEF Place, Row
<1> QED BY <1>1, <1>2, MoveKeeps

-----------------------------------------------------------------------------
(* The steps                                                               *)

\* What every step does to the stores: it keeps their types and moves the row forward.
StoresForward ==
    /\ row' \in Row
    /\ object' \in BOOLEAN /\ url' \in BOOLEAN /\ stale' \in BOOLEAN
    /\ row' # row => row' \in Forward[row]

\* A transition is a legal move if its two ends are one, and otherwise no move.
LEMMA TransitionForward ==
    ASSUME TypeOK, NEW expected, NEW to \in Lifecycle, Transition(expected, to),
           expected \in Lifecycle => to = expected \/ to \in Forward[expected],
           expected # "ABSENT"
    PROVE  row' \in Row /\ stale' \in BOOLEAN /\ (row' # row => row' \in Forward[row])
BY DEF TypeOK, Transition, Row, Lifecycle, Forward

\* Every row may be purged.
LEMMA PurgeForward ==
    ASSUME TypeOK, Purge
    PROVE  row' \in Row /\ stale' \in BOOLEAN /\ (row' # row => row' \in Forward[row])
<1>1. row' = "ABSENT" /\ stale' = FALSE /\ "ABSENT" \in Row
  BY DEF Purge, Row
<1>2. ASSUME NEW l \in Lifecycle
      PROVE  "ABSENT" \in Forward[l]
  BY DEF Lifecycle, Forward
<1>3. row \in Lifecycle \/ row = "ABSENT"
  BY DEF TypeOK, Row
<1> QED BY <1>1, <1>2, <1>3

LEMMA ReserveSteps ==
    ASSUME RowInv, NEW c \in Calls,
           Reserve(c) \/ Insert(c) \/ Begin(c) \/ Reread(c) \/ Sign(c)
    PROVE  StoresForward /\ RowInv'
<1> USE DEF RowInv
<1>1. CASE Reserve(c)
  <2>1. call' \in [Calls -> Process] /\ MarkKnowsRow'
    BY <1>1, GotoKeeps DEF Reserve, Place
  <2> QED BY <1>1, <2>1 DEF Reserve, StoresForward, TypeOK, stores
<1>2. CASE Insert(c)
  <2>1. call' \in [Calls -> Process] /\ MarkKnowsRow'
    BY <1>2, GotoKeeps DEF Insert, Place
  <2> QED BY <1>2, <2>1 DEF Insert, StoresForward, TypeOK, Row, Lifecycle, Forward
<1>3. CASE Begin(c)
  <2>1. call' \in [Calls -> Process] /\ MarkKnowsRow'
    BY <1>3, GotoKeeps DEF Begin, Place
  <2>2. row' \in Row /\ stale' \in BOOLEAN /\ (row' # row => row' \in Forward[row])
    BY <1>3, TransitionForward DEF Begin, Lifecycle, Forward
  <2> QED BY <1>3, <2>1, <2>2 DEF Begin, StoresForward, TypeOK
<1>4. CASE Reread(c)
  <2>1. call' \in [Calls -> Process] /\ MarkKnowsRow'
    BY <1>4, GotoKeeps, LeaveKeeps DEF Reread, Place
  <2> QED BY <1>4, <2>1 DEF Reread, StoresForward, TypeOK, stores
<1>5. CASE Sign(c)
  <2>1. call' \in [Calls -> Process] /\ MarkKnowsRow'
    BY <1>5, LeaveKeeps DEF Sign
  <2> QED BY <1>5, <2>1 DEF Sign, StoresForward, TypeOK
<1> QED BY <1>1, <1>2, <1>3, <1>4, <1>5

LEMMA ConfirmSteps ==
    ASSUME RowInv, NEW c \in Calls, Confirm(c) \/ Head(c) \/ Ready(c) \/ Lost(c)
    PROVE  StoresForward /\ RowInv'
<1> USE DEF RowInv
<1>1. CASE Confirm(c)
  <2>1. call' \in [Calls -> Process] /\ MarkKnowsRow'
    BY <1>1, GotoKeeps DEF Confirm, Place
  <2> QED BY <1>1, <2>1 DEF Confirm, StoresForward, TypeOK, stores
<1>2. CASE Head(c)
  <2>1. call' \in [Calls -> Process] /\ MarkKnowsRow'
    BY <1>2, GotoKeeps, LeaveKeeps DEF Head, Place
  <2> QED BY <1>2, <2>1 DEF Head, StoresForward, TypeOK, stores
<1>3. CASE Ready(c)
  <2>1. call' \in [Calls -> Process] /\ MarkKnowsRow'
    BY <1>3, LeaveKeeps DEF Ready
  <2>2. row' \in Row /\ stale' \in BOOLEAN /\ (row' # row => row' \in Forward[row])
    BY <1>3, TransitionForward DEF Ready, Lifecycle, Forward
  <2> QED BY <1>3, <2>1, <2>2 DEF Ready, StoresForward, TypeOK
<1>4. CASE Lost(c)
  <2>1. call' \in [Calls -> Process] /\ MarkKnowsRow'
    BY <1>4, LeaveKeeps DEF Lost
  <2>2. row' \in Row /\ stale' \in BOOLEAN /\ (row' # row => row' \in Forward[row])
    BY <1>4, TransitionForward DEF Lost, Lifecycle, Forward
  <2> QED BY <1>4, <2>1, <2>2 DEF Lost, StoresForward, TypeOK
<1> QED BY <1>1, <1>2, <1>3, <1>4

LEMMA DeleteSteps ==
    ASSUME RowInv, NEW c \in Calls, Delete(c) \/ Mark(c) \/ Remove(c) \/ PurgeRow(c)
    PROVE  StoresForward /\ RowInv'
<1> USE DEF RowInv
<1>1. CASE Delete(c)
  <2>1. call' \in [Calls -> Process] /\ MarkKnowsRow'
    BY <1>1, MoveKeeps DEF Delete, Place, TypeOK
  <2> QED BY <1>1, <2>1 DEF Delete, StoresForward, TypeOK, stores
<1>2. CASE Mark(c)
  <2>1. call' \in [Calls -> Process] /\ MarkKnowsRow'
    <3>1. "remove" \in Place /\ "ABSENT" \in Row
      BY DEF Place, Row
    <3> QED BY <1>2, <3>1, MoveKeeps DEF Mark
  <2>2. call[c].read # "ABSENT"
    BY <1>2 DEF Mark, MarkKnowsRow
  <2>3. row' \in Row /\ stale' \in BOOLEAN /\ (row' # row => row' \in Forward[row])
    BY <1>2, <2>2, TransitionForward DEF Mark, Lifecycle, Forward
  <2> QED BY <1>2, <2>1, <2>3 DEF Mark, StoresForward, TypeOK
<1>3. CASE Remove(c)
  <2>1. call' \in [Calls -> Process] /\ MarkKnowsRow'
    BY <1>3, GotoKeeps, LeaveKeeps DEF Remove, Place
  <2> QED BY <1>3, <2>1 DEF Remove, StoresForward, TypeOK
<1>4. CASE PurgeRow(c)
  <2>1. call' \in [Calls -> Process] /\ MarkKnowsRow'
    BY <1>4, LeaveKeeps DEF PurgeRow
  <2> QED BY <1>4, <2>1, PurgeForward DEF PurgeRow, StoresForward, TypeOK
<1> QED BY <1>1, <1>2, <1>3, <1>4

\* reconcile leaves the calls alone.
LEMMA RepairSteps ==
    ASSUME RowInv, Repair \/ ReconcileFails
    PROVE  StoresForward /\ RowInv'
<1> USE DEF RowInv
<1>1. UNCHANGED call
  BY DEF Repair, ReconcileFails, List, Exists, MarkLost, RemoveAgain, PurgeAgain,
         MarkStalled
<1>2. MarkKnowsRow'
  BY <1>1 DEF MarkKnowsRow, At
<1>3. recon' \in Process
  BY DEF Repair, ReconcileFails, List, Exists, MarkLost, RemoveAgain, PurgeAgain,
         MarkStalled, ReconcileTo, Reconciled, Repairs, Idle, TypeOK, Process, Place, Row
<1>4. StoresForward
  <2>1. CASE List \/ Exists \/ ReconcileFails
    BY <2>1 DEF List, Exists, ReconcileFails, StoresForward, TypeOK, stores
  <2>2. CASE MarkLost
    <3>1. row' \in Row /\ stale' \in BOOLEAN /\ (row' # row => row' \in Forward[row])
      BY <2>2, TransitionForward DEF MarkLost, Lifecycle, Forward
    <3> QED BY <2>2, <3>1 DEF MarkLost, StoresForward, TypeOK
  <2>3. CASE RemoveAgain
    BY <2>3 DEF RemoveAgain, StoresForward, TypeOK
  <2>4. CASE PurgeAgain
    BY <2>4, PurgeForward DEF PurgeAgain, StoresForward, TypeOK
  <2>5. CASE MarkStalled
    <3>1. row' \in Row /\ stale' \in BOOLEAN /\ (row' # row => row' \in Forward[row])
      BY <2>5, TransitionForward DEF MarkStalled, Lifecycle, Forward
    <3> QED BY <2>5, <3>1 DEF MarkStalled, StoresForward, TypeOK
  <2> QED BY <2>1, <2>2, <2>3, <2>4, <2>5 DEF Repair
<1> QED BY <1>1, <1>2, <1>3, <1>4 DEF StoresForward, TypeOK

LEMMA OutsideSteps ==
    ASSUME RowInv, Put \/ ExpireUrl \/ GraceOver
    PROVE  StoresForward /\ RowInv'
<1> USE DEF RowInv
<1>1. UNCHANGED <<row, call, recon>>
  BY DEF Put, ExpireUrl, GraceOver
<1>2. MarkKnowsRow'
  BY <1>1 DEF MarkKnowsRow, At
<1> QED BY <1>1, <1>2 DEF Put, ExpireUrl, GraceOver, StoresForward, TypeOK

LEMMA CrashSteps ==
    ASSUME RowInv, NEW c \in Calls, Crash(c)
    PROVE  StoresForward /\ RowInv'
<1> USE DEF RowInv
<1>1. "dead" \in Place /\ "ABSENT" \in Row
  BY DEF Place, Row
<1>2. call' \in [Calls -> Process] /\ MarkKnowsRow'
  BY <1>1, MoveKeeps DEF Crash
<1> QED BY <1>2 DEF Crash, StoresForward, TypeOK, stores

\* Every step keeps the invariant and moves the row forward.
LEMMA EveryStep ==
    ASSUME ArtifactAssumption, RowInv, [Next]_vars
    PROVE  RowInv' /\ (row' # row => row' \in Forward[row])
<1>1. CASE \E c \in Calls : Serve(c)
  BY <1>1, ReserveSteps, ConfirmSteps, DeleteSteps DEF Serve, StoresForward
<1>2. CASE Repair \/ ReconcileFails
  BY <1>2, RepairSteps DEF StoresForward
<1>3. CASE Put \/ ExpireUrl \/ GraceOver
  BY <1>3, OutsideSteps DEF StoresForward
<1>4. CASE \E c \in Mortal : Crash(c)
  BY <1>4, CrashSteps DEF StoresForward, ArtifactAssumption
<1>5. CASE UNCHANGED vars
  BY <1>5 DEF vars, stores, RowInv, TypeOK, MarkKnowsRow, At
<1> QED BY <1>1, <1>2, <1>3, <1>4, <1>5 DEF Next

LEMMA InitRow == Init => RowInv
<1> SUFFICES ASSUME Init
             PROVE  RowInv
  OBVIOUS
<1>1. Idle \in Process /\ Idle.pc # "mark"
  BY DEF Idle, Process, Place, Row
<1> QED BY <1>1 DEF Init, RowInv, TypeOK, MarkKnowsRow, At, Row

\* Type correctness of the artifact's row, its object and the calls of ArtifactService.
THEOREM ArtifactTypeCorrect == Spec => []TypeOK
<1>1. Init => RowInv
  BY InitRow
<1>2. RowInv /\ [Next]_vars => RowInv'
  BY EveryStep, ArtifactAssumption
<1>3. RowInv => TypeOK
  BY DEF RowInv
<1> QED BY <1>1, <1>2, <1>3, PTL DEF Spec

\* The row of an artifact only moves forward: nothing comes back from FAILED or
\* DELETING, for any number of calls of ArtifactService and any interleaving of them
\* with reconcile.
THEOREM ForwardCorrect == Spec => MovesForward
<1>1. Init => RowInv
  BY InitRow
<1>2. RowInv /\ [Next]_vars => RowInv'
  BY EveryStep, ArtifactAssumption
<1>3. RowInv /\ [Next]_vars => [row' # row => row' \in Forward[row]]_vars
  BY EveryStep, ArtifactAssumption
<1> QED BY <1>1, <1>2, <1>3, PTL DEF Spec, MovesForward
=============================================================================
