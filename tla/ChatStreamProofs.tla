--------------------------- MODULE ChatStreamProofs ---------------------------
(***************************************************************************)
(* The run that answers in a chat is the one in its slot, for any number   *)
(* of requests and of pages.  Nobody but the run itself, or a handler that *)
(* knows that it is over, takes the slot from it; so the invariant has to  *)
(* say what a handler knows of the run it has read.                        *)
(***************************************************************************)
EXTENDS ChatStream, TLAPS

\* A request starts one run.
FreshRuns ==
    \A p \in Requests :
        request[p].pc \in {"new", "check", "clear", "again", "start"} => work[p] = "none"

\* Only runs that have been started get into the slot, and so into the hands of clients.
Begun(r) == r \in Runs /\ status[r] # "none"

BegunRuns ==
    /\ \A r \in Runs : work[r] # "none" <=> Begun(r)
    /\ \A p \in Requests : request[p].pc = "claim" => Begun(p)
    /\ slot # NoRun => Begun(slot)
    /\ \A c \in Clients : client[c].pc # "idle" => Begun(client[c].read)

\* A run that has ended does not work any more.
EndedRuns == \A r \in Runs : status[r] = "ended" => work[r] = "over"

\* A client that has stopped a run knows that it is over.
StoppedRuns ==
    \A c \in Clients : client[c].pc = "stopped" => status[client[c].read] \in Over

ChatInv == /\ TypeOK /\ FreshRuns /\ BegunRuns /\ EndedRuns /\ StoppedRuns
           /\ AnsweringOwns

-----------------------------------------------------------------------------
(* The types                                                               *)

\* The operations on the slot leave a run or nothing in it.
LEMMA SlotType ==
    ASSUME slot \in Slot, NEW r \in Runs
    PROVE  /\ Claim(r) => slot' \in {slot, r}
           /\ \A x : ClearOf(x) => slot' \in {slot, NoRun}
           /\ Empty => slot' \in Slot
BY DEF Claim, ClearOf, Empty, Slot

\* A step of a run keeps the types.
LEMMA StepType ==
    ASSUME TypeOK, NEW r \in Runs, Step(r)
    PROVE  TypeOK'
<1> USE DEF TypeOK, Answers
<1>1. CASE SelfClaim(r)
  BY <1>1, SlotType DEF SelfClaim, Does, Slot
<1>2. CASE ClaimFails(r)
  BY <1>2 DEF ClaimFails, Does
<1>3. CASE SelfClear(r)
  BY <1>3, SlotType DEF SelfClear, Leaves, Does, Slot
<1>4. CASE Exit(r)
  BY <1>4 DEF Exit, Leaves, Does, Over
<1>5. CASE Halt(r)
  BY <1>5 DEF Halt, Leaves, Does
<1> QED
  BY <1>1, <1>2, <1>3, <1>4, <1>5 DEF Step

\* So does a step of a request,
LEMMA RequestType ==
    ASSUME TypeOK, FreshRuns, NEW p \in Requests, Handle(p) \/ TornDown(p)
    PROVE  TypeOK'
<1>0. 1 \in 1 .. Tries /\ \A t \in 1 .. Tries : t < Tries => t + 1 \in 1 .. Tries
  BY ChatAssumption
<1> USE DEF TypeOK, Answers
<1>1. CASE Post(p)
  BY <1>0, <1>1 DEF Post, runs
<1>2. CASE Check(p) \/ CheckFails(p) \/ TornDown(p)
  BY <1>0, <1>2 DEF Check, CheckFails, TornDown, Goes, Leaps, Slot, runs
<1>3. CASE ClearStale(p)
  <2>1. slot' \in Slot
    BY <1>3, SlotType DEF ClearStale, Slot, Runs
  <2>2. adrift' \subseteq {r \in Runs : Answers(r)'}
    BY <1>3 DEF ClearStale, Cut, Answers, runs
  <2> QED
    BY <1>0, <1>3, <2>1, <2>2 DEF ClearStale, Goes, Leaps, Slot, runs
<1>4. CASE Again(p)
  BY <1>0, <1>4 DEF Again, TriesLeft, Leaps, Slot, runs, Answers
<1>5. CASE Start(p)
  <2>1. work[p] = "none"
    BY <1>5 DEF Start, FreshRuns
  <2>2. adrift' \subseteq {r \in Runs : Answers(r)'}
    BY <1>5, <2>1 DEF Start, Does, Answers, Runs
  <2> QED
    BY <1>5, <2>2 DEF Start, Does, Goes, Runs
<1>6. CASE ClaimFor(p)
  BY <1>6, SlotType DEF ClaimFor, Goes, Slot, Runs, runs, Answers
<1>7. CASE CancelDuplicate(p)
  BY <1>7 DEF CancelDuplicate, Cancelled, Goes, Over, Answers
<1> QED
  BY <1>1, <1>2, <1>3, <1>4, <1>5, <1>6, <1>7 DEF Handle

\* and of a page.
LEMMA ClientType ==
    ASSUME TypeOK, NEW c \in Clients, View(c) \/ Stop(c) \/ Visit(c)
    PROVE  TypeOK'
<1> USE DEF TypeOK, Answers
<1>1. CASE View(c) \/ Stop(c)
  BY <1>1 DEF View, Stop, Calls, runs
<1>2. CASE Look(c) \/ LookFails(c)
  BY <1>2 DEF Look, LookFails, Moves, Hangs, Idle, Slot, runs
<1>3. CASE ClearSeen(c)
  <2>1. adrift' \subseteq {r \in Runs : Answers(r)'}
    BY <1>3 DEF ClearSeen, Cut, runs
  <2> QED
    BY <1>3, <2>1 DEF ClearSeen, Empty, Hangs, Idle, Slot, runs
<1>4. CASE CancelRun(c)
  BY <1>4 DEF CancelRun, Cancelled, Moves, Hangs, Idle, Slot, Over
<1>5. CASE ClearStopped(c)
  BY <1>5, SlotType DEF ClearStopped, ClearOf, Hangs, Idle, Slot, runs
<1> QED
  BY <1>1, <1>2, <1>3, <1>4, <1>5 DEF Visit

-----------------------------------------------------------------------------
(* Who has begun, who is over                                              *)

\* A run never returns to having not begun.
Onward == \A r \in Runs : Begun(r) => Begun(r)'

LEMMA RunsOnward ==
    ASSUME TypeOK, Next
    PROVE  Onward
<1>1. ASSUME NEW r \in Runs, Step(r) PROVE Onward
  BY <1>1 DEF Onward, Begun, Step, SelfClaim, ClaimFails, SelfClear, Exit, Halt, TypeOK, Live
<1>2. ASSUME NEW p \in Requests, Handle(p) \/ TornDown(p) PROVE Onward
  BY <1>2
     DEF Onward, Begun, Handle, Post, Check, CheckFails, ClearStale, Again, Start, ClaimFor,
         CancelDuplicate, Cancelled, TornDown, TypeOK, Live, runs
<1>3. ASSUME NEW c \in Clients, View(c) \/ Stop(c) \/ Visit(c) PROVE Onward
  BY <1>3
     DEF Onward, Begun, View, Stop, Visit, Look, LookFails, ClearSeen, CancelRun,
         ClearStopped, Cancelled, TypeOK, Live, runs
<1> QED
  BY <1>1, <1>2, <1>3 DEF Next

\* A step of a run keeps everything.
LEMMA StepKeeps ==
    ASSUME ChatInv, Next, NEW r \in Runs, Step(r)
    PROVE  ChatInv'
<1> USE DEF ChatInv
<1>0. TypeOK' /\ Onward
  BY StepType, RunsOnward
<1>1. /\ Begun(r) /\ work[r] # "none" /\ work'[r] # "none"
      /\ \A s \in Runs \ {r} : work'[s] = work[s]
  BY DEF TypeOK, BegunRuns, Begun, Step, SelfClaim, ClaimFails, SelfClear, Exit, Halt, Does,
         Leaves
<1>2. FreshRuns'
  BY <1>0, <1>1
     DEF FreshRuns, Runs, Step, SelfClaim, ClaimFails, SelfClear, Exit, Halt
<1>3. slot' \in {slot, r, NoRun} /\ UNCHANGED <<request, client>>
  BY DEF Step, SelfClaim, ClaimFails, SelfClear, Exit, Halt, Claim, ClearOf
<1>4. /\ work'[r] = "over" \/ status' = status
      /\ \A s \in Runs \ {r} : status'[s] = status[s]
      /\ status[r] \in Over => status'[r] \in Over
  BY DEF Step, SelfClaim, ClaimFails, SelfClear, Exit, Halt, Leaves, Does, TypeOK, Live, Over
<1>5. BegunRuns'
  BY <1>0, <1>1, <1>3, <1>4 DEF BegunRuns, Onward, Runs, Begun
<1>6. EndedRuns'
  <2>1. status[r] = "ended" => work'[r] = "over"
    BY DEF EndedRuns, Step, SelfClaim, ClaimFails, SelfClear, Exit, Halt, Leaves, Does, TypeOK
  <2> QED
    BY <1>1, <1>4, <2>1 DEF EndedRuns
<1>7. StoppedRuns'
  BY <1>3, <1>4 DEF StoppedRuns, BegunRuns, Begun
<1>8. AnsweringOwns'
  <2> SUFFICES ASSUME NEW s \in Runs, Answering(s)', s \notin adrift' PROVE slot' = s
    BY DEF AnsweringOwns
  <2>1. CASE SelfClaim(r)
    BY <2>1, ChatAssumption
       DEF SelfClaim, Claim, Free, Does, AnsweringOwns, Answering, Answers, TypeOK, Runs
  <2>2. CASE ClaimFails(r)
    BY <2>2 DEF ClaimFails, Does, AnsweringOwns, Answering, Answers, TypeOK
  <2>3. CASE SelfClear(r)
    BY <2>3 DEF SelfClear, Leaves, Does, ClearOf, AnsweringOwns, Answering, Answers, TypeOK
  <2>4. CASE Exit(r)
    BY <2>4 DEF Exit, Leaves, Does, AnsweringOwns, Answering, Answers, TypeOK
  <2>5. CASE Halt(r)
    BY <2>5 DEF Halt, Leaves, Does, AnsweringOwns, Answering, Answers, TypeOK
  <2> QED
    BY <2>1, <2>2, <2>3, <2>4, <2>5 DEF Step
<1> QED
  BY <1>0, <1>2, <1>5, <1>6, <1>7, <1>8

\* A step of a request keeps everything: the slot is claimed when nobody is in it, and
\* cleared of a run that does not answer or is adrift from then on.
LEMMA RequestKeeps ==
    ASSUME ChatInv, Next, NEW p \in Requests, Handle(p) \/ TornDown(p)
    PROVE  ChatInv'
<1> USE DEF ChatInv
<1>0. TypeOK' /\ Onward /\ UNCHANGED client
  BY RequestType, RunsOnward
     DEF Handle, Post, Check, CheckFails, ClearStale, Again, Start, ClaimFor,
         CancelDuplicate, TornDown
<1>1. CASE Start(p)
  <2>1. work[p] = "none" /\ UNCHANGED <<slot, client, adrift>>
    BY <1>1 DEF Start, FreshRuns
  <2>2. /\ work'[p] = "claim" /\ status'[p] = "live" /\ request'[p].pc = "claim"
        /\ \A s \in Runs \ {p} : /\ work'[s] = work[s] /\ status'[s] = status[s]
                                 /\ request'[s] = request[s]
    BY <1>1 DEF Start, Does, Goes, TypeOK, Runs
  <2>3. EndedRuns' /\ FreshRuns'
    BY <2>2 DEF EndedRuns, FreshRuns, Runs
  <2>4. BegunRuns'
    BY <1>0, <2>1, <2>2 DEF BegunRuns, Onward, Begun, Runs
  <2>5. StoppedRuns'
    BY <1>0, <2>1, <2>2 DEF StoppedRuns, BegunRuns, Begun, EndedRuns, Over
  <2>6. AnsweringOwns'
    BY <2>1, <2>2 DEF AnsweringOwns, Answering, Answers, Runs
  <2> QED
    BY <1>0, <2>3, <2>4, <2>5, <2>6
<1>2. CASE CancelDuplicate(p)
  <2>1. /\ UNCHANGED <<slot, work, client, adrift>>
        /\ \A s \in Runs : status'[s] # status[s] => status[s] = "live" /\ status'[s] = "cancelled"
        /\ request'[p].pc = "done" /\ \A q \in Requests \ {p} : request'[q] = request[q]
    BY <1>2 DEF CancelDuplicate, Cancelled, Live, Goes, TypeOK
  <2>2. FreshRuns' /\ EndedRuns'
    BY <2>1 DEF FreshRuns, EndedRuns
  <2>3. BegunRuns'
    BY <1>0, <2>1 DEF BegunRuns, Onward, Begun, Runs
  <2>4. StoppedRuns'
    BY <2>1 DEF StoppedRuns, BegunRuns, Begun, Over
  <2>5. AnsweringOwns'
    BY <2>1 DEF AnsweringOwns, Answering, Answers
  <2> QED
    BY <1>0, <2>2, <2>3, <2>4, <2>5
<1>3. CASE \/ Post(p) \/ Check(p) \/ CheckFails(p) \/ ClearStale(p) \/ Again(p)
           \/ ClaimFor(p) \/ TornDown(p)
  <2>1. /\ UNCHANGED <<status, work>>
        /\ \A q \in Requests \ {p} : request'[q] = request[q]
    BY <1>3 DEF Post, Check, CheckFails, ClearStale, Again, ClaimFor, TornDown, Goes, Leaps,
                TypeOK, runs
  <2>2. /\ request'[p].pc # "claim"
        /\ request'[p].pc \in {"new", "check", "clear", "again", "start"}
             => request[p].pc \in {"new", "check", "clear", "again", "start"}
    BY <1>3 DEF Post, Check, CheckFails, ClearStale, Again, ClaimFor, TornDown, Goes, Leaps,
                TypeOK
  <2>3. FreshRuns' /\ EndedRuns' /\ StoppedRuns'
    BY <1>0, <2>1, <2>2 DEF FreshRuns, EndedRuns, StoppedRuns
  <2>4. slot' = slot \/ slot' = NoRun \/ (slot' = p /\ ClaimFor(p))
    BY <1>3 DEF Post, Check, CheckFails, ClearStale, Again, ClaimFor, TornDown, ClearOf, Claim
  <2>5. BegunRuns'
    BY <1>0, <2>1, <2>2, <2>4 DEF BegunRuns, Onward, Begun, Runs, ClaimFor
  <2>6. AnsweringOwns'
    <3> SUFFICES ASSUME NEW s \in Runs, Answering(s)', s \notin adrift' PROVE slot' = s
      BY DEF AnsweringOwns
    <3>1. CASE ClaimFor(p)
      BY <2>1, <3>1, ChatAssumption
         DEF ClaimFor, Claim, Free, AnsweringOwns, Answering, Answers, Runs
    <3>2. CASE ClearStale(p)
      BY <2>1, <3>2 DEF ClearStale, ClearOf, Cut, AnsweringOwns, Answering, Answers
    <3>3. CASE \/ Post(p) \/ Check(p) \/ CheckFails(p) \/ Again(p) \/ TornDown(p)
      BY <2>1, <3>3
         DEF Post, Check, CheckFails, Again, TornDown, AnsweringOwns, Answering, Answers
    <3> QED
      BY <1>3, <3>1, <3>2, <3>3
  <2> QED
    BY <1>0, <2>3, <2>5, <2>6
<1> QED
  BY <1>1, <1>2, <1>3 DEF Handle

\* A page keeps everything: it clears the slot of a run it has stopped, or sets the run
\* adrift.
LEMMA ClientKeeps ==
    ASSUME ChatInv, Next, NEW c \in Clients, View(c) \/ Stop(c) \/ Visit(c)
    PROVE  ChatInv'
<1> USE DEF ChatInv
<1>0. TypeOK' /\ Onward
  BY ClientType, RunsOnward
<1>1. /\ UNCHANGED <<work, request>>
      /\ slot' = slot \/ slot' = NoRun
      /\ \A s \in Runs : status'[s] # status[s] => status[s] = "live" /\ status'[s] = "cancelled"
  BY DEF View, Stop, Visit, Look, LookFails, ClearSeen, CancelRun, ClearStopped, Cancelled,
         Empty, ClearOf, Live, TypeOK, runs
<1>2. FreshRuns' /\ EndedRuns'
  BY <1>1 DEF FreshRuns, EndedRuns
<1>3. /\ \A d \in Clients \ {c} : client'[d] = client[d]
      /\ client'[c].pc # "idle" => \/ client[c].pc # "idle" /\ client'[c].read = client[c].read
                                   \/ slot # NoRun /\ client'[c].read = slot
  BY DEF View, Stop, Visit, Look, LookFails, ClearSeen, CancelRun, ClearStopped,
         Calls, Moves, Hangs, Idle, TypeOK
<1>4. BegunRuns'
  BY <1>0, <1>1, <1>3 DEF BegunRuns, Onward, Begun, Runs
<1>5. StoppedRuns'
  <2>1. \A x \in Runs : status[x] \in Over => status'[x] \in Over
    BY <1>1 DEF Over
  <2>2. client'[c].pc = "stopped" => status'[client'[c].read] \in Over
    <3> SUFFICES ASSUME client'[c].pc = "stopped" PROVE status'[client'[c].read] \in Over
      OBVIOUS
    <3>1. CancelRun(c) /\ Cancelled(client[c].read) /\ client'[c].read = client[c].read
      BY DEF View, Stop, Visit, Look, LookFails, ClearSeen, CancelRun, ClearStopped,
             Calls, Moves, Hangs, Idle, TypeOK
    <3>2. Begun(client[c].read)
      BY <3>1 DEF CancelRun, BegunRuns
    <3> QED
      BY <3>1, <3>2 DEF Cancelled, Live, Begun, Over, TypeOK
  <2> QED
    BY <1>1, <1>3, <2>1, <2>2 DEF StoppedRuns, BegunRuns, Begun
<1>6. AnsweringOwns'
  <2> SUFFICES ASSUME NEW s \in Runs, Answering(s)', s \notin adrift' PROVE slot' = s
    BY DEF AnsweringOwns
  <2>1. Answers(s) /\ status[s] # "cancelled" /\ status[s] # "ended"
    BY <1>1 DEF Answering, Answers, EndedRuns
  <2>2. CASE ClearSeen(c)
    BY <2>1, <2>2 DEF ClearSeen, Empty, Cut, AnsweringOwns, Answering
  <2>3. CASE ClearStopped(c)
    <3>1. status[client[c].read] \in Over
      BY <2>3 DEF ClearStopped, StoppedRuns
    <3> QED
      BY <2>1, <2>3, <3>1 DEF ClearStopped, ClearOf, AnsweringOwns, Answering, Over
  <2>4. CASE View(c) \/ Stop(c) \/ Look(c) \/ LookFails(c) \/ CancelRun(c)
    BY <2>1, <2>4 DEF View, Stop, Look, LookFails, CancelRun, AnsweringOwns, Answering
  <2> QED
    BY <2>2, <2>3, <2>4 DEF Visit
<1> QED
  BY <1>0, <1>2, <1>4, <1>5, <1>6

-----------------------------------------------------------------------------
LEMMA ChatInit == Init => ChatInv
BY ChatAssumption
   DEF Init, ChatInv, TypeOK, FreshRuns, BegunRuns, Begun, EndedRuns, StoppedRuns, AnsweringOwns,
       Answering, Answers, Idle, Slot, Runs

LEMMA ChatNext == ChatInv /\ [Next]_vars => ChatInv'
<1> SUFFICES ASSUME ChatInv, [Next]_vars PROVE ChatInv'
  OBVIOUS
<1>1. CASE UNCHANGED vars
  BY <1>1 DEF vars, runs, ChatInv, TypeOK, FreshRuns, BegunRuns, Begun, EndedRuns, StoppedRuns,
              AnsweringOwns, Answering, Answers
<1>2. CASE Next
  BY <1>2, StepKeeps, RequestKeeps, ClientKeeps DEF Next
<1> QED
  BY <1>1, <1>2

\* A run that answers in a chat owns it, for any number of requests, runs and pages and
\* whichever of them fail half-way.
THEOREM OwnerCorrect == Spec => []AnsweringOwns
<1>1. ChatInv => AnsweringOwns
  BY DEF ChatInv
<1> QED
  BY <1>1, ChatInit, ChatNext, PTL DEF Spec

\* Every reachable state is well typed; in particular no run is adrift that does not answer.
THEOREM ChatTypeCorrect == Spec => []TypeOK
<1>1. ChatInv => TypeOK
  BY DEF ChatInv
<1> QED
  BY <1>1, ChatInit, ChatNext, PTL DEF Spec
=============================================================================
