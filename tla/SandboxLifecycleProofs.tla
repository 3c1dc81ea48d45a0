----------------------- MODULE SandboxLifecycleProofs -----------------------
(***************************************************************************)
(* That the row does not forget a sandbox that runs and was saved, for any *)
(* number of kicks, runs, evaluations and requests of the user at once.    *)
(***************************************************************************)
EXTENDS SandboxLifecycle, TLAPS

\* A sandbox that runs although somebody is about to write that it was stopped has been
\* started since.
CrossInv == box /\ Stopped => crossed

BoxInv == CrossInv /\ RowKnowsBox

States == {"provisioning", "active", "hibernating", "hibernated", "failed"}

-----------------------------------------------------------------------------
(* Types                                                                   *)

\* A refreshed row has its types.
LEMMA RefreshTypes ==
    ASSUME Refresh
    PROVE  state' \in States /\ due' \in 0 .. 2 /\ marred' \in BOOLEAN
<1>1. 0 \in 0 .. 2
  OBVIOUS
<1> QED BY <1>1 DEF Refresh, States

\* So has that of a hibernated session.
LEMMA HibernatedTypes ==
    ASSUME Hibernated
    PROVE  /\ state' \in States /\ live' \in BOOLEAN /\ lease' = NoRun
           /\ due' \in 0 .. 2 /\ marred' \in BOOLEAN
<1>1. 0 \in 0 .. 2
  OBVIOUS
<1> QED BY <1>1 DEF Hibernated, States

\* Every step of kicks, runs, chats and requests keeps the types.
LEMMA TypeKept ==
    ASSUME TypeOK, [Next]_vars
    PROVE  TypeOK'
<1>1. ASSUME NEW r \in Runs, Kick(r) PROVE TypeOK'
  BY <1>1 DEF Kick, Goto, Stale, row, users, history, TypeOK, Young, Evaluating, States
<1>2. ASSUME NEW r \in Runs, Unstale(r) PROVE TypeOK'
  BY <1>2
     DEF Unstale, Goto, Young, row, users, history, TypeOK, Young, Evaluating,
         States
<1>3. ASSUME NEW r \in Runs, Claim(r) PROVE TypeOK'
  BY <1>3 DEF Claim, Goto, row, users, history, TypeOK, Young, Evaluating, States
<1>4. ASSUME NEW r \in Runs, StartRun(r) PROVE TypeOK'
  BY <1>4 DEF StartRun, Goto, row, users, history, TypeOK, Young, Evaluating, States
<1>5. ASSUME NEW r \in Runs, Fallback(r) PROVE TypeOK'
  BY <1>5 DEF Fallback, Goto, row, users, history, TypeOK, Young, Evaluating, States
<1>6. ASSUME NEW r \in Runs, Drop(r) PROVE TypeOK'
  BY <1>6 DEF Drop, Goto, row, users, history, TypeOK, Young, Evaluating, States
<1>7. ASSUME NEW r \in Runs, Decide(r) PROVE TypeOK'
  BY <1>7 DEF Decide, Goto, row, users, history, TypeOK, Young, Evaluating, States
<1>8. ASSUME NEW r \in Runs, ReadLease(r) PROVE TypeOK'
  BY <1>8 DEF ReadLease, Goto, row, users, history, TypeOK, Young, Evaluating, States
<1>9. ASSUME NEW r \in Runs, Take(r) PROVE TypeOK'
  BY <1>9 DEF Take, Goto, row, users, history, TypeOK, Young, Evaluating, States
<1>10. ASSUME NEW r \in Runs, Verify(r) PROVE TypeOK'
  BY <1>10 DEF Verify, Goto, row, users, history, TypeOK, Young, Evaluating, States
<1>11. ASSUME NEW r \in Runs, Release(r) PROVE TypeOK'
  BY <1>11 DEF Release, Goto, row, users, history, TypeOK, Young, Evaluating, States
<1>12. ASSUME NEW r \in Runs, Unlease(r) PROVE TypeOK'
  BY <1>12 DEF Unlease, Goto, row, users, history, TypeOK, Young, Evaluating, States
<1>13. ASSUME NEW r \in Runs, Evaluate(r) PROVE TypeOK'
  BY <1>13
     DEF Evaluate, Ends, Goto, row, users, history, TypeOK, Young, Evaluating,
         States
<1>14. ASSUME NEW r \in Runs, Look(r) PROVE TypeOK'
  BY <1>14 DEF Look, Ends, Goto, row, users, history, TypeOK, Young, Evaluating, States
<1>15. ASSUME NEW r \in Runs, Mark(r) PROVE TypeOK'
  BY <1>15 DEF Mark, Goto, row, users, history, TypeOK, Young, Evaluating, States
<1>16. ASSUME NEW r \in Runs, Recheck(r) PROVE TypeOK'
  BY <1>16 DEF Recheck, Goto, row, users, history, TypeOK, Young, Evaluating, States
<1>17. ASSUME NEW r \in Runs, Reread(r) PROVE TypeOK'
  BY <1>17 DEF Reread, Goto, row, users, history, TypeOK, Young, Evaluating, States
<1>18. ASSUME NEW r \in Runs, Restore(r) PROVE TypeOK'
  BY <1>18
     DEF Restore, Ends, Goto, row, users, history, TypeOK, Young, Evaluating, States
<1>19. ASSUME NEW r \in Runs, Stop(r) PROVE TypeOK'
  BY <1>19
     DEF Stop, StopBox, Goto, row, users, history, TypeOK, Young, Evaluating, States
<1>20. ASSUME NEW r \in Runs, Record(r) PROVE TypeOK'
  BY <1>20, HibernatedTypes
     DEF Record, Hibernated, Ends, Goto, row, users, history, TypeOK, Young,
         Evaluating, States
<1>21. ASSUME NEW r \in Runs, Fail(r) PROVE TypeOK'
  BY <1>21 DEF Fail, Ends, Goto, row, users, history, TypeOK, Young, Evaluating, States
<1>22. ASSUME NEW r \in Runs, TornDown(r) PROVE TypeOK'
  BY <1>22 DEF TornDown, Goto, row, users, history, TypeOK, Young, Evaluating, States
<1>23. CASE ClaimSlot
  BY <1>23 DEF ClaimSlot, row, users, history, TypeOK, Young, Evaluating, States
<1>24. CASE ClearSlot
  BY <1>24 DEF ClearSlot, row, users, history, TypeOK, Young, Evaluating, States
<1>25. CASE Ask
  BY <1>25 DEF Ask, Speaks, row, users, history, TypeOK, Young, Evaluating, States
<1>26. CASE Attach
  BY <1>26 DEF Attach, Speaks, row, users, history, TypeOK, Young, Evaluating, States
<1>27. CASE Provision
  BY <1>27
     DEF Provision, Start, SetUpFails, Speaks, row, users, history, TypeOK, Young,
         Evaluating, States
<1>28. CASE Provisioned
  BY <1>28, RefreshTypes
     DEF Provisioned, SaveLive, Refresh, LoseSave, SetUpFails, Speaks, row, users,
         history, TypeOK, Young, Evaluating, States
<1>29. CASE Answered
  BY <1>29, RefreshTypes
     DEF Answered, Refresh, Speaks, row, users, history, TypeOK, Young, Evaluating,
         States
<1>30. CASE LookAtBox
  BY <1>30 DEF LookAtBox, Speaks, row, users, history, TypeOK, Young, Evaluating, States
<1>31. CASE Persist
  BY <1>31, RefreshTypes
     DEF Persist, SaveLive, Refresh, Speaks, row, users, history, TypeOK, Young,
         Evaluating, States
<1>32. CASE Leave
  BY <1>32 DEF Leave, Speaks, row, users, history, TypeOK, Young, Evaluating, States
<1>33. ASSUME NEW q \in Requests, Connect(q) PROVE TypeOK'
  <2>1. box' \in BOOLEAN /\ crossed' \in BOOLEAN
    BY <1>33, Zenon DEF Connect, Start, TypeOK
  <2>2. req' \in [Requests -> {"none", "save", "record", "seen", "mend"}]
    BY <1>33 DEF Connect, Asks, TypeOK
  <2> QED BY <1>33, <2>1, <2>2 DEF Connect, Asks, row, TypeOK
<1>34. ASSUME NEW q \in Requests, Save(q) PROVE TypeOK'
  BY <1>34, RefreshTypes
     DEF Save, SaveLive, Refresh, Asks, row, users, history, TypeOK, Young,
         Evaluating, States
<1>35. ASSUME NEW q \in Requests, Pause(q) PROVE TypeOK'
  BY <1>35
     DEF Pause, StopBox, Asks, row, users, history, TypeOK, Young, Evaluating,
         States
<1>36. ASSUME NEW q \in Requests, RecordPause(q) PROVE TypeOK'
  BY <1>36, HibernatedTypes
     DEF RecordPause, Hibernated, Asks, row, users, history, TypeOK, Young,
         Evaluating, States
<1>37. ASSUME NEW q \in Requests, Reconnect(q) PROVE TypeOK'
  BY <1>37 DEF Reconnect, Asks, row, users, history, TypeOK, Young, Evaluating, States
<1>38. ASSUME NEW q \in Requests, WriteBack(q) PROVE TypeOK'
  BY <1>38 DEF WriteBack, Asks, row, users, history, TypeOK, Young, Evaluating, States
<1>39. ASSUME NEW q \in Requests, LoseRequest(q) PROVE TypeOK'
  BY <1>39
     DEF LoseRequest, LoseSave, Asks, row, users, history, TypeOK, Young,
         Evaluating, States
<1>40. CASE Activity
  BY <1>40, RefreshTypes
     DEF Activity, Refresh, row, users, history, TypeOK, Young, Evaluating, States
<1>41. CASE Recover
  BY <1>41 DEF Recover, row, users, history, TypeOK, Young, Evaluating, States
<1>42. CASE Tick
  BY <1>42 DEF Tick, row, users, history, TypeOK, Young, Evaluating, States
<1>43. CASE Expire
  BY <1>43 DEF Expire, StopBox, row, users, history, TypeOK, Young, Evaluating, States
<1>44. CASE UNCHANGED vars
  BY <1>44 DEF vars, row, users, history, TypeOK, Young, Evaluating, States
<1> QED
  BY <1>1, <1>2, <1>3, <1>4, <1>5, <1>6, <1>7, <1>8, <1>9, <1>10, <1>11, <1>12, <1>13,
     <1>14, <1>15, <1>16, <1>17, <1>18, <1>19, <1>20, <1>21, <1>22, <1>23, <1>24, <1>25,
     <1>26, <1>27, <1>28, <1>29, <1>30, <1>31, <1>32, <1>33, <1>34, <1>35, <1>36, <1>37,
     <1>38, <1>39, <1>40, <1>41, <1>42, <1>43, <1>44, LifecycleAssumption
     DEF Next, GoesOn, Handle, Workflow, Evaluates, Chat, Serve

-----------------------------------------------------------------------------
(* The row knows the sandbox                                               *)

\* Whoever makes the row forget the sandbox has stopped it, or crossed says that it was
\* started since.
LEMMA BoxKept ==
    ASSUME TypeOK, BoxInv, [Next]_vars
    PROVE  BoxInv'
<1>1. ASSUME NEW r \in Runs, Kick(r) PROVE BoxInv'
  BY <1>1
     DEF Kick, Goto, Stale, row, users, history, TypeOK, BoxInv, CrossInv,
         RowKnowsBox, Stopped, Young, Evaluating
<1>2. ASSUME NEW r \in Runs, Unstale(r) PROVE BoxInv'
  BY <1>2
     DEF Unstale, Goto, Young, row, users, history, TypeOK, BoxInv, CrossInv,
         RowKnowsBox, Stopped, Young, Evaluating
<1>3. ASSUME NEW r \in Runs, Claim(r) PROVE BoxInv'
  BY <1>3
     DEF Claim, Goto, row, users, history, TypeOK, BoxInv, CrossInv, RowKnowsBox,
         Stopped, Young, Evaluating
<1>4. ASSUME NEW r \in Runs, StartRun(r) PROVE BoxInv'
  BY <1>4
     DEF StartRun, Goto, row, users, history, TypeOK, BoxInv, CrossInv, RowKnowsBox,
         Stopped, Young, Evaluating
<1>5. ASSUME NEW r \in Runs, Fallback(r) PROVE BoxInv'
  BY <1>5
     DEF Fallback, Goto, row, users, history, TypeOK, BoxInv, CrossInv, RowKnowsBox,
         Stopped, Young, Evaluating
<1>6. ASSUME NEW r \in Runs, Drop(r) PROVE BoxInv'
  BY <1>6
     DEF Drop, Goto, row, users, history, TypeOK, BoxInv, CrossInv, RowKnowsBox,
         Stopped, Young, Evaluating
<1>7. ASSUME NEW r \in Runs, Decide(r) PROVE BoxInv'
  BY <1>7
     DEF Decide, Goto, row, users, history, TypeOK, BoxInv, CrossInv, RowKnowsBox,
         Stopped, Young, Evaluating
<1>8. ASSUME NEW r \in Runs, ReadLease(r) PROVE BoxInv'
  BY <1>8
     DEF ReadLease, Goto, row, users, history, TypeOK, BoxInv, CrossInv,
         RowKnowsBox, Stopped, Young, Evaluating
<1>9. ASSUME NEW r \in Runs, Take(r) PROVE BoxInv'
  BY <1>9
     DEF Take, Goto, row, users, history, TypeOK, BoxInv, CrossInv, RowKnowsBox,
         Stopped, Young, Evaluating
<1>10. ASSUME NEW r \in Runs, Verify(r) PROVE BoxInv'
  BY <1>10
     DEF Verify, Goto, row, users, history, TypeOK, BoxInv, CrossInv, RowKnowsBox,
         Stopped, Young, Evaluating
<1>11. ASSUME NEW r \in Runs, Release(r) PROVE BoxInv'
  BY <1>11
     DEF Release, Goto, row, users, history, TypeOK, BoxInv, CrossInv, RowKnowsBox,
         Stopped, Young, Evaluating
<1>12. ASSUME NEW r \in Runs, Unlease(r) PROVE BoxInv'
  BY <1>12
     DEF Unlease, Goto, row, users, history, TypeOK, BoxInv, CrossInv, RowKnowsBox,
         Stopped, Young, Evaluating
<1>13. ASSUME NEW r \in Runs, Evaluate(r) PROVE BoxInv'
  BY <1>13
     DEF Evaluate, Ends, Goto, row, users, history, TypeOK, BoxInv, CrossInv,
         RowKnowsBox, Stopped, Young, Evaluating
<1>14. ASSUME NEW r \in Runs, Look(r) PROVE BoxInv'
  BY <1>14
     DEF Look, Ends, Goto, row, users, history, TypeOK, BoxInv, CrossInv,
         RowKnowsBox, Stopped, Young, Evaluating
<1>15. ASSUME NEW r \in Runs, Mark(r) PROVE BoxInv'
  BY <1>15
     DEF Mark, Goto, row, users, history, TypeOK, BoxInv, CrossInv, RowKnowsBox,
         Stopped, Young, Evaluating
<1>16. ASSUME NEW r \in Runs, Recheck(r) PROVE BoxInv'
  BY <1>16
     DEF Recheck, Goto, row, users, history, TypeOK, BoxInv, CrossInv, RowKnowsBox,
         Stopped, Young, Evaluating
<1>17. ASSUME NEW r \in Runs, Reread(r) PROVE BoxInv'
  BY <1>17
     DEF Reread, Goto, row, users, history, TypeOK, BoxInv, CrossInv, RowKnowsBox,
         Stopped, Young, Evaluating
<1>18. ASSUME NEW r \in Runs, Restore(r) PROVE BoxInv'
  BY <1>18
     DEF Restore, Ends, Goto, row, users, history, TypeOK, BoxInv, CrossInv,
         RowKnowsBox, Stopped, Young, Evaluating
<1>19. ASSUME NEW r \in Runs, Stop(r) PROVE BoxInv'
  BY <1>19
     DEF Stop, StopBox, Goto, row, users, history, TypeOK, BoxInv, CrossInv,
         RowKnowsBox, Stopped, Young, Evaluating
<1>20. ASSUME NEW r \in Runs, Record(r) PROVE BoxInv'
  BY <1>20
     DEF Record, Hibernated, Ends, Goto, row, users, history, TypeOK, BoxInv,
         CrossInv, RowKnowsBox, Stopped, Young, Evaluating
<1>21. ASSUME NEW r \in Runs, Fail(r) PROVE BoxInv'
  BY <1>21
     DEF Fail, Ends, Goto, row, users, history, TypeOK, BoxInv, CrossInv,
         RowKnowsBox, Stopped, Young, Evaluating
<1>22. ASSUME NEW r \in Runs, TornDown(r) PROVE BoxInv'
  BY <1>22
     DEF TornDown, Goto, row, users, history, TypeOK, BoxInv, CrossInv, RowKnowsBox,
         Stopped, Young, Evaluating
<1>23. CASE ClaimSlot
  BY <1>23
     DEF ClaimSlot, row, users, history, TypeOK, BoxInv, CrossInv, RowKnowsBox,
         Stopped, Young, Evaluating
<1>24. CASE ClearSlot
  BY <1>24
     DEF ClearSlot, row, users, history, TypeOK, BoxInv, CrossInv, RowKnowsBox,
         Stopped, Young, Evaluating
<1>25. CASE Ask
  BY <1>25
     DEF Ask, Speaks, row, users, history, TypeOK, BoxInv, CrossInv, RowKnowsBox,
         Stopped, Young, Evaluating
<1>26. CASE Attach
  BY <1>26
     DEF Attach, Speaks, row, users, history, TypeOK, BoxInv, CrossInv, RowKnowsBox,
         Stopped, Young, Evaluating
<1>27. CASE Provision
  <2>1. Stopped' => Stopped
    BY <1>27 DEF Provision, SetUpFails, Speaks, Stopped
  <2>2. CASE Start /\ chat' = "save"
    BY <2>1, <2>2, Zenon DEF Start, BoxInv, CrossInv, RowKnowsBox
  <2>3. CASE box' = box /\ crossed' = crossed
    BY <1>27, <2>1, <2>3 DEF Provision, SetUpFails, Speaks, BoxInv, CrossInv, RowKnowsBox
  <2> QED BY <1>27, <2>2, <2>3 DEF Provision, Speaks
<1>28. CASE Provisioned
  BY <1>28
     DEF Provisioned, SaveLive, Refresh, LoseSave, SetUpFails, Speaks, row, users,
         history, TypeOK, BoxInv, CrossInv, RowKnowsBox, Stopped, Young, Evaluating
<1>29. CASE Answered
  BY <1>29
     DEF Answered, Refresh, Speaks, row, users, history, TypeOK, BoxInv, CrossInv,
         RowKnowsBox, Stopped, Young, Evaluating
<1>30. CASE LookAtBox
  BY <1>30
     DEF LookAtBox, Speaks, row, users, history, TypeOK, BoxInv, CrossInv,
         RowKnowsBox, Stopped, Young, Evaluating
<1>31. CASE Persist
  BY <1>31
     DEF Persist, SaveLive, Refresh, Speaks, row, users, history, TypeOK, BoxInv,
         CrossInv, RowKnowsBox, Stopped, Young, Evaluating
<1>32. CASE Leave
  BY <1>32
     DEF Leave, Speaks, row, users, history, TypeOK, BoxInv, CrossInv, RowKnowsBox,
         Stopped, Young, Evaluating
<1>33. ASSUME NEW q \in Requests, Connect(q) PROVE BoxInv'
  <2>1. Stopped' => Stopped
    BY <1>33 DEF Connect, Asks, TypeOK, Stopped
  <2>2. \E p \in Requests : req'[p] = "save"
    BY <1>33 DEF Connect, Asks, TypeOK
  <2>3. box' /\ Stopped => crossed'
    <3>1. CASE Start
      BY <3>1, Zenon DEF Start, BoxInv, CrossInv
    <3>2. CASE box' = box /\ crossed' = crossed
      BY <3>2 DEF BoxInv, CrossInv
    <3> QED BY <1>33, <3>1, <3>2 DEF Connect
  <2> QED BY <2>1, <2>2, <2>3 DEF BoxInv, CrossInv, RowKnowsBox
<1>34. ASSUME NEW q \in Requests, Save(q) PROVE BoxInv'
  BY <1>34
     DEF Save, SaveLive, Refresh, Asks, row, users, history, TypeOK, BoxInv,
         CrossInv, RowKnowsBox, Stopped, Young, Evaluating
<1>35. ASSUME NEW q \in Requests, Pause(q) PROVE BoxInv'
  BY <1>35
     DEF Pause, StopBox, Asks, row, users, history, TypeOK, BoxInv, CrossInv,
         RowKnowsBox, Stopped, Young, Evaluating
<1>36. ASSUME NEW q \in Requests, RecordPause(q) PROVE BoxInv'
  BY <1>36
     DEF RecordPause, Hibernated, Asks, row, users, history, TypeOK, BoxInv,
         CrossInv, RowKnowsBox, Stopped, Young, Evaluating
<1>37. ASSUME NEW q \in Requests, Reconnect(q) PROVE BoxInv'
  BY <1>37
     DEF Reconnect, Asks, row, users, history, TypeOK, BoxInv, CrossInv,
         RowKnowsBox, Stopped, Young, Evaluating
<1>38. ASSUME NEW q \in Requests, WriteBack(q) PROVE BoxInv'
  BY <1>38
     DEF WriteBack, Asks, row, users, history, TypeOK, BoxInv, CrossInv,
         RowKnowsBox, Stopped, Young, Evaluating
<1>39. ASSUME NEW q \in Requests, LoseRequest(q) PROVE BoxInv'
  BY <1>39
     DEF LoseRequest, LoseSave, Asks, row, users, history, TypeOK, BoxInv, CrossInv,
         RowKnowsBox, Stopped, Young, Evaluating
<1>40. CASE Activity
  BY <1>40
     DEF Activity, Refresh, row, users, history, TypeOK, BoxInv, CrossInv,
         RowKnowsBox, Stopped, Young, Evaluating
<1>41. CASE Recover
  BY <1>41
     DEF Recover, row, users, history, TypeOK, BoxInv, CrossInv, RowKnowsBox,
         Stopped, Young, Evaluating
<1>42. CASE Tick
  BY <1>42
     DEF Tick, row, users, history, TypeOK, BoxInv, CrossInv, RowKnowsBox, Stopped,
         Young, Evaluating
<1>43. CASE Expire
  BY <1>43
     DEF Expire, StopBox, row, users, history, TypeOK, BoxInv, CrossInv,
         RowKnowsBox, Stopped, Young, Evaluating
<1>44. CASE UNCHANGED vars
  BY <1>44
     DEF vars, row, users, history, TypeOK, BoxInv, CrossInv, RowKnowsBox, Stopped,
         Young, Evaluating
<1> QED
  BY <1>1, <1>2, <1>3, <1>4, <1>5, <1>6, <1>7, <1>8, <1>9, <1>10, <1>11, <1>12, <1>13,
     <1>14, <1>15, <1>16, <1>17, <1>18, <1>19, <1>20, <1>21, <1>22, <1>23, <1>24, <1>25,
     <1>26, <1>27, <1>28, <1>29, <1>30, <1>31, <1>32, <1>33, <1>34, <1>35, <1>36, <1>37,
     <1>38, <1>39, <1>40, <1>41, <1>42, <1>43, <1>44, LifecycleAssumption
     DEF Next, GoesOn, Handle, Workflow, Evaluates, Chat, Serve

-----------------------------------------------------------------------------
(* Theorems                                                                *)

\* Every reachable state of the lifecycle model has its types.
THEOREM LifecycleTypeCorrect == Spec => []TypeOK
<1>1. Init => TypeOK
  <2>1. 0 \in 0 .. 2
    OBVIOUS
  <2> QED BY <2>1, LifecycleAssumption DEF Init, TypeOK
<1>2. TypeOK /\ [Next]_vars => TypeOK'
  BY TypeKept
<1> QED BY <1>1, <1>2, PTL DEF Spec

\* The row knows a sandbox that runs, whatever the kicks, the runs, the chat and the
\* requests of the user do to each other.
THEOREM RowCorrect == Spec => []RowKnowsBox
<1>1. Init => BoxInv
  BY DEF Init, BoxInv, CrossInv, RowKnowsBox, Stopped
<1>2. TypeOK /\ BoxInv /\ [Next]_vars => BoxInv'
  BY BoxKept
<1>3. BoxInv => RowKnowsBox
  BY DEF BoxInv
<1> QED BY <1>1, <1>2, <1>3, LifecycleTypeCorrect, PTL DEF Spec
=============================================================================
