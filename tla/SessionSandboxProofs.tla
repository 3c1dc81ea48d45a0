------------------------ MODULE SessionSandboxProofs ------------------------
(***************************************************************************)
(* That the lease of the provisioning is a lock, for any number of calls   *)
(* and runs, and that an archive leaves no sandbox that runs, for one      *)
(* archive and any number of calls, runs, answers of the chat and requests *)
(* of the user, with the exceptions that leaked and revived keep.          *)
(***************************************************************************)
EXTENDS SessionSandbox, TLAPS

\* A call that has not started its run has a run that does nothing.
Fresh == \A c \in Calls : call[c].pc \in {"new", "alive", "clear", "latest", "start"}
                            => work[c] = "none"

\* A run that is at work is live to whoever asks the workflow service.
Served == \A r \in Runs \ doubted : work[r] \notin {"none", "over"} => status[r] = "live"

\* A run that sets the sandbox up has the lease.
Owned == \A r \in Runs \ doubted : Provisioning(r) => lease = r

LockInv == Fresh /\ Served /\ Owned

\* Somebody has connected the sandbox and will save it or stop it.
Busy == \/ \E r \in Runs : work[r] \in {"save", "undo"}
        \/ \E q \in Requests : req[q] = "save"

\* What is known of a sandbox that runs and of the row, at each point of an archive: as
\* long as the archive has still to look at the row, the row knows the sandbox; after the
\* stop, nobody has it but those who are about to stop it, or to save it, themselves.
ArchiveInv ==
    \A a \in Archivers :
        /\ archiver[a] \in {"idle", "update"} => ~archived /\ ~unarchive
        /\ archiver[a] \in {"idle", "update"} \/ (archived /\ archiver[a] = "finalize")
             => (box => live \/ leaked \/ Busy)
        /\ archived /\ archiver[a] \in {"record", "failed", "patch", "note", "done"}
             => (box => leaked \/ revived \/ Busy)
        /\ archived /\ archiver[a] \in {"note", "done"} => (live => revived)

\* Only an archive makes an archived session.
SomeArchiver == archived \/ unarchive => Archivers # {}

ArchInv == ArchiveInv /\ SomeArchiver

-----------------------------------------------------------------------------
(* Types                                                                   *)

\* Every step of calls, runs, archives, the chat and the user keeps the types.
LEMMA TypeKept ==
    ASSUME TypeOK, [Next]_vars
    PROVE  TypeOK'
<1>1. ASSUME NEW c \in Calls, Kick(c) PROVE TypeOK'
  <2>0. UNCHANGED <<row, lease, box, status, work, archiver, unarchive, users, history>>
    BY <1>1 DEF Kick
  <2>1. CASE Leaps(c, "done") \/ (lease = NoRun /\ Leaps(c, "start"))
    BY <2>0, <2>1 DEF Leaps, row, users, history, TypeOK, Runs, Finalizing
  <2>2. CASE lease # NoRun /\ call' = [call EXCEPT ![c] = [pc |-> "alive", read |-> lease]]
    BY <2>0, <2>2 DEF row, users, history, TypeOK, Runs, Finalizing
  <2> QED BY <1>1, <2>1, <2>2 DEF Kick, LookAt, Leaps
<1>2. ASSUME NEW c \in Calls, Alive(c) PROVE TypeOK'
  <2>1. CASE Leaps(c, "done")
    BY <1>2, <2>1 DEF Alive, Leaps, row, users, history, TypeOK, Runs, Finalizing
  <2>2. CASE Goes(c, "clear")
    BY <1>2, <2>2 DEF Alive, Goes, row, users, history, TypeOK, Runs, Finalizing
  <2> QED BY <1>2, <2>1, <2>2 DEF Alive
<1>3. ASSUME NEW c \in Calls, AliveFails(c) PROVE TypeOK'
  BY <1>3, SandboxAssumption
     DEF AliveFails, Goes, row, users, history, TypeOK, Runs, Finalizing
<1>4. ASSUME NEW c \in Calls, Clear(c) PROVE TypeOK'
  BY <1>4, SandboxAssumption
     DEF Clear, ReleaseLease, Leaps, row, users, history, TypeOK, Runs, Finalizing
<1>5. ASSUME NEW c \in Calls, Latest(c) PROVE TypeOK'
  BY <1>5, SandboxAssumption
     DEF Latest, Leaps, row, users, history, TypeOK, Runs, Finalizing
<1>6. ASSUME NEW c \in Calls, Start(c) PROVE TypeOK'
  BY <1>6, SandboxAssumption
     DEF Start, Goes, row, users, history, TypeOK, Runs, Finalizing
<1>7. ASSUME NEW c \in Calls, ClaimFor(c) PROVE TypeOK'
  BY <1>7, SandboxAssumption
     DEF ClaimFor, ClaimLease, Unleased, Goes, row, users, history, TypeOK, Runs,
         Finalizing
<1>8. ASSUME NEW c \in Calls, Look(c) PROVE TypeOK'
  <2>1. \/ \E l \in {"mark", "cancel"} : Goes(c, l)
        \/ Leaps(c, "done")
    BY <1>8 DEF Look
  <2>2. CASE Leaps(c, "done")
    BY <1>8, <2>2 DEF Look, Leaps, row, users, history, TypeOK, Runs, Finalizing
  <2>3. ASSUME NEW l \in {"mark", "cancel"}, Goes(c, l) PROVE TypeOK'
    BY <1>8, <2>3 DEF Look, Goes, row, users, history, TypeOK, Runs, Finalizing
  <2> QED BY <2>1, <2>2, <2>3
<1>9. ASSUME NEW c \in Calls, Cancel(c) PROVE TypeOK'
  BY <1>9, SandboxAssumption
     DEF Cancel, Leaps, row, users, history, TypeOK, Runs, Finalizing
<1>10. ASSUME NEW c \in Calls, Mark(c) PROVE TypeOK'
  BY <1>10, SandboxAssumption
     DEF Mark, Leaps, row, users, history, TypeOK, Runs, Finalizing
<1>11. ASSUME NEW r \in Runs, Read(r) PROVE TypeOK'
  BY <1>11, SandboxAssumption
     DEF Read, Does, Quit, row, users, history, TypeOK, Runs, Finalizing
<1>12. ASSUME NEW r \in Runs, SelfClaim(r) PROVE TypeOK'
  BY <1>12, SandboxAssumption
     DEF SelfClaim, ClaimLease, Unleased, Does, Quit, row, users, history, TypeOK,
         Runs, Finalizing
<1>13. ASSUME NEW r \in Runs, Check(r) PROVE TypeOK'
  BY <1>13 DEF Check, Does, row, users, history, TypeOK, Runs, Finalizing
<1>14. ASSUME NEW r \in Runs, Connect(r) PROVE TypeOK'
  BY <1>14 DEF Connect, Does, row, users, history, TypeOK, Runs, Finalizing
<1>15. ASSUME NEW r \in Runs, Save(r) PROVE TypeOK'
  BY <1>15 DEF Save, Does, row, users, history, TypeOK, Runs, Finalizing
<1>16. ASSUME NEW r \in Runs, SaveFails(r) PROVE TypeOK'
  BY <1>16 DEF SaveFails, Does, row, users, history, TypeOK, Runs, Finalizing
<1>17. ASSUME NEW r \in Runs, Undo(r) PROVE TypeOK'
  BY <1>17
     DEF Undo, StopBox, StopBoxFails, Does, row, users, history, TypeOK, Runs,
         Finalizing
<1>18. ASSUME NEW r \in Runs, Fail(r) PROVE TypeOK'
  BY <1>18 DEF Fail, Does, row, users, history, TypeOK, Runs, Finalizing
<1>19. ASSUME NEW r \in Runs, Throw(r) PROVE TypeOK'
  BY <1>19, SandboxAssumption
     DEF Throw, ReleaseLease, Does, Quit, row, users, history, TypeOK, Runs,
         Finalizing
<1>20. ASSUME NEW r \in Runs, Release(r) PROVE TypeOK'
  BY <1>20, SandboxAssumption
     DEF Release, ReleaseLease, Does, Quit, row, users, history, TypeOK, Runs,
         Finalizing
<1>21. ASSUME NEW r \in Runs, Again(r) PROVE TypeOK'
  BY <1>21 DEF Again, Does, row, users, history, TypeOK, Runs, Finalizing
<1>22. ASSUME NEW a \in Archivers, Archive(a) PROVE TypeOK'
  BY <1>22 DEF Archive, row, users, history, Moves, TypeOK, Runs, Finalizing
<1>23. ASSUME NEW a \in Archivers, Update(a) PROVE TypeOK'
  BY <1>23 DEF Update, row, users, history, Moves, TypeOK, Runs, Finalizing
<1>24. ASSUME NEW a \in Archivers, Finalize(a) PROVE TypeOK'
  BY <1>24 DEF Finalize, row, users, history, Moves, TypeOK, Runs, Finalizing
<1>25. ASSUME NEW a \in Archivers, Stop(a) PROVE TypeOK'
  BY <1>25
     DEF Stop, StopBox, StopBoxFails, row, users, history, Moves, TypeOK, Runs,
         Finalizing
<1>26. ASSUME NEW a \in Archivers, Record(a) PROVE TypeOK'
  BY <1>26 DEF Record, row, users, history, Moves, TypeOK, Runs, Finalizing
<1>27. ASSUME NEW a \in Archivers, Failed(a) PROVE TypeOK'
  BY <1>27 DEF Failed, row, users, history, Moves, TypeOK, Runs, Finalizing
<1>28. ASSUME NEW a \in Archivers, Patch(a) PROVE TypeOK'
  BY <1>28 DEF Patch, row, users, history, Moves, TypeOK, Runs, Finalizing
<1>29. ASSUME NEW a \in Archivers, Note(a) PROVE TypeOK'
  BY <1>29 DEF Note, row, users, history, Moves, TypeOK, Runs, Finalizing
<1>30. CASE Unarchive
  BY <1>30 DEF Unarchive, row, users, history, TypeOK, Runs, Finalizing
<1>31. CASE Reopen
  BY <1>31 DEF Reopen, row, users, history, TypeOK, Runs, Finalizing
<1>32. CASE Enter
  BY <1>32 DEF Enter, Speaks, row, users, history, TypeOK, Runs, Finalizing
<1>33. CASE Leave
  BY <1>33 DEF Leave, Speaks, row, users, history, TypeOK, Runs, Finalizing
<1>34. CASE Persist
  BY <1>34 DEF Persist, Speaks, row, users, history, TypeOK, Runs, Finalizing
<1>35. ASSUME NEW q \in Requests, Open(q) PROVE TypeOK'
  BY <1>35 DEF Open, Asks, row, users, history, TypeOK, Runs, Finalizing
<1>36. ASSUME NEW q \in Requests, SaveOpen(q) PROVE TypeOK'
  BY <1>36 DEF SaveOpen, Asks, row, users, history, TypeOK, Runs, Finalizing
<1>37. ASSUME NEW q \in Requests, Pause(q) PROVE TypeOK'
  BY <1>37 DEF Pause, StopBox, Asks, row, users, history, TypeOK, Runs, Finalizing
<1>38. ASSUME NEW q \in Requests, RecordPause(q) PROVE TypeOK'
  BY <1>38 DEF RecordPause, Asks, row, users, history, TypeOK, Runs, Finalizing
<1>39. ASSUME NEW q \in Requests, Reconnect(q) PROVE TypeOK'
  BY <1>39 DEF Reconnect, Asks, row, users, history, TypeOK, Runs, Finalizing
<1>40. ASSUME NEW q \in Requests, WriteBack(q) PROVE TypeOK'
  BY <1>40 DEF WriteBack, Asks, row, users, history, TypeOK, Runs, Finalizing
<1>41. ASSUME NEW q \in Requests, LoseRequest(q) PROVE TypeOK'
  BY <1>41 DEF LoseRequest, Asks, row, users, history, TypeOK, Runs, Finalizing
<1>42. CASE UNCHANGED vars
  BY <1>42 DEF TypeOK, Runs, Finalizing, vars, row, users, history
<1> QED
  BY <1>1, <1>2, <1>3, <1>4, <1>5, <1>6, <1>7, <1>8, <1>9, <1>10, <1>11, <1>12, <1>13,
     <1>14, <1>15, <1>16, <1>17, <1>18, <1>19, <1>20, <1>21, <1>22, <1>23, <1>24, <1>25,
     <1>26, <1>27, <1>28, <1>29, <1>30, <1>31, <1>32, <1>33, <1>34, <1>35, <1>36, <1>37,
     <1>38, <1>39, <1>40, <1>41, <1>42
     DEF Next, Handle, Provision, Close, Serve

-----------------------------------------------------------------------------
(* The lease is a lock                                                     *)

\* A lease that is cleared belongs to nobody, to a run that is over or to one that is
\* doubted; a lease that is claimed was free.
LEMMA LockKept ==
    ASSUME TypeOK, LockInv, [Next]_vars
    PROVE  LockInv'
<1>1. ASSUME NEW c \in Calls, Kick(c) PROVE LockInv'
  BY <1>1, SandboxAssumption
     DEF Kick, LookAt, Leaps, row, users, history, TypeOK, Runs, LockInv, Fresh,
         Served, Owned, Provisioning
<1>2. ASSUME NEW c \in Calls, Alive(c) PROVE LockInv'
  BY <1>2, SandboxAssumption
     DEF Alive, Leaps, Goes, row, users, history, TypeOK, Runs, LockInv, Fresh,
         Served, Owned, Provisioning
<1>3. ASSUME NEW c \in Calls, AliveFails(c) PROVE LockInv'
  BY <1>3, SandboxAssumption
     DEF AliveFails, Goes, row, users, history, TypeOK, Runs, LockInv, Fresh, Served,
         Owned, Provisioning
<1>4. ASSUME NEW c \in Calls, Clear(c) PROVE LockInv'
  BY <1>4, SandboxAssumption
     DEF Clear, ReleaseLease, Leaps, row, users, history, TypeOK, Runs, LockInv,
         Fresh, Served, Owned, Provisioning
<1>5. ASSUME NEW c \in Calls, Latest(c) PROVE LockInv'
  BY <1>5, SandboxAssumption
     DEF Latest, Leaps, row, users, history, TypeOK, Runs, LockInv, Fresh, Served,
         Owned, Provisioning
<1>6. ASSUME NEW c \in Calls, Start(c) PROVE LockInv'
  BY <1>6, SandboxAssumption
     DEF Start, Goes, row, users, history, TypeOK, Runs, LockInv, Fresh, Served,
         Owned, Provisioning
<1>7. ASSUME NEW c \in Calls, ClaimFor(c) PROVE LockInv'
  BY <1>7, SandboxAssumption
     DEF ClaimFor, ClaimLease, Unleased, Goes, row, users, history, TypeOK, Runs,
         LockInv, Fresh, Served, Owned, Provisioning
<1>8. ASSUME NEW c \in Calls, Look(c) PROVE LockInv'
  BY <1>8, SandboxAssumption
     DEF Look, Goes, Leaps, row, users, history, TypeOK, Runs, LockInv, Fresh, Served,
         Owned, Provisioning
<1>9. ASSUME NEW c \in Calls, Cancel(c) PROVE LockInv'
  BY <1>9, SandboxAssumption
     DEF Cancel, Leaps, row, users, history, TypeOK, Runs, LockInv, Fresh, Served,
         Owned, Provisioning
<1>10. ASSUME NEW c \in Calls, Mark(c) PROVE LockInv'
  BY <1>10, SandboxAssumption
     DEF Mark, Leaps, row, users, history, TypeOK, Runs, LockInv, Fresh, Served,
         Owned, Provisioning
<1>11. ASSUME NEW r \in Runs, Read(r) PROVE LockInv'
  <2>1. CASE lease = NoRun /\ Does(r, "claim") /\ UNCHANGED status
    BY <1>11, <2>1, SandboxAssumption
       DEF Read, Does, row, users, history, TypeOK, Runs, LockInv, Fresh, Served, Owned,
           Provisioning
  <2>2. CASE lease = r /\ Does(r, "check") /\ UNCHANGED status
    BY <1>11, <2>2
       DEF Read, Does, row, users, history, TypeOK, Runs, LockInv, Fresh, Served, Owned,
           Provisioning
  <2>3. CASE Quit(r)
    BY <1>11, <2>3
       DEF Read, Does, Quit, row, users, history, TypeOK, Runs, LockInv, Fresh, Served,
           Owned, Provisioning
  <2> QED
    BY <1>11, <2>1, <2>2, <2>3 DEF Read
<1>12. ASSUME NEW r \in Runs, SelfClaim(r) PROVE LockInv'
  <2>1. CASE Unleased(r)
    BY <1>12, <2>1, SandboxAssumption
       DEF SelfClaim, ClaimLease, Unleased, Does, row, users, history, TypeOK, Runs,
           LockInv, Fresh, Served, Owned, Provisioning
  <2>2. CASE ~Unleased(r)
    BY <1>12, <2>2
       DEF SelfClaim, ClaimLease, Does, Quit, row, users, history, TypeOK, Runs,
           LockInv, Fresh, Served, Owned, Provisioning
  <2> QED BY <2>1, <2>2
<1>13. ASSUME NEW r \in Runs, Check(r) PROVE LockInv'
  BY <1>13
     DEF Check, Does, row, users, history, TypeOK, Runs, LockInv, Fresh, Served,
         Owned, Provisioning
<1>14. ASSUME NEW r \in Runs, Connect(r) PROVE LockInv'
  BY <1>14
     DEF Connect, Does, row, users, history, TypeOK, Runs, LockInv, Fresh, Served,
         Owned, Provisioning
<1>15. ASSUME NEW r \in Runs, Save(r) PROVE LockInv'
  BY <1>15
     DEF Save, Does, row, users, history, TypeOK, Runs, LockInv, Fresh, Served, Owned,
         Provisioning
<1>16. ASSUME NEW r \in Runs, SaveFails(r) PROVE LockInv'
  BY <1>16
     DEF SaveFails, Does, row, users, history, TypeOK, Runs, LockInv, Fresh, Served,
         Owned, Provisioning
<1>17. ASSUME NEW r \in Runs, Undo(r) PROVE LockInv'
  BY <1>17
     DEF Undo, StopBox, StopBoxFails, Does, row, users, history, TypeOK, Runs,
         LockInv, Fresh, Served, Owned, Provisioning
<1>18. ASSUME NEW r \in Runs, Fail(r) PROVE LockInv'
  BY <1>18
     DEF Fail, Does, row, users, history, TypeOK, Runs, LockInv, Fresh, Served, Owned,
         Provisioning
<1>19. ASSUME NEW r \in Runs, Throw(r) PROVE LockInv'
  <2>1. CASE Quit(r)
    BY <1>19, <2>1
       DEF Throw, ReleaseLease, Quit, Does, row, users, history, TypeOK, Runs, LockInv, Fresh,
           Served, Owned, Provisioning
  <2>2. CASE Does(r, "read") /\ UNCHANGED status
    BY <1>19, <2>2
       DEF Throw, ReleaseLease, Does, row, users, history, TypeOK, Runs, LockInv, Fresh,
           Served, Owned, Provisioning
  <2> QED BY <1>19, <2>1, <2>2 DEF Throw
<1>20. ASSUME NEW r \in Runs, Release(r) PROVE LockInv'
  BY <1>20, SandboxAssumption
     DEF Release, ReleaseLease, Does, Quit, row, users, history, TypeOK, Runs,
         LockInv, Fresh, Served, Owned, Provisioning
<1>21. ASSUME NEW r \in Runs, Again(r) PROVE LockInv'
  BY <1>21
     DEF Again, Does, row, users, history, TypeOK, Runs, LockInv, Fresh, Served,
         Owned, Provisioning
<1>22. ASSUME NEW a \in Archivers, Archive(a) PROVE LockInv'
  BY <1>22
     DEF Archive, row, users, history, Moves, TypeOK, Runs, LockInv, Fresh, Served,
         Owned, Provisioning
<1>23. ASSUME NEW a \in Archivers, Update(a) PROVE LockInv'
  BY <1>23
     DEF Update, row, users, history, Moves, TypeOK, Runs, LockInv, Fresh, Served,
         Owned, Provisioning
<1>24. ASSUME NEW a \in Archivers, Finalize(a) PROVE LockInv'
  BY <1>24
     DEF Finalize, row, users, history, Moves, TypeOK, Runs, LockInv, Fresh, Served,
         Owned, Provisioning
<1>25. ASSUME NEW a \in Archivers, Stop(a) PROVE LockInv'
  BY <1>25
     DEF Stop, StopBox, StopBoxFails, row, users, history, Moves, TypeOK, Runs,
         LockInv, Fresh, Served, Owned, Provisioning
<1>26. ASSUME NEW a \in Archivers, Record(a) PROVE LockInv'
  BY <1>26
     DEF Record, row, users, history, Moves, TypeOK, Runs, LockInv, Fresh, Served,
         Owned, Provisioning
<1>27. ASSUME NEW a \in Archivers, Failed(a) PROVE LockInv'
  BY <1>27
     DEF Failed, row, users, history, Moves, TypeOK, Runs, LockInv, Fresh, Served,
         Owned, Provisioning
<1>28. ASSUME NEW a \in Archivers, Patch(a) PROVE LockInv'
  BY <1>28
     DEF Patch, row, users, history, Moves, TypeOK, Runs, LockInv, Fresh, Served,
         Owned, Provisioning
<1>29. ASSUME NEW a \in Archivers, Note(a) PROVE LockInv'
  BY <1>29
     DEF Note, row, users, history, Moves, TypeOK, Runs, LockInv, Fresh, Served,
         Owned, Provisioning
<1>30. CASE Unarchive
  BY <1>30
     DEF Unarchive, row, users, history, TypeOK, Runs, LockInv, Fresh, Served, Owned,
         Provisioning
<1>31. CASE Reopen
  BY <1>31
     DEF Reopen, row, users, history, TypeOK, Runs, LockInv, Fresh, Served, Owned,
         Provisioning
<1>32. CASE Enter
  BY <1>32
     DEF Enter, Speaks, row, users, history, TypeOK, Runs, LockInv, Fresh, Served,
         Owned, Provisioning
<1>33. CASE Leave
  BY <1>33
     DEF Leave, Speaks, row, users, history, TypeOK, Runs, LockInv, Fresh, Served,
         Owned, Provisioning
<1>34. CASE Persist
  BY <1>34
     DEF Persist, Speaks, row, users, history, TypeOK, Runs, LockInv, Fresh, Served,
         Owned, Provisioning
<1>35. ASSUME NEW q \in Requests, Open(q) PROVE LockInv'
  BY <1>35
     DEF Open, Asks, row, users, history, TypeOK, Runs, LockInv, Fresh, Served, Owned,
         Provisioning
<1>36. ASSUME NEW q \in Requests, SaveOpen(q) PROVE LockInv'
  BY <1>36
     DEF SaveOpen, Asks, row, users, history, TypeOK, Runs, LockInv, Fresh, Served,
         Owned, Provisioning
<1>37. ASSUME NEW q \in Requests, Pause(q) PROVE LockInv'
  BY <1>37
     DEF Pause, StopBox, Asks, row, users, history, TypeOK, Runs, LockInv, Fresh,
         Served, Owned, Provisioning
<1>38. ASSUME NEW q \in Requests, RecordPause(q) PROVE LockInv'
  BY <1>38
     DEF RecordPause, Asks, row, users, history, TypeOK, Runs, LockInv, Fresh, Served,
         Owned, Provisioning
<1>39. ASSUME NEW q \in Requests, Reconnect(q) PROVE LockInv'
  BY <1>39
     DEF Reconnect, Asks, row, users, history, TypeOK, Runs, LockInv, Fresh, Served,
         Owned, Provisioning
<1>40. ASSUME NEW q \in Requests, WriteBack(q) PROVE LockInv'
  BY <1>40
     DEF WriteBack, Asks, row, users, history, TypeOK, Runs, LockInv, Fresh, Served,
         Owned, Provisioning
<1>41. ASSUME NEW q \in Requests, LoseRequest(q) PROVE LockInv'
  BY <1>41
     DEF LoseRequest, Asks, row, users, history, TypeOK, Runs, LockInv, Fresh, Served,
         Owned, Provisioning
<1>42. CASE UNCHANGED vars
  BY <1>42
     DEF TypeOK, Runs, LockInv, Fresh, Served, Owned, Provisioning, vars, row, users,
         history
<1> QED
  BY <1>1, <1>2, <1>3, <1>4, <1>5, <1>6, <1>7, <1>8, <1>9, <1>10, <1>11, <1>12, <1>13,
     <1>14, <1>15, <1>16, <1>17, <1>18, <1>19, <1>20, <1>21, <1>22, <1>23, <1>24, <1>25,
     <1>26, <1>27, <1>28, <1>29, <1>30, <1>31, <1>32, <1>33, <1>34, <1>35, <1>36, <1>37,
     <1>38, <1>39, <1>40, <1>41, <1>42
     DEF Next, Handle, Provision, Close, Serve

-----------------------------------------------------------------------------
(* The archive stops the sandbox                                           *)

\* The archive and the set-up of the sandbox each leave the sandbox to the other only
\* where the other has still to look.
LEMMA ArchiveKept ==
    ASSUME TypeOK, LockInv, ArchInv,
           \A a, b \in Archivers : a = b, [Next]_vars
    PROVE  ArchInv'
<1>1. ASSUME NEW c \in Calls, Kick(c) PROVE ArchInv'
  BY <1>1, SandboxAssumption
     DEF Kick, LookAt, Leaps, row, users, history, TypeOK, Runs, LockInv, Fresh,
         ArchInv, ArchiveInv, SomeArchiver, Busy, Writable, Pausing
<1>2. ASSUME NEW c \in Calls, Alive(c) PROVE ArchInv'
  BY <1>2, SandboxAssumption
     DEF Alive, Leaps, Goes, row, users, history, TypeOK, Runs, LockInv, Fresh,
         ArchInv, ArchiveInv, SomeArchiver, Busy, Writable, Pausing
<1>3. ASSUME NEW c \in Calls, AliveFails(c) PROVE ArchInv'
  BY <1>3, SandboxAssumption
     DEF AliveFails, Goes, row, users, history, TypeOK, Runs, LockInv, Fresh, ArchInv,
         ArchiveInv, SomeArchiver, Busy, Writable, Pausing
<1>4. ASSUME NEW c \in Calls, Clear(c) PROVE ArchInv'
  BY <1>4, SandboxAssumption
     DEF Clear, ReleaseLease, Leaps, row, users, history, TypeOK, Runs, LockInv,
         Fresh, ArchInv, ArchiveInv, SomeArchiver, Busy, Writable, Pausing
<1>5. ASSUME NEW c \in Calls, Latest(c) PROVE ArchInv'
  BY <1>5, SandboxAssumption
     DEF Latest, Leaps, row, users, history, TypeOK, Runs, LockInv, Fresh, ArchInv,
         ArchiveInv, SomeArchiver, Busy, Writable, Pausing
<1>6. ASSUME NEW c \in Calls, Start(c) PROVE ArchInv'
  BY <1>6, SandboxAssumption
     DEF Start, Goes, row, users, history, TypeOK, Runs, LockInv, Fresh, ArchInv,
         ArchiveInv, SomeArchiver, Busy, Writable, Pausing
<1>7. ASSUME NEW c \in Calls, ClaimFor(c) PROVE ArchInv'
  BY <1>7, SandboxAssumption
     DEF ClaimFor, ClaimLease, Unleased, Goes, row, users, history, TypeOK, Runs,
         LockInv, Fresh, ArchInv, ArchiveInv, SomeArchiver, Busy, Writable, Pausing
<1>8. ASSUME NEW c \in Calls, Look(c) PROVE ArchInv'
  BY <1>8, SandboxAssumption
     DEF Look, Goes, Leaps, row, users, history, TypeOK, Runs, LockInv, Fresh,
         ArchInv, ArchiveInv, SomeArchiver, Busy, Writable, Pausing
<1>9. ASSUME NEW c \in Calls, Cancel(c) PROVE ArchInv'
  BY <1>9, SandboxAssumption
     DEF Cancel, Leaps, row, users, history, TypeOK, Runs, LockInv, Fresh, ArchInv,
         ArchiveInv, SomeArchiver, Busy, Writable, Pausing
<1>10. ASSUME NEW c \in Calls, Mark(c) PROVE ArchInv'
  BY <1>10, SandboxAssumption
     DEF Mark, Leaps, row, users, history, TypeOK, Runs, LockInv, Fresh, ArchInv,
         ArchiveInv, SomeArchiver, Busy, Writable, Pausing
<1>11. ASSUME NEW r \in Runs, Read(r) PROVE ArchInv'
  BY <1>11, SandboxAssumption
     DEF Read, Does, Quit, row, users, history, TypeOK, Runs, LockInv, Fresh, ArchInv,
         ArchiveInv, SomeArchiver, Busy, Writable, Pausing
<1>12. ASSUME NEW r \in Runs, SelfClaim(r) PROVE ArchInv'
  BY <1>12, SandboxAssumption
     DEF SelfClaim, ClaimLease, Unleased, Does, Quit, row, users, history, TypeOK,
         Runs, LockInv, Fresh, ArchInv, ArchiveInv, SomeArchiver, Busy, Writable,
         Pausing
<1>13. ASSUME NEW r \in Runs, Check(r) PROVE ArchInv'
  BY <1>13
     DEF Check, Does, row, users, history, TypeOK, Runs, LockInv, Fresh, ArchInv,
         ArchiveInv, SomeArchiver, Busy, Writable, Pausing
<1>14. ASSUME NEW r \in Runs, Connect(r) PROVE ArchInv'
  BY <1>14
     DEF Connect, Does, row, users, history, TypeOK, Runs, LockInv, Fresh, ArchInv,
         ArchiveInv, SomeArchiver, Busy, Writable, Pausing
<1>15. ASSUME NEW r \in Runs, Save(r) PROVE ArchInv'
  BY <1>15
     DEF Save, Does, row, users, history, TypeOK, Runs, LockInv, Fresh, ArchInv,
         ArchiveInv, SomeArchiver, Busy, Writable, Pausing
<1>16. ASSUME NEW r \in Runs, SaveFails(r) PROVE ArchInv'
  BY <1>16
     DEF SaveFails, Does, row, users, history, TypeOK, Runs, LockInv, Fresh, ArchInv,
         ArchiveInv, SomeArchiver, Busy, Writable, Pausing
<1>17. ASSUME NEW r \in Runs, Undo(r) PROVE ArchInv'
  BY <1>17
     DEF Undo, StopBox, StopBoxFails, Does, row, users, history, TypeOK, Runs,
         LockInv, Fresh, ArchInv, ArchiveInv, SomeArchiver, Busy, Writable, Pausing
<1>18. ASSUME NEW r \in Runs, Fail(r) PROVE ArchInv'
  BY <1>18
     DEF Fail, Does, row, users, history, TypeOK, Runs, LockInv, Fresh, ArchInv,
         ArchiveInv, SomeArchiver, Busy, Writable, Pausing
<1>19. ASSUME NEW r \in Runs, Throw(r) PROVE ArchInv'
  BY <1>19, SandboxAssumption
     DEF Throw, ReleaseLease, Does, Quit, row, users, history, TypeOK, Runs, LockInv,
         Fresh, ArchInv, ArchiveInv, SomeArchiver, Busy, Writable, Pausing
<1>20. ASSUME NEW r \in Runs, Release(r) PROVE ArchInv'
  BY <1>20, SandboxAssumption
     DEF Release, ReleaseLease, Does, Quit, row, users, history, TypeOK, Runs,
         LockInv, Fresh, ArchInv, ArchiveInv, SomeArchiver, Busy, Writable, Pausing
<1>21. ASSUME NEW r \in Runs, Again(r) PROVE ArchInv'
  BY <1>21
     DEF Again, Does, row, users, history, TypeOK, Runs, LockInv, Fresh, ArchInv,
         ArchiveInv, SomeArchiver, Busy, Writable, Pausing
<1>22. ASSUME NEW a \in Archivers, Archive(a) PROVE ArchInv'
  BY <1>22
     DEF Archive, row, users, history, Moves, TypeOK, Runs, LockInv, Fresh, ArchInv,
         ArchiveInv, SomeArchiver, Busy, Writable, Pausing
<1>23. ASSUME NEW a \in Archivers, Update(a) PROVE ArchInv'
  BY <1>23
     DEF Update, row, users, history, Moves, TypeOK, Runs, LockInv, Fresh, ArchInv,
         ArchiveInv, SomeArchiver, Busy, Writable, Pausing
<1>24. ASSUME NEW a \in Archivers, Finalize(a) PROVE ArchInv'
  BY <1>24
     DEF Finalize, row, users, history, Moves, TypeOK, Runs, LockInv, Fresh, ArchInv,
         ArchiveInv, SomeArchiver, Busy, Writable, Pausing
<1>25. ASSUME NEW a \in Archivers, Stop(a) PROVE ArchInv'
  BY <1>25
     DEF Stop, StopBox, StopBoxFails, row, users, history, Moves, TypeOK, Runs,
         LockInv, Fresh, ArchInv, ArchiveInv, SomeArchiver, Busy, Writable, Pausing
<1>26. ASSUME NEW a \in Archivers, Record(a) PROVE ArchInv'
  BY <1>26
     DEF Record, row, users, history, Moves, TypeOK, Runs, LockInv, Fresh, ArchInv,
         ArchiveInv, SomeArchiver, Busy, Writable, Pausing
<1>27. ASSUME NEW a \in Archivers, Failed(a) PROVE ArchInv'
  BY <1>27
     DEF Failed, row, users, history, Moves, TypeOK, Runs, LockInv, Fresh, ArchInv,
         ArchiveInv, SomeArchiver, Busy, Writable, Pausing
<1>28. ASSUME NEW a \in Archivers, Patch(a) PROVE ArchInv'
  BY <1>28
     DEF Patch, row, users, history, Moves, TypeOK, Runs, LockInv, Fresh, ArchInv,
         ArchiveInv, SomeArchiver, Busy, Writable, Pausing
<1>29. ASSUME NEW a \in Archivers, Note(a) PROVE ArchInv'
  BY <1>29
     DEF Note, row, users, history, Moves, TypeOK, Runs, LockInv, Fresh, ArchInv,
         ArchiveInv, SomeArchiver, Busy, Writable, Pausing
<1>30. CASE Unarchive
  BY <1>30
     DEF Unarchive, row, users, history, TypeOK, Runs, LockInv, Fresh, ArchInv,
         ArchiveInv, SomeArchiver, Busy, Writable, Pausing
<1>31. CASE Reopen
  BY <1>31
     DEF Reopen, row, users, history, TypeOK, Runs, LockInv, Fresh, ArchInv,
         ArchiveInv, SomeArchiver, Busy, Writable, Pausing
<1>32. CASE Enter
  BY <1>32
     DEF Enter, Speaks, row, users, history, TypeOK, Runs, LockInv, Fresh, ArchInv,
         ArchiveInv, SomeArchiver, Busy, Writable, Pausing
<1>33. CASE Leave
  BY <1>33
     DEF Leave, Speaks, row, users, history, TypeOK, Runs, LockInv, Fresh, ArchInv,
         ArchiveInv, SomeArchiver, Busy, Writable, Pausing
<1>34. CASE Persist
  BY <1>34
     DEF Persist, Speaks, row, users, history, TypeOK, Runs, LockInv, Fresh, ArchInv,
         ArchiveInv, SomeArchiver, Busy, Writable, Pausing
<1>35. ASSUME NEW q \in Requests, Open(q) PROVE ArchInv'
  BY <1>35
     DEF Open, Asks, row, users, history, TypeOK, Runs, LockInv, Fresh, ArchInv,
         ArchiveInv, SomeArchiver, Busy, Writable, Pausing
<1>36. ASSUME NEW q \in Requests, SaveOpen(q) PROVE ArchInv'
  BY <1>36
     DEF SaveOpen, Asks, row, users, history, TypeOK, Runs, LockInv, Fresh, ArchInv,
         ArchiveInv, SomeArchiver, Busy, Writable, Pausing
<1>37. ASSUME NEW q \in Requests, Pause(q) PROVE ArchInv'
  BY <1>37
     DEF Pause, StopBox, Asks, row, users, history, TypeOK, Runs, LockInv, Fresh,
         ArchInv, ArchiveInv, SomeArchiver, Busy, Writable, Pausing
<1>38. ASSUME NEW q \in Requests, RecordPause(q) PROVE ArchInv'
  BY <1>38
     DEF RecordPause, Asks, row, users, history, TypeOK, Runs, LockInv, Fresh,
         ArchInv, ArchiveInv, SomeArchiver, Busy, Writable, Pausing
<1>39. ASSUME NEW q \in Requests, Reconnect(q) PROVE ArchInv'
  BY <1>39
     DEF Reconnect, Asks, row, users, history, TypeOK, Runs, LockInv, Fresh, ArchInv,
         ArchiveInv, SomeArchiver, Busy, Writable, Pausing
<1>40. ASSUME NEW q \in Requests, WriteBack(q) PROVE ArchInv'
  <2>1. Busy' <=> Busy
    BY <1>40 DEF WriteBack, Asks, TypeOK, Busy
  <2>2. UNCHANGED <<archived, unarchive, archiver, box, leaked>>
    BY <1>40 DEF WriteBack
  <2>3. (live => live') /\ (revived => revived') /\ (archived /\ live' => live \/ revived')
    <3>1. CASE live' = live /\ revived' = revived
      BY <3>1
    <3>2. CASE live' = TRUE /\ revived' = (revived \/ archived)
      BY <3>2, Zenon
    <3> QED BY <1>40, <3>1, <3>2 DEF WriteBack
  <2> QED BY <2>1, <2>2, <2>3 DEF ArchInv, ArchiveInv, SomeArchiver
<1>41. ASSUME NEW q \in Requests, LoseRequest(q) PROVE ArchInv'
  BY <1>41
     DEF LoseRequest, Asks, row, users, history, TypeOK, Runs, LockInv, Fresh,
         ArchInv, ArchiveInv, SomeArchiver, Busy, Writable, Pausing
<1>42. CASE UNCHANGED vars
  BY <1>42
     DEF TypeOK, Runs, LockInv, Fresh, ArchInv, ArchiveInv, SomeArchiver, Busy,
         Writable, Pausing, vars, row, users, history
<1> QED
  BY <1>1, <1>2, <1>3, <1>4, <1>5, <1>6, <1>7, <1>8, <1>9, <1>10, <1>11, <1>12, <1>13,
     <1>14, <1>15, <1>16, <1>17, <1>18, <1>19, <1>20, <1>21, <1>22, <1>23, <1>24, <1>25,
     <1>26, <1>27, <1>28, <1>29, <1>30, <1>31, <1>32, <1>33, <1>34, <1>35, <1>36, <1>37,
     <1>38, <1>39, <1>40, <1>41, <1>42
     DEF Next, Handle, Provision, Close, Serve

-----------------------------------------------------------------------------
(* Theorems                                                                *)

\* Every reachable state of the provisioning and the archive has its types.
THEOREM SandboxTypeCorrect == Spec => []TypeOK
<1>1. Init => TypeOK
  <2> SUFFICES ASSUME Init PROVE TypeOK
    OBVIOUS
  <2>1. call = [c \in Calls |-> [pc |-> "new", read |-> NoRun]]
    BY DEF Init
  <2>2. call \in [Calls -> [pc : {"new", "alive", "clear", "latest", "start", "claim",
                                 "look", "cancel", "mark", "done"},
                           read : Runs \cup {NoRun}]]
    BY <2>1
  <2>3. \A c \in Calls : call[c].read # NoRun <=> call[c].pc \in {"alive", "clear"}
    BY <2>1
  <2>4. /\ status \in [Runs -> {"none", "live", "over"}]
        /\ work \in [Runs -> {"none", "read", "claim", "check", "connect", "save", "undo",
                              "fail", "throw", "release", "over"}]
        /\ archiver \in [Archivers -> {"idle", "update", "done"} \cup Finalizing]
    BY DEF Init
  <2> QED BY <2>2, <2>3, <2>4 DEF Init, TypeOK
<1>2. TypeOK /\ [Next]_vars => TypeOK'
  BY TypeKept
<1> QED BY <1>1, <1>2, PTL DEF Spec

LEMMA LockCorrect == Spec => []LockInv
<1>1. Init => LockInv
  BY DEF Init, LockInv, Fresh, Served, Owned, Provisioning, Runs
<1>2. TypeOK /\ LockInv /\ [Next]_vars => LockInv'
  BY LockKept
<1> QED BY <1>1, <1>2, SandboxTypeCorrect, PTL DEF Spec

\* No two runs set the sandbox up at the same time, however many calls start runs, cancel
\* duplicates and clear what dead runs have left.
THEOREM ProvisionerCorrect == Spec => []OneProvisioner
<1>1. LockInv => OneProvisioner
  BY DEF LockInv, Owned, OneProvisioner
<1> QED BY <1>1, LockCorrect, PTL

\* One archive, however many provisionings, repeated steps and answers it meets, leaves no
\* sandbox that runs, with the exceptions ArchivedIsStopped names.
THEOREM ArchivedCorrect ==
    ASSUME \A a, b \in Archivers : a = b
    PROVE  Spec => []ArchivedIsStopped
<1>1. Init => ArchInv
  BY DEF Init, ArchInv, ArchiveInv, SomeArchiver
<1>2. TypeOK /\ LockInv /\ ArchInv /\ [Next]_vars => ArchInv'
  BY ArchiveKept
<1>3. TypeOK /\ ArchInv => ArchivedIsStopped
  BY DEF TypeOK, ArchInv, ArchiveInv, SomeArchiver, ArchivedIsStopped, Busy, Finalizing
<1> QED BY <1>1, <1>2, <1>3, SandboxTypeCorrect, LockCorrect, PTL DEF Spec
=============================================================================
