--------------------------- MODULE SessionSandbox ---------------------------
(***************************************************************************)
(* The sandbox of a session of the web application, from the first request *)
(* for it to its end with the session: kickSandboxProvisioningWorkflow     *)
(* (lib/sandbox/provisioning-kick.ts), the workflow it starts and          *)
(* provisionSessionSandbox, archiveSession with its background part, the   *)
(* PATCH that brings a session back, what a chat writes when it ends, and  *)
(* the requests of the user for the sandbox itself.                        *)
(*                                                                         *)
(* All of them read the session's row, call the sandbox or the workflow    *)
(* service, and write the row, some with a condition and some without: the *)
(* requests neither take the lease nor look whether the session is         *)
(* archived.  Hibernation is in SandboxLifecycle.                          *)
(***************************************************************************)
CONSTANTS Calls,       \* calls of the kick; the run a call starts goes by its name
          Archivers,   \* calls of archiveSession, with what they leave to do later
          Requests,    \* how many requests of the user are under way at once: a bound
          Alone,       \* calls not at work while there is a chat or a request: a bound
          NoRun

ASSUME SandboxAssumption == NoRun \notin Calls /\ Alone \subseteq Calls

Runs == Calls

VARIABLES
    archived,  \* sessions.status is "archived"
    closed,    \* sessions.lifecycleState is "archived"
    live,      \* sessions.sandboxState has runtime data: hasRuntimeSandboxState
    lease,     \* sessions.sandboxProvisioningRunId
    box,       \* the sandbox of the session runs
    status,    \* status[r]: what the workflow service says of run r
    work,      \* work[r]: what run r is doing
    call,      \* call[c]: where the kick c is and the lease it has read
    archiver,  \* archiver[a]: where a is
    unarchive, \* a PATCH that unarchives has checked the row and not yet written it
    chat,      \* a chat uses the sandbox
    req,       \* req[q]: what a request of the user has done, and has yet to write
    leaked,    \* history: the sandbox may run without the session knowing it: a stop, or
               \* what follows a start, failed, a step was run again, or a late write made
               \* the session forget it
    revived,   \* history: a chat or a request has written its sandbox to an archived session
    doubted    \* history: runs that were cancelled in the middle of a step, or whose
               \* lease was taken because their status could not be read

row     == <<archived, closed, live>>
history == <<leaked, revived, doubted>>
users   == <<chat, req>>
vars    == <<row, lease, box, status, work, call, archiver, unarchive, users, history>>

Finalizing == {"finalize", "stop", "record", "failed", "patch", "note"}

TypeOK ==
    /\ archived \in BOOLEAN /\ closed \in BOOLEAN /\ live \in BOOLEAN
    /\ lease \in Runs \cup {NoRun}
    /\ box \in BOOLEAN
    /\ status \in [Runs -> {"none", "live", "over"}]
    /\ work \in [Runs -> {"none", "read", "claim", "check", "connect", "save", "undo",
                          "fail", "throw", "release", "over"}]
    /\ call \in [Calls -> [pc : {"new", "alive", "clear", "latest", "start", "claim",
                                 "look", "cancel", "mark", "done"},
                           read : Runs \cup {NoRun}]]
    /\ \A c \in Calls : call[c].read # NoRun <=> call[c].pc \in {"alive", "clear"}
    /\ archiver \in [Archivers -> {"idle", "update", "done"} \cup Finalizing]
    /\ unarchive \in BOOLEAN
    /\ chat \in {"off", "on", "saved", "lost"}
    /\ req \in [Requests -> {"none", "save", "record", "seen", "touch"}]
    /\ leaked \in BOOLEAN /\ revived \in BOOLEAN
    /\ doubted \subseteq Runs

Init ==
    /\ archived = FALSE /\ closed = FALSE /\ live = FALSE
    /\ lease = NoRun
    /\ box = FALSE
    /\ status = [r \in Runs |-> "none"]
    /\ work = [r \in Runs |-> "none"]
    /\ call = [c \in Calls |-> [pc |-> "new", read |-> NoRun]]
    /\ archiver = [a \in Archivers |-> "idle"]
    /\ unarchive = FALSE
    /\ chat = "off"
    /\ req = [q \in Requests |-> "none"]
    /\ leaked = FALSE /\ revived = FALSE /\ doubted = {}

-----------------------------------------------------------------------------
(* The lease, one UPDATE each (lib/db/sessions.ts)                         *)

Unleased_Any(r) == TRUE

\* claimSessionSandboxProvisioningRunId succeeds.
Unleased(r) == lease = NoRun

ClaimLease(r) == lease' = IF Unleased(r) THEN r ELSE lease

\* clearSessionSandboxProvisioningRunIdIfOwned
ReleaseLease(r) == lease' = IF lease = r THEN NoRun ELSE lease

\* The sandbox is told to stop: it does, or the call fails.
StopBox      == box' = FALSE /\ leaked' = FALSE
StopBoxFails == UNCHANGED box /\ leaked' = box

-----------------------------------------------------------------------------
(* kickSandboxProvisioningWorkflow                                         *)

LookAt_Any(l) == "alive"

LookAt(l)   == IF l = NoRun THEN "start" ELSE "alive"

Goes(c, l)  == call' = [call EXCEPT ![c].pc = l]
Leaps(c, l) == call' = [call EXCEPT ![c] = [pc |-> l, read |-> NoRun]]

\* Nothing to do for an archived session, or for one with its sandbox.
Kick(c) ==
    /\ call[c].pc = "new"
    /\ c \in Alone => chat = "off" /\ \A q \in Requests : req[q] = "none"
    /\ \/ (archived \/ live) /\ Leaps(c, "done")
       \/ /\ ~archived /\ ~live
          /\ call' = [call EXCEPT ![c] = [pc |-> LookAt(lease), read |-> lease]]
    /\ UNCHANGED <<row, lease, box, status, work, archiver, unarchive, users, history>>

\* isRunStillLive; a live run is waited for.
Alive(c) ==
    /\ call[c].pc = "alive"
    /\ IF status[call[c].read] = "live" THEN Leaps(c, "done") ELSE Goes(c, "clear")
    /\ UNCHANGED <<row, lease, box, status, work, archiver, unarchive, users, history>>

\* The status cannot be read: the run is taken to be over.
AliveFails(c) ==
    /\ call[c].pc = "alive"
    /\ Goes(c, "clear")
    /\ UNCHANGED <<row, lease, box, status, work, archiver, unarchive, users, history>>

Clear(c) ==
    /\ call[c].pc = "clear"
    /\ ReleaseLease(call[c].read)
    /\ IF lease = call[c].read
         THEN /\ Leaps(c, "start")
              /\ doubted' = doubted \cup {r \in {lease} : status[r] = "live"}
         ELSE Leaps(c, "latest") /\ UNCHANGED doubted
    /\ UNCHANGED <<row, box, status, work, archiver, unarchive, users, leaked, revived>>

\* Somebody else has changed the lease.
Latest(c) ==
    /\ call[c].pc = "latest"
    /\ Leaps(c, IF archived \/ live \/ lease # NoRun THEN "done" ELSE "start")
    /\ UNCHANGED <<row, lease, box, status, work, archiver, unarchive, users, history>>

Start(c) ==
    /\ call[c].pc = "start"
    /\ status' = [status EXCEPT ![c] = "live"]
    /\ work' = [work EXCEPT ![c] = "read"]
    /\ Goes(c, "claim")
    /\ UNCHANGED <<row, lease, box, archiver, unarchive, users, history>>

ClaimFor(c) ==
    /\ call[c].pc = "claim"
    /\ ClaimLease(c)
    /\ Goes(c, IF Unleased(c) THEN "mark" ELSE "look")
    /\ UNCHANGED <<row, box, status, work, archiver, unarchive, users, history>>

\* The run may have claimed the lease itself; if another one has it, that is waited for.
Look(c) ==
    /\ call[c].pc = "look"
    /\ \/ lease = c /\ Goes(c, "mark")
       \/ lease = NoRun /\ Goes(c, "cancel")
       \/ lease \notin {c, NoRun} /\ Leaps(c, "done")
    /\ UNCHANGED <<row, lease, box, status, work, archiver, unarchive, users, history>>

\* A run that has not begun never will; a step that runs is not interrupted.
Cancel(c) ==
    /\ call[c].pc = "cancel"
    /\ status' = [status EXCEPT ![c] = "over"]
    /\ IF work[c] = "read"
         THEN work' = [work EXCEPT ![c] = "over"] /\ UNCHANGED doubted
         ELSE doubted' = doubted \cup {c} /\ UNCHANGED work
    /\ Leaps(c, "done")
    /\ UNCHANGED <<row, lease, box, archiver, unarchive, users, leaked, revived>>

\* lifecycleState becomes provisioning, whatever it was.
Mark(c) ==
    /\ call[c].pc = "mark"
    /\ closed' = FALSE
    /\ Leaps(c, "done")
    /\ UNCHANGED <<archived, live, lease, box, status, work, archiver, unarchive, users,
                   history>>

-----------------------------------------------------------------------------
(* The workflow: runProvisioning and provisionSessionSandbox               *)

Does(r, w) == work' = [work EXCEPT ![r] = w]

Quit(r) == Does(r, "over") /\ status' = [status EXCEPT ![r] = "over"]

\* A run that finds the lease taken is skipped.
Read(r) ==
    /\ work[r] = "read"
    /\ \/ lease = NoRun /\ Does(r, "claim") /\ UNCHANGED status
       \/ lease = r /\ Does(r, "check") /\ UNCHANGED status
       \/ lease \notin {r, NoRun} /\ Quit(r)
    /\ UNCHANGED <<row, lease, box, call, archiver, unarchive, users, history>>

SelfClaim(r) ==
    /\ work[r] = "claim"
    /\ ClaimLease(r)
    /\ IF Unleased(r) THEN Does(r, "check") /\ UNCHANGED status ELSE Quit(r)
    /\ UNCHANGED <<row, box, call, archiver, unarchive, users, history>>

\* An archived session is an error; so is a repository that cannot be read.
Check(r) ==
    /\ work[r] = "check"
    /\ Does(r, "fail") \/ (~archived /\ Does(r, "connect"))
    /\ UNCHANGED <<row, lease, box, status, call, archiver, unarchive, users, history>>

\* The sandbox of the session is resumed, or created, or that fails; so may the call that
\* revokes its token, when the sandbox runs.
Connect(r) ==
    /\ work[r] = "connect"
    /\ \/ box' = TRUE /\ Does(r, "save") /\ UNCHANGED leaked
       \/ box' = TRUE /\ Does(r, "fail") /\ leaked' = TRUE
       \/ UNCHANGED <<box, leaked>> /\ Does(r, "fail")
    /\ UNCHANGED <<row, lease, status, call, archiver, unarchive, users, revived, doubted>>

Writable_Always == TRUE

\* The condition of updateSessionIfNotArchived
Writable == ~archived /\ ~closed

Save(r) ==
    /\ work[r] = "save"
    /\ IF Writable
         THEN /\ Does(r, "release")
              /\ live' = TRUE /\ closed' = FALSE
              /\ leaked' = FALSE /\ revived' = FALSE
         ELSE Does(r, "undo") /\ UNCHANGED <<live, closed, leaked, revived>>
    /\ UNCHANGED <<archived, lease, box, status, call, archiver, unarchive, users, doubted>>

\* The write fails.
SaveFails(r) ==
    /\ work[r] = "save"
    /\ Does(r, "fail")
    /\ leaked' = (leaked \/ box)
    /\ UNCHANGED <<row, lease, box, status, call, archiver, unarchive, users, revived,
                   doubted>>

\* stopSandboxAfterArchiveRace
Undo(r) ==
    /\ work[r] = "undo"
    /\ StopBox \/ StopBoxFails
    /\ Does(r, "release")
    /\ UNCHANGED <<row, lease, status, call, archiver, unarchive, users, revived, doubted>>

\* lifecycleState becomes failed, whatever it was.
Fail(r) ==
    /\ work[r] = "fail"
    /\ closed' = FALSE
    /\ Does(r, "throw")
    /\ UNCHANGED <<archived, live, lease, box, status, call, archiver, unarchive, users,
                   history>>

\* The lease is given up before the error is thrown, and the service tries the step again
\* a few times.
Throw(r) ==
    /\ work[r] = "throw"
    /\ ReleaseLease(r)
    /\ Quit(r) \/ (Does(r, "read") /\ UNCHANGED status)
    /\ UNCHANGED <<row, box, call, archiver, unarchive, users, history>>

Release(r) ==
    /\ work[r] = "release"
    /\ ReleaseLease(r)
    /\ Quit(r)
    /\ UNCHANGED <<row, box, call, archiver, unarchive, users, history>>

\* The workflow service runs the whole step again when the process that ran it dies.
Again(r) ==
    /\ work[r] \notin {"none", "read", "over"}
    /\ Does(r, "read")
    /\ leaked' = (leaked \/ (box /\ work[r] \in {"save", "undo"}))
    /\ UNCHANGED <<row, lease, box, status, call, archiver, unarchive, users, revived,
                   doubted>>

-----------------------------------------------------------------------------
(* archiveSession and finalizeArchivedSessionSandbox                       *)

Moves(a, l) == archiver' = [archiver EXCEPT ![a] = l]

Archive(a) ==
    /\ archiver[a] = "idle" /\ ~archived
    /\ Moves(a, "update")
    /\ UNCHANGED <<row, lease, box, status, work, call, unarchive, users, history>>

\* The state of the repository has been read meanwhile.
Update(a) ==
    /\ archiver[a] = "update"
    /\ archived' = TRUE /\ closed' = TRUE
    /\ Moves(a, "finalize")
    /\ UNCHANGED <<live, lease, box, status, work, call, unarchive, users, history>>

Finalize(a) ==
    /\ archiver[a] = "finalize"
    /\ Moves(a, IF archived /\ live THEN "stop" ELSE "done")
    /\ UNCHANGED <<row, lease, box, status, work, call, unarchive, users, history>>

Stop(a) ==
    /\ archiver[a] = "stop"
    /\ (StopBox /\ Moves(a, "record")) \/ (StopBoxFails /\ Moves(a, "failed"))
    /\ UNCHANGED <<row, lease, status, work, call, unarchive, users, revived, doubted>>

Record(a) ==
    /\ archiver[a] = "record"
    /\ live' = FALSE /\ closed' = TRUE
    /\ leaked' = (leaked \/ (box /\ revived)) /\ revived' = FALSE
    /\ Moves(a, "done")
    /\ UNCHANGED <<archived, lease, box, status, work, call, unarchive, users, doubted>>

Failed(a) ==
    /\ archiver[a] = "failed"
    /\ \/ archived /\ Moves(a, IF live THEN "patch" ELSE "note")
       \/ ~archived /\ Moves(a, "done")
    /\ UNCHANGED <<row, lease, box, status, work, call, unarchive, users, history>>

\* The runtime data is dropped although the sandbox could not be stopped.
Patch(a) ==
    /\ archiver[a] = "patch"
    /\ live' = FALSE /\ closed' = TRUE
    /\ leaked' = box /\ revived' = FALSE
    /\ Moves(a, "done")
    /\ UNCHANGED <<archived, lease, box, status, work, call, unarchive, users, doubted>>

Note(a) ==
    /\ archiver[a] = "note"
    /\ closed' = TRUE
    /\ Moves(a, "done")
    /\ UNCHANGED <<archived, live, lease, box, status, work, call, unarchive, users, history>>

\* PATCH answers 409 as long as the sandbox "is still being paused".
Pausing == live

Unarchive ==
    /\ archived /\ ~Pausing /\ ~unarchive
    /\ unarchive' = TRUE
    /\ UNCHANGED <<row, lease, box, status, work, call, archiver, users, history>>

Reopen ==
    /\ unarchive
    /\ archived' = FALSE /\ closed' = FALSE
    /\ unarchive' = FALSE
    /\ UNCHANGED <<live, lease, box, status, work, call, archiver, users, history>>

-----------------------------------------------------------------------------
(* A chat in the sandbox: resolveChatSandboxRuntime, persistSandboxState    *)

Speaks(l) == chat' = l /\ UNCHANGED req

\* A bound.
UsersMayCome == \A c \in Alone : call[c].pc = "new"

Enter ==
    /\ UsersMayCome /\ chat = "off"
    /\ ~archived /\ live
    /\ Speaks("on")
    /\ UNCHANGED <<row, lease, box, status, work, call, archiver, unarchive, history>>

\* The state of the sandbox is read at the end of the answer, without resuming it ...
Leave ==
    /\ chat = "on"
    /\ Speaks(IF box THEN "saved" ELSE "lost")
    /\ UNCHANGED <<row, lease, box, status, work, call, archiver, unarchive, history>>

\* ... and written whatever the row says; or the answer or one of the two failed.
Persist ==
    /\ chat \in {"saved", "lost"}
    /\ Speaks("off")
    /\ \/ /\ live' = (chat = "saved") /\ closed' = FALSE
          /\ revived' = (archived /\ chat = "saved")
          /\ leaked' = (leaked \/ (box /\ chat = "lost"))
       \/ UNCHANGED <<live, closed, revived, leaked>>
    /\ UNCHANGED <<archived, lease, box, status, work, call, archiver, unarchive, doubted>>

-----------------------------------------------------------------------------
(* Requests of the user, archived or not                                   *)

\* POST and DELETE sandbox, PUT and POST snapshot, extend, reconnect, activity, status.

Asks(q, l) == req' = [req EXCEPT ![q] = l] /\ UNCHANGED chat

\* POST and PUT start the sandbox; extend finds it in the row.
Open(q) ==
    /\ UsersMayCome /\ req[q] = "none"
    /\ box' = TRUE \/ (live /\ UNCHANGED box)
    /\ Asks(q, "save")
    /\ UNCHANGED <<row, lease, status, work, call, archiver, unarchive, history>>

SaveOpen(q) ==
    /\ req[q] = "save"
    /\ live' = TRUE /\ closed' = FALSE
    /\ leaked' = FALSE /\ revived' = archived
    /\ Asks(q, "none")
    /\ UNCHANGED <<archived, lease, box, status, work, call, archiver, unarchive, doubted>>

\* DELETE and POST snapshot stop it; a reconnect finds that it is gone ...
Pause(q) ==
    /\ UsersMayCome /\ req[q] = "none" /\ live
    /\ StopBox \/ (~box /\ UNCHANGED <<box, leaked>>)
    /\ Asks(q, "record")
    /\ UNCHANGED <<row, lease, status, work, call, archiver, unarchive, revived, doubted>>

RecordPause(q) ==
    /\ req[q] = "record"
    /\ live' = FALSE /\ closed' = FALSE
    /\ leaked' = (leaked \/ box) /\ revived' = FALSE
    /\ Asks(q, "none")
    /\ UNCHANGED <<archived, lease, box, status, work, call, archiver, unarchive, doubted>>

\* ... or that it is there; then it writes the runtime data the row had.  Activity and
\* status write lifecycleState alone.
Reconnect(q) ==
    /\ UsersMayCome /\ req[q] = "none" /\ live
    /\ (box /\ Asks(q, "seen")) \/ (~closed /\ Asks(q, "touch"))
    /\ UNCHANGED <<row, lease, box, status, work, call, archiver, unarchive, history>>

WriteBack(q) ==
    /\ \/ req[q] = "seen" /\ live' = TRUE /\ closed' \in {closed, FALSE}
          /\ revived' = (revived \/ archived)
       \/ req[q] = "touch" /\ closed' = FALSE /\ UNCHANGED <<live, revived>>
    /\ Asks(q, "none")
    /\ UNCHANGED <<archived, lease, box, status, work, call, archiver, unarchive, leaked,
                   doubted>>

\* An await after the start or the stop fails, or the request is torn down.
LoseRequest(q) ==
    /\ req[q] # "none"
    /\ leaked' = (leaked \/ (req[q] = "save" /\ box))
    /\ Asks(q, "none")
    /\ UNCHANGED <<row, lease, box, status, work, call, archiver, unarchive, revived,
                   doubted>>

-----------------------------------------------------------------------------
Provision(r) == Read(r) \/ SelfClaim(r) \/ Check(r) \/ Connect(r) \/ Save(r) \/ SaveFails(r)
                \/ Undo(r) \/ Fail(r) \/ Throw(r) \/ Release(r)

Handle(c) == Kick(c) \/ Alive(c) \/ AliveFails(c) \/ Clear(c) \/ Latest(c) \/ Start(c)
             \/ ClaimFor(c) \/ Look(c) \/ Cancel(c) \/ Mark(c)

Close(a) == Archive(a) \/ Update(a) \/ Finalize(a) \/ Stop(a) \/ Record(a) \/ Failed(a)
            \/ Patch(a) \/ Note(a)

Serve(q) == Open(q) \/ SaveOpen(q) \/ Pause(q) \/ RecordPause(q) \/ Reconnect(q)
            \/ WriteBack(q) \/ LoseRequest(q)

Next == \/ \E c \in Calls : Handle(c)
        \/ \E r \in Runs : Provision(r) \/ Again(r)
        \/ \E a \in Archivers : Close(a)
        \/ Unarchive \/ Reopen
        \/ Enter \/ Leave \/ Persist
        \/ \E q \in Requests : Serve(q)

Spec == Init /\ [][Next]_vars

\* Requests, runs and the work left for after a request go on once they have begun.
FairSpec ==
    /\ Spec
    /\ \A c \in Calls : WF_vars(call[c].pc # "new" /\ Handle(c)) /\ WF_vars(Provision(c))
    /\ \A a \in Archivers : WF_vars(archiver[a] # "idle" /\ Close(a))
    /\ WF_vars(Reopen) /\ WF_vars(Leave) /\ WF_vars(Persist)

-----------------------------------------------------------------------------
(* Safety                                                                  *)

Provisioning(r) == work[r] \in {"check", "connect", "save", "undo", "fail", "throw", "release"}

\* The lease is a lock: however calls start runs, cancel duplicates and clear what a dead
\* run has left, no two runs set the sandbox up at the same time, unless the status of
\* one could not be read or one was cancelled in the middle of its step.  POST sandbox and
\* PUT snapshot set it up as well, and do not take the lease.
OneProvisioner ==
    \A r, s \in Runs \ doubted : Provisioning(r) /\ Provisioning(s) => r = s

\* archive-session.ts and stopSandboxAfterArchiveRace: whenever the archive meets the set
\* up of the sandbox by a run, one of them stops it.  When nobody is at it any more, an
\* archived session has no sandbox that runs and no runtime data that would keep it
\* archived.  The exceptions are those of leaked and revived: the chats and the requests,
\* which write their sandbox to the session whether it is archived or not, a call that
\* fails between the start or the stop of the sandbox and the write that tells of it, and
\* such a write that comes late.
ArchivedIsStopped ==
    archived /\ (\A a \in Archivers : archiver[a] \notin Finalizing)
             /\ (\A r \in Runs : work[r] \notin {"save", "undo"})
             /\ (\A q \in Requests : req[q] # "save")
        => (box => leaked \/ revived) /\ (live => revived)

-----------------------------------------------------------------------------
(* What the documents say and the code does not do                         *)

\* route.ts of the session: "Sandbox is still being paused for this archived session.
\* Please try unarchiving again in a few seconds."
ArchiveSettles == archived /\ live ~> ~(archived /\ live)
=============================================================================
