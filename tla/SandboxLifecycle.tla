-------------------------- MODULE SandboxLifecycle --------------------------
(***************************************************************************)
(* Hibernation of the sandbox of a session of the web application:         *)
(* kickSandboxLifecycleWorkflow (lib/sandbox/lifecycle-kick.ts), the       *)
(* workflow it starts (app/workflows/sandbox-lifecycle.ts) and             *)
(* evaluateSandboxLifecycle (lib/sandbox/lifecycle.ts), on a row that      *)
(* chats and the user's requests write as well.                            *)
(*                                                                         *)
(* A kick claims the lease lifecycleRunId with one conditional UPDATE; all *)
(* other writes of the row have no condition, and come after reads and     *)
(* calls of the sandbox.  An action is one read, one write or one call;    *)
(* two are one action where the gap between them is that of another        *)
(* action, which is named there.  What a chat does in the sandbox, and the *)
(* slot activeStreamId that an evaluation looks at, are two things.        *)
(*                                                                         *)
(* The session is never archived here: that, and the lease of its          *)
(* provisioning, are in SessionSandbox.  The workflow service loses no     *)
(* run, and runs no step twice, unless it has thrown an error.             *)
(***************************************************************************)
EXTENDS Naturals

CONSTANTS Runs,      \* ids of lifecycle runs, each with the request that kicks it
          Mortal,    \* those whose request may be torn down
          Requests,  \* how many requests of the user are under way at once: a bound
          Alone,     \* those that are not at work while there is a chat: a bound
          NoRun

ASSUME LifecycleAssumption ==
    NoRun \notin Runs /\ Mortal \subseteq Runs /\ Alone \subseteq Runs

VARIABLES
    state,    \* sessions.lifecycleState
    live,     \* sessions.sandboxState has runtime data: canOperateOnSandbox
    lease,    \* sessions.lifecycleRunId
    due,      \* 0: before getLifecycleDueAtMs, 1: past it, 2: past the grace as well
    box,      \* the sandbox of the session runs
    work,     \* work[r]: where the kick or the run r is
    inline,   \* the runs whose request evaluates itself, as the service is not there
    slot,     \* a chat of the session has an activeStreamId
    chat,     \* what a chat of the session is doing in the sandbox
    req,      \* req[q]: what a request of the user has done, and has yet to write
    unsaved,  \* history: whoever started the sandbox failed or died before it was saved
    crossed,  \* history: the sandbox was started while somebody who had stopped it, or
              \* found it stopped, had yet to write that
    marred    \* history: since the session was used or hibernated, an inline evaluation was
              \* torn down half-way, or the lease of a run was taken before its first sleep

row     == <<state, live, lease, due>>
users   == <<slot, chat, req>>
history == <<unsaved, crossed, marred>>
vars    == <<row, box, work, inline, users, history>>

Evaluating == {"mark", "recheck", "reread", "stop", "record", "restore"}
Young      == {"decide", "lease", "take", "verify"}

TypeOK ==
    /\ state \in {"provisioning", "active", "hibernating", "hibernated", "failed"}
    /\ live \in BOOLEAN /\ box \in BOOLEAN
    /\ lease \in Runs \cup {NoRun}
    /\ due \in 0 .. 2
    /\ work \in [Runs -> {"none", "dead", "unstale", "claim", "start", "fallback", "drop",
                          "evaluate", "look", "release", "unlease"} \cup Young \cup Evaluating]
    /\ inline \subseteq {r \in Runs : work[r] \in {"evaluate", "look"} \cup Evaluating}
    /\ chat \in {"off", "asked", "starting", "save", "on", "ending", "saved", "lost", "leaving"}
    /\ req \in [Requests -> {"none", "save", "record", "seen", "mend"}]
    /\ slot \in BOOLEAN
    /\ unsaved \in BOOLEAN /\ crossed \in BOOLEAN /\ marred \in BOOLEAN

\* The session has its sandbox and nobody watches it yet.
Init ==
    /\ state = "active" /\ live = TRUE /\ lease = NoRun /\ due = 0
    /\ box = TRUE
    /\ work = [r \in Runs |-> "none"]
    /\ inline = {}
    /\ chat = "off" /\ slot = FALSE
    /\ req = [q \in Requests |-> "none"]
    /\ unsaved = FALSE /\ crossed = FALSE /\ marred = FALSE

Goto(r, l) == work' = [work EXCEPT ![r] = l]

\* Somebody has stopped the sandbox, or found it stopped, and has yet to write that.
Stopped == \/ \E r \in Runs : work[r] = "record"
           \/ \E q \in Requests : req[q] = "record"
           \/ chat = "lost"

\* buildActiveLifecycleUpdate: active, and the time it may stay idle begins anew.
Refresh == state' = "active" /\ due' = 0 /\ marred' = FALSE

\* The same with the state of a sandbox that runs.
SaveLive == /\ Refresh /\ live' = TRUE
            /\ unsaved' = FALSE /\ crossed' = (crossed /\ Stopped)

\* What has been started will not be saved.
LoseSave == unsaved' = (unsaved \/ (box /\ ~live))

\* buildHibernatedLifecycleUpdate, with the state of a sandbox that was stopped.
Hibernated == /\ state' = "hibernated" /\ live' = FALSE /\ due' = 0 /\ lease' = NoRun
              /\ marred' = FALSE

\* The sandbox is resumed, or is running already.
Start == box' = TRUE /\ crossed' = (crossed \/ (~box /\ Stopped))

\* It stops.
StopBox == box' = FALSE /\ unsaved' = FALSE /\ crossed' = FALSE

-----------------------------------------------------------------------------
(* kickSandboxLifecycleWorkflow                                            *)

Stale_Never == FALSE

\* isLifecycleRunStale
Stale == lease # NoRun /\ state = "active" /\ due = 2

\* The request reads the row; a kick that would write nothing is left out.
Kick(r) ==
    /\ work[r] = "none" /\ lease # r
    /\ r \in Alone => chat = "off" /\ ~slot
    /\ \/ Stale /\ Goto(r, IF live THEN "unstale" ELSE "unlease")
       \/ lease = NoRun /\ live /\ Goto(r, "claim")
    /\ UNCHANGED <<row, box, inline, users, history>>

\* The lease is cleared, whoever has it by now.
Unstale(r) ==
    /\ work[r] = "unstale"
    /\ lease' = NoRun
    /\ marred' = (marred \/ \E s \in Runs : lease = s /\ work[s] \in {"start"} \cup Young)
    /\ Goto(r, "claim")
    /\ UNCHANGED <<state, live, due, box, inline, users, unsaved, crossed>>

\* claimSessionLifecycleRunId
Claim(r) ==
    /\ work[r] = "claim"
    /\ IF lease = NoRun THEN lease' = r /\ Goto(r, "start")
                        ELSE Goto(r, "none") /\ UNCHANGED lease
    /\ UNCHANGED <<state, live, due, box, inline, users, history>>

\* The workflow service takes the run, or it is not there.
StartRun(r) ==
    /\ work[r] = "start"
    /\ Goto(r, "decide") \/ Goto(r, "fallback")
    /\ UNCHANGED <<row, box, inline, users, history>>

\* The request evaluates the session itself, after it has given the lease back.
Fallback(r) ==
    /\ work[r] = "fallback"
    /\ IF lease = r THEN Goto(r, "drop") /\ UNCHANGED inline
                    ELSE Goto(r, "evaluate") /\ inline' = inline \cup {r}
    /\ UNCHANGED <<row, box, users, history>>

Drop(r) ==
    /\ work[r] = "drop"
    /\ lease' = NoRun
    /\ Goto(r, "evaluate") /\ inline' = inline \cup {r}
    /\ UNCHANGED <<state, live, due, box, users, history>>

-----------------------------------------------------------------------------
(* sandboxLifecycleWorkflow                                                *)

\* computeLifecycleWakeDecision reads the row ...
Decide(r) ==
    /\ work[r] = "decide"
    /\ Goto(r, IF live THEN "lease" ELSE "release")
    /\ UNCHANGED <<row, box, inline, users, history>>

\* ... and claimLifecycleLease reads it, writes the lease if it is free ...
ReadLease(r) ==
    /\ work[r] = "lease"
    /\ Goto(r, CASE lease = r -> "verify" [] lease = NoRun -> "take" [] OTHER -> "release")
    /\ UNCHANGED <<row, box, inline, users, history>>

Take(r) ==
    /\ work[r] = "take"
    /\ lease' = r
    /\ Goto(r, "verify")
    /\ UNCHANGED <<state, live, due, box, inline, users, history>>

\* ... and reads it again.  Then the run sleeps; nobody looks at the lease after that.
Verify(r) ==
    /\ work[r] = "verify"
    /\ Goto(r, IF lease = r THEN "evaluate" ELSE "release")
    /\ UNCHANGED <<row, box, inline, users, history>>

\* clearLifecycleRunIdIfOwned: a read, and a write without a condition.
Release(r) ==
    /\ work[r] = "release"
    /\ Goto(r, IF lease = r THEN "unlease" ELSE "none")
    /\ UNCHANGED <<row, box, inline, users, history>>

Unlease(r) ==
    /\ work[r] = "unlease"
    /\ lease' = NoRun
    /\ Goto(r, "none")
    /\ UNCHANGED <<state, live, due, box, inline, users, history>>

-----------------------------------------------------------------------------
(* evaluateSandboxLifecycle                                                *)

\* The end of an evaluation: a request is done, a run looks again or ends.
Ends_Open(r, l) == Goto(r, IF r \in inline THEN "none" ELSE l) /\ UNCHANGED inline

Ends(r, l) == /\ Goto(r, IF r \in inline THEN "none" ELSE l)
              /\ inline' = inline \ {r}

\* A run wakes up, or a request begins, and reads the row.
Evaluate(r) ==
    /\ work[r] = "evaluate"
    /\ \/ ~live /\ Ends(r, "release")
       \/ live /\ due = 0 /\ Ends(r, "decide")
       \/ live /\ due > 0 /\ Goto(r, "look") /\ UNCHANGED inline
    /\ UNCHANGED <<row, box, users, history>>

\* hasActiveStreamForSession
Look(r) ==
    /\ work[r] = "look"
    /\ IF ~slot THEN Goto(r, "mark") /\ UNCHANGED inline ELSE Ends(r, "decide")
    /\ UNCHANGED <<row, box, users, history>>

Mark(r) ==
    /\ work[r] = "mark"
    /\ state' = "hibernating"
    /\ Goto(r, "recheck")
    /\ UNCHANGED <<live, lease, due, box, inline, users, history>>

\* The sandbox is connected, and a chat may have taken its slot meanwhile.  The gap between
\* the two is that before the action.
Recheck(r) ==
    /\ work[r] = "recheck"
    /\ Goto(r, IF ~slot THEN "reread" ELSE "restore")
    /\ UNCHANGED <<row, box, inline, users, history>>

\* The row is read again: somebody may have been active meanwhile.
Reread(r) ==
    /\ work[r] = "reread"
    /\ Goto(r, IF live /\ due = 0 THEN "restore" ELSE "stop")
    /\ UNCHANGED <<row, box, inline, users, history>>

\* restoreActiveLifecycleState writes the expiry of a sandbox state read earlier, and so
\* perhaps one that is past.
Restore(r) ==
    /\ work[r] = "restore"
    /\ state' = "active"
    /\ due' \in {due} \cup {d \in {1} : live /\ due = 0}
    /\ Ends(r, "decide")
    /\ UNCHANGED <<live, lease, box, users, history>>

Stop(r) ==
    /\ work[r] = "stop"
    /\ StopBox
    /\ Goto(r, "record")
    /\ UNCHANGED <<row, inline, users, marred>>

Record(r) ==
    /\ work[r] = "record"
    /\ Hibernated
    /\ Ends(r, "release")
    /\ UNCHANGED <<box, users, unsaved, crossed>>

Fail_Forgets(r) ==
    /\ work[r] \in Evaluating
    /\ Hibernated
    /\ Ends(r, "release")
    /\ UNCHANGED <<box, users, unsaved, crossed>>

\* The sandbox cannot be connected or stopped, or the row not be read or written; that is
\* written at once: the gap is that before the action.
Fail(r) ==
    /\ work[r] \in Evaluating
    /\ state' = "failed" /\ lease' = NoRun
    /\ Ends(r, "release")
    /\ UNCHANGED <<live, due, box, users, history>>

-----------------------------------------------------------------------------
(* A chat of the session: its slot                                         *)

\* A bound.
ChatsMayCome == \A r \in Alone : work[r] = "none"

\* A run claims the slot of its chat while it is being attached, or its request does it,
\* and later than that; the claim may also fail, and the run goes on.
ClaimSlot ==
    /\ ChatsMayCome /\ ~slot /\ slot' = TRUE
    /\ UNCHANGED <<row, box, work, inline, chat, req, history>>

\* The run clears it at its end; the page, the stop button and the deletion of a message
\* clear it when they take the run to be over, which it need not be.
ClearSlot ==
    /\ slot /\ slot' = FALSE
    /\ UNCHANGED <<row, box, work, inline, chat, req, history>>

-----------------------------------------------------------------------------
(* ... and its sandbox: resolveChatSandboxRuntime, and the end of the run  *)

Speaks(l) == chat' = l /\ UNCHANGED <<slot, req>>

Ask ==
    /\ ChatsMayCome /\ chat = "off"
    /\ Speaks("asked")
    /\ UNCHANGED <<row, box, work, inline, history>>

\* isSandboxActive: runtime data that has not expired.  With it the sandbox is connected,
\* which can fail; without it the provisioning is kicked.
Attach ==
    /\ chat = "asked"
    /\ \/ live /\ box /\ Speaks("on") /\ UNCHANGED state
       \/ live /\ Speaks("leaving") /\ UNCHANGED state
       \/ (~live \/ due > 0) /\ Speaks("starting") /\ state' = "provisioning"
    /\ UNCHANGED <<live, lease, due, box, work, inline, history>>

\* The workflow of the provisioning writes what went wrong and throws it, and the service
\* may try again.
SetUpFails == state' = "failed" /\ (Speaks("starting") \/ Speaks("leaving"))

Provision ==
    /\ chat = "starting"
    /\ \/ Start /\ Speaks("save") /\ UNCHANGED state
       \/ SetUpFails /\ UNCHANGED <<box, crossed>>
    /\ UNCHANGED <<live, lease, due, work, inline, unsaved, marred>>

\* The token has been revoked meanwhile; that or the write can fail as well.
Provisioned ==
    /\ chat = "save"
    /\ \/ SaveLive /\ Speaks("asked")
       \/ SetUpFails /\ LoseSave /\ UNCHANGED <<live, due, crossed, marred>>
    /\ UNCHANGED <<lease, box, work, inline>>

\* refreshLifecycleActivity, whatever the row says, if it does not fail ...
Answered ==
    /\ chat = "on"
    /\ Refresh \/ UNCHANGED <<state, due, marred>>
    /\ Speaks("ending")
    /\ UNCHANGED <<live, lease, box, work, inline, unsaved, crossed>>

\* ... and persistSandboxState: a look at the sandbox without resuming it, and a write of
\* what it showed, if none of the two fails.
LookAtBox ==
    /\ chat = "ending"
    /\ Speaks(IF box THEN "saved" ELSE "lost")
    /\ UNCHANGED <<row, box, work, inline, history>>

Persist ==
    /\ chat \in {"saved", "lost"}
    /\ \/ chat = "saved" /\ SaveLive
       \/ chat = "lost" /\ live' = FALSE /\ Refresh /\ UNCHANGED <<unsaved, crossed>>
       \/ UNCHANGED <<live, state, due, history>>
    /\ Speaks("leaving")
    /\ UNCHANGED <<lease, box, work, inline>>

\* An answer that throws comes here at once.
Leave ==
    /\ chat \in {"on", "leaving"}
    /\ Speaks("off")
    /\ UNCHANGED <<row, box, work, inline, history>>

-----------------
(* Requests of the user                                                    *)

\* POST and DELETE sandbox, PUT and POST snapshot, extend, reconnect, activity, status.

Asks(q, l) == req' = [req EXCEPT ![q] = l] /\ UNCHANGED <<slot, chat>>

\* Create and resume start the sandbox, whatever the row says by then; extend finds it in
\* the row.
Connect(q) ==
    /\ req[q] = "none"
    /\ Start \/ (live /\ UNCHANGED <<box, crossed>>)
    /\ Asks(q, "save")
    /\ UNCHANGED <<row, work, inline, unsaved, marred>>

Save(q) ==
    /\ req[q] = "save"
    /\ SaveLive
    /\ Asks(q, "none")
    /\ UNCHANGED <<lease, box, work, inline>>

\* DELETE and POST snapshot stop it; a reconnect finds that it is gone ...
Pause(q) ==
    /\ req[q] = "none" /\ live
    /\ StopBox \/ (~box /\ UNCHANGED <<box, unsaved, crossed>>)
    /\ Asks(q, "record")
    /\ UNCHANGED <<row, work, inline, marred>>

RecordPause(q) ==
    /\ req[q] = "record"
    /\ Hibernated
    /\ Asks(q, "none")
    /\ UNCHANGED <<box, work, inline, unsaved, crossed>>

\* ... or that it is there.  Then it writes the runtime data the row had, which a stop may
\* have cleared meanwhile, and mends a session that had failed.
Reconnect(q) ==
    /\ req[q] = "none" /\ live /\ box
    /\ Asks(q, IF state = "failed" THEN "mend" ELSE "seen")
    /\ UNCHANGED <<row, box, work, inline, history>>

WriteBack(q) ==
    /\ req[q] \in {"seen", "mend"}
    /\ live' = TRUE
    /\ due' \in {due} \cup {d \in {1} : due = 0}
    /\ state' = IF req[q] = "mend" THEN "active" ELSE state
    /\ Asks(q, "none")
    /\ UNCHANGED <<lease, box, work, inline, history>>

\* The token cannot be revoked, the row not be written, or the request is torn down.
LoseRequest(q) ==
    /\ req[q] # "none"
    /\ IF req[q] = "save" THEN LoseSave ELSE UNCHANGED unsaved
    /\ Asks(q, "none")
    /\ UNCHANGED <<row, box, work, inline, crossed, marred>>

Activity ==
    /\ state = "active" /\ due > 0
    /\ Refresh
    /\ UNCHANGED <<live, lease, box, work, inline, users, unsaved, crossed>>

\* GET status: a failed evaluation does not stay failed while there is runtime data.
Recover ==
    /\ state = "failed" /\ live
    /\ state' = "active"
    /\ UNCHANGED <<live, lease, due, box, work, inline, users, history>>

-----------------
(* The environment                                                         *)

Tick ==
    /\ live \/ state = "active"
    /\ due < 2
    /\ due' = due + 1
    /\ UNCHANGED <<state, live, lease, box, work, inline, users, history>>

\* The sandbox reaches its own limit.
Expire ==
    /\ box /\ due > 0
    /\ StopBox
    /\ UNCHANGED <<row, work, inline, users, marred>>

\* A request is torn down, and its kick or its evaluation with it.  The next request is
\* another one.
TornDown(r) ==
    /\ work[r] \in {"unstale", "claim", "start", "fallback", "drop"} \/ r \in inline
    /\ Goto(r, "dead")
    /\ inline' = inline \ {r}
    /\ marred' = (marred \/ work[r] \in Evaluating \ {"mark"})
    /\ UNCHANGED <<row, box, users, unsaved, crossed>>

-----------------------------------------------------------------------------
Handle(r)    == Unstale(r) \/ Claim(r) \/ StartRun(r) \/ Fallback(r) \/ Drop(r)
Workflow(r)  == \/ Decide(r) \/ ReadLease(r) \/ Take(r) \/ Verify(r)
                \/ Release(r) \/ Unlease(r)
Evaluates(r) == \/ Evaluate(r) \/ Look(r) \/ Mark(r) \/ Recheck(r)
                \/ Reread(r) \/ Restore(r) \/ Stop(r) \/ Record(r) \/ Fail(r)
GoesOn(r)    == Handle(r) \/ Workflow(r) \/ Evaluates(r)

Chat == \/ Attach \/ Provision \/ Provisioned \/ Answered \/ LookAtBox \/ Persist \/ Leave
Serve(q) == \/ Connect(q) \/ Save(q) \/ Pause(q) \/ RecordPause(q) \/ Reconnect(q)
            \/ WriteBack(q) \/ LoseRequest(q)

Next == \/ \E r \in Runs : Kick(r) \/ GoesOn(r)
        \/ \E r \in Mortal : TornDown(r)
        \/ ClaimSlot \/ ClearSlot \/ Ask \/ Chat
        \/ \E q \in Requests : Serve(q)
        \/ Activity \/ Recover
        \/ Tick \/ Expire

Spec == Init /\ [][Next]_vars

\* GET status kicks when the session is active and due; the page asks every 15 seconds,
\* and not always at a moment when somebody is writing the row.  What has begun goes on,
\* and so does the clock.
Poll(r) == state = "active" /\ live /\ due > 0 /\ Kick(r)

FairSpec == /\ Spec
            /\ SF_vars(\E r \in Runs : Poll(r))
            /\ \A r \in Runs : WF_vars(GoesOn(r))
            /\ WF_vars(Chat) /\ WF_vars(Tick)

-----------------------------------------------------------------------------
(* Safety                                                                  *)

\* A sandbox that runs is in the row, or whoever has started it is about to write it
\* there; a stop that fails, or that another one has overtaken, does not make the row
\* forget it.  There are two exceptions: a start in the gap between a stop and its record,
\* and one that was not saved, as the request died or an await after it failed.
RowKnowsBox ==
    box => \/ live \/ chat = "save" \/ \E q \in Requests : req[q] = "save"
           \/ crossed \/ unsaved

-----------------------------------------------------------------------------
(* Liveness, under FairSpec                                                *)

\* A session that nobody uses any more is hibernated, wherever the requests that kick it
\* die with the lease in their hands, as long as the page polls: the guard against stale
\* leases and the retry after "not-due-yet" and "active-workflow" see to it.  An evaluation
\* that gives up does not leave it hibernating, which the page does not poll for.  Whatever
\* comes between is activity, or a chat that has the slot or is in the sandbox, or a
\* failed evaluation, or one of the two cases of marred.
Idle == live /\ due > 0 /\ chat = "off" /\ ~slot /\ state # "failed"

IdleHibernates == Idle /\ state \in {"active", "hibernating"} ~> ~Idle \/ marred

-----------------------------------------------------------------------------
(* What the documents say and the code does not do                         *)

\* SANDBOX-LIFECYCLE.md: the times of the last activity are refreshed "At chat start -
\* prevents hibernation during long-running AI responses".  They are refreshed when the
\* answer is there; until then only the slot speaks for the chat, and it may be empty, or
\* be taken after the last look at it.
AnswerKeepsBox == [][\A r \in Runs : Stop(r) => chat # "on"]_vars

\* SANDBOX-LIFECYCLE.md: "Each session keeps at most one durable workflow run", whose
\* lease it "checks before each sleep so older runs exit when replaced".  A run does not
\* look at its lease after its sleep, and two can take one that is free.
Running(r) == r \notin inline /\ work[r] \in {"evaluate", "look"} \cup Evaluating

OneRunEvaluates == \A r, s \in Runs : Running(r) /\ Running(s) => r = s
=============================================================================
