# Vaulltcore in TLA+

Models of the concurrent parts of Vaulltcore, the configurations that check them
with TLC, and theorems about them that TLAPS checks. Sources are named by their
path under the repository.

## The system and its parts

Vaulltcore runs long engineering jobs for tenants: a job is planned into a graph
of tasks, the tasks are executed step by step by worker processes, in sandboxes,
and a web application shows and steers them.

| Part | State it keeps | Operations | What is hard | What makes it correct |
|---|---|---|---|---|
| Durable work queue (`packages/workflow/distributed-store.ts`, `DistributedQueue`) | message records `qmeta`, one list `qvisible`, claims `qinflight` | enqueue, claim, ack, retry, repair | no lock: every operation is several backend calls; crash between any two; visibility timeouts | no delivery to two workers, no message lost for good, no entry for ever |
| Step execution (`scheduler.ts`, `worker.ts`, lease store and `saveStep`/`saveTask` of `distributed-store.ts`) | step, task and lease records with versions | releaseSteps, execute, heartbeat, completeStep, failStep, spawnRetry | leases that expire in use, crash recovery by whoever polls, stale reads | fencing, single flight, dependencies, progress |
| Run life cycle (`worker.ts`, `distributed-runtime.ts`, `status.ts`) | run and job records, cancellation marker, usage | maybeFinalize, cancelRun, failRunBudget, cancel | several workers end one run at once; two records that must agree | a terminal run stays so, run and job agree, every run ends |
| Submission (`distributed-runtime.ts` `submit`, `dag.ts`) | idempotency records, job, run, tasks, steps | submit, orphan recovery | crash anywhere in it, a duplicate that takes over | one run for one request, in the end materialized and enqueued |
| Events, checkpoints, idempotency (`distributed-store.ts`) | counters and lists | append, replay, save, record | check-then-act, gaps, order | exactly-once append, one checkpoint for one sequence number |
| Shared backends (`packages/adapters`) | key-value rows | cas, append, incr, retry of the database | a lost answer to a cas that was applied | atomicity of each call |
| Single-process runtime (`runtime.ts`, `stores.ts`, `cancellation.ts`) | the same in memory | executeRun, executeTask, cancel | cancellation racing completion | as above |
| Runner protocol (`runner-protocol.ts`) | sessions, nonces, assignments | register, assign, receiveResult | late and duplicate results | a result is taken once, from its assignee |
| Artifacts (`packages/storage/artifact.ts`) | metadata rows and objects | reserve, confirm, download, delete, reconcile | two stores that cannot be written together | no READY row without its object, no row purged in use |
| Sandbox lifecycle (`apps/web/lib/sandbox`, `apps/web/app/workflows/sandbox-lifecycle.ts`) | the session row, the sandbox | kick, claim, evaluate, hibernate | reads used after awaits, unconditional writes | one owner, no sandbox stopped under a running chat |
| Sandbox provisioning and archive (`apps/web/lib/sandbox/provisioning*.ts`, `archive-session.ts`) | the session row, a lease on it, the sandbox | kick, provision, archive, unarchive | a workflow that is run again, an archive that meets a set-up | one run at a time, no sandbox left running |
| Chat streams (`apps/web/app/api/chat`, `apps/web/app/workflows/chat.ts`) | `activeStreamId` of the chat | claim, compare-and-set, stop | two requests, a stop racing a finish | one stream for a chat, slot given back |
| Orchestrator (`packages/intelligence`) | job aggregate, budget, task graph | schedule, verify, repair | repair loops, budget limits | legal transitions, bounded work |
| Sandbox drivers, agent, tools, pages, settings, HTTP routes | little | calls to outside services | their services | not candidates for a model |

The parts meet in three places. `submit` writes the run and enqueues a message
for it. A worker's `processOne` claims the message, lets the scheduler release a
step, executes and commits it, acks the message and enqueues the run again;
`reconcile` puts a message back for every run that is still active. The web
application and the runtime share only identifiers.

`PROJECT.json` lists the hazards of this code with the line where each bites and
the properties that speak about it; a hazard without a property says why.

## Modules

| Module | Models | Built on |
|---|---|---|
| `WorkQueue` | abstract: what the queue promises of a message | |
| `DistributedQueue` | the queue, the queue calls of `processOne`, `reconcile`, crashes and the clock | `WorkQueue` (refined) |
| `DistributedQueueProofs` | type correctness, every safety property, the refinement | `DistributedQueue` |
| `FencedStep` | abstract: what leases promise of a step | |
| `StepExecution` | one active run: release, lease, execution, heartbeat, commit, failure and retry of its steps | `FencedStep` (refined) |
| `StepExecutionProofs` | type correctness, fencing, single flight, the refinement, what task records say of steps | `StepExecution` |
| `RunRecords` | statuses, legal transitions and the conditional writes of runs and jobs | |
| `RunLifecycle` | how workers end a run: finalize, cancel, budget, deadline | `RunRecords` |
| `RunLifecycleProofs` | type correctness and every safety property of it | `RunLifecycle` |
| `Submission` | `submit` by several callers, with `planDag` and the recovery of orphans | `RunRecords` |
| `SubmissionProofs` | type correctness and every safety property of it | `Submission` |
| `Artifact`, `ArtifactProofs` | an artifact's row and object under concurrent calls and `reconcile` | |
| `ChatStream`, `ChatStreamProofs` | which workflow run answers in a chat | |
| `SessionSandbox`, `SessionSandboxProofs` | provisioning, archive and unarchive of a session's sandbox | |
| `SandboxLifecycle`, `SandboxLifecycleProofs` | hibernation of a session's sandbox while chats and the user use it | |
| `MCx` | the instances of module `x` | `x` |

The modules compose by assumption and guarantee, not by one big product: a module
takes of its neighbour what that one is shown to promise. `StepExecution` and
`RunLifecycle` are handed the run's message at any time, which is what
`ActiveClaimable` and at-least-once delivery leave open; `RunLifecycle` lets steps and
tasks be set back by old copies, completed ones included, as `StepExecution` shows that
they are, and takes from it only that a task is shown as completed after a result of it
was committed (`DependentsCorrect`); `Submission` lets workers make the moves of
`RunRecords`.

### DistributedQueue

The state is the state of the backend: `meta` (`qmeta`), `visible` (`qvisible`),
`inflight` (`qinflight`), and `active`, the runs the store has as non-terminal.
Each worker and reconciler has a location `pc` and what it has read: the message,
the record, the list. One action is one backend call, or several between which no
other process can make a difference:

| Code | Actions |
|---|---|
| `claim` 912-958 | `ScanList`, `ScanEntry`, `ClaimMeta`, `Register` |
| `processOne` (worker.ts) | `Finish`, `Progress`, `PutBack` |
| `ack` 960-984 | `AckTake`, `AckDelMeta`, `AckUnlist`, `AckUnlistCas` |
| `enqueue` 823-859 | `EnqueueMeta`, `EnqueueAppend` |
| `retry` 986-1016 | `RetryRead`, `RetryCas`, `RetryKeys`, `RetryClear` |
| `repair` 876-910 and `reconcile` | `RepairKeys`, `RepairList`, `Revisible`, `Prune`, `PruneCas`, then the enqueue actions |
| the clock, a dying process | `Timeout`, `Crash` |

Abstractions. A message is its run id; payload, priority and tenant are left out.
`availableAt` is a Boolean: due or not. `gen` stands for `enqueuedAt`: it tells a
message from a later one with the same id. `receivedCount` always moves with `attempt`.
`processOne` is reduced to what it does to the queue, and chooses freely among its
outcomes, so the model allows more than a given executor does. The compare-and-swap on
the list compares values, as the Postgres adapter does. The SQLite adapter refuses one
on a list (`sqlite-backend.ts:172`), so that there no entry is ever removed, and the
in-memory backend hands out its live array and can lose an entry that way; both are
hazards of the list. `deadLetter` is not called anywhere in `src` and is left out, as is
`stats`, which only reads.

`WorkQueue` is the promise without the keys: a message is enqueued when it is not there,
handed out to a worker that has none as the next attempt of its round, deferred (which
uses an attempt up), removed. `DistributedQueue` implements it (`ImplementsQueue`) with the
queue being the messages that have a `qmeta` record, whatever the list says, and a worker
having its delivery from the cas of `claim` on (`Held`). Claims, retries, the deletion of
the record by an ack and the creation by an enqueue are its steps; all work on the list
and on the inflight keys is a stutter, which is why ghosts, double entries and lost entries
delay a message and never corrupt one. The promise is as weak as the code: a message may
be handed out while another worker still has it, and any worker may remove it, also after a
delivery that is no longer the current one.

### StepExecution

The state is the step, task and lease records, and for each worker a record of
where it is in `processOne` and what it remembers. A key of `step` is a step id,
`<<task, attempt>>`. The queue is replaced by what it promises: an idle worker may
be handed the message of the run at any time (`Poll`), because delivery is at
least once and a visibility timeout can end while a worker is busy.

| Code | Actions |
|---|---|
| `releaseSteps` (scheduler.ts 110-209) with `checkDependencies`, the lease's `claim` | `Poll`, `ReadTask`, `CheckDeps`, `ReadStep`, `ReadLease`, `Reset`, `Claim`, `Start`, `Rollback` |
| `processOne` (worker.ts 179-259) with `renew` | `RereadStep`, `RereadTask`, `CheckLease`, `Execute`, `Throw`, `Renew`, `RenewCas` |
| `completeStep` (214-293) | `CompleteRead`, `Fence`, `CompleteSave`, `TaskRead`, `TaskGet`, `TaskCas`, `Revoke` |
| `failStep` (299-343), from the executor's error or a passed deadline | `FailSave`, `TaskRead`, `TaskGet`, `TaskCas`, `Revoke` |
| `decideStepRetry`, `spawnRetry` (worker.ts 415-463) | `Revoke`, `SpawnStep`, `SpawnGet`, `SpawnCas` |
| time, a dying worker | `Expire`, `PassDeadline`, `Crash` |

Abstractions. The run is active for the whole behaviour; how it ends is `RunLifecycle`.
Past the deadline workers keep polling where the code's `guardBudget` would fail the
run: more behaviours, so the safety results carry over; the liveness run has no
deadline. Several dependencies are read at once. `saveStep` is one step (its read and
its compare-and-swap compare the same version), `saveTask` is two, because its
compare-and-swap is on a record that was read after the version check. The four tries of
the lease's `claim` are one step. A lease id is its version at the claim, which is as
unique as the random id. Usage, checkpoints, the transition log and the messages are
left out. History variables, read by no action: `runner` (the lease under which a step
was last started), `lost` (steps a lease of which expired in use), `accepted` (the lease
under which the last result of a step was committed).

`FencedStep` is the promise in two actions: a step is handed out under ever larger
tokens, and one result is accepted under a token, the last one handed out.
`StepExecution` implements it with `token <- runner` and `result <- accepted`
(`ImplementsFencing`): whatever `releaseSteps`, expiry, heartbeats, resets and retries
do is a stutter but for a start, which hands out, and the save of a completion, which
accepts.

### RunLifecycle

The state is the run and the job with their versions, the cancellation marker, the
usage counter, the deadline, and of each task its record and whether its current step
is open; of each worker, where it is in `processOne` and what it has read.

| Code | Actions |
|---|---|
| `processOne` (worker.ts 140-186) with `releaseSteps` | `Poll`, `ReadMarker`, `Release`, `NothingToRelease` |
| `guardBudget`, the executor, commit (188-330) | `Guard` (with `Execute`), `Complete`, `SaveTask`, `Fail`, `Throw`, `AddUsage`, `Recheck` |
| `maybeFinalize`, `cancelRun`, `failRunBudget` (495-618) with `transitionRun`, `saveJob` | `Finalize` (one task at a time), `Read`, `Move`, `GetJob`, `SaveJob` |
| `cancel()` (distributed-runtime.ts 511-535), clock, death | `Cancel`, `PassDeadline`, `Crash` |
| the unchecked reset of `releaseSteps`, a stale `saveTask` (as in `StepExecution`) | `Overwrite` |

A worker that ends a run reads it and moves it, twice but for `failed`, and nobody
looks at whether the move succeeded: `Move` leaves the run alone if its version has
changed, and the worker goes on to save the job. Tasks do not depend on each other.
Any open step may be taken, also while another worker executes it, and `Overwrite` opens
a step that was completed, or lets its task point to an earlier attempt, at any moment,
also between the commit and the end of the run.

Of the budget, `maxModelCalls` and the deadline are kept; every execution makes one
call. Only a result that was committed, or an error the executor returned, is counted,
and `addRunUsage` may give up: what an execution used that was rejected, threw or died with
its worker is in no usage record, although `cloudflare-mapping.md:15` says "Usage
accumulated per step". History variables, read by no action: `kept`, the executions begun
less those that ended uncounted in one of these ways; `done`, the tasks of which a result
was committed; `tardy`, the executions a worker began since the marker exists.

### Submission

One objective, so one job; any number of calls of `submit`, with equal or different
idempotency keys. The state is the set of recorded keys, the job, the runs by number,
the tasks (absent, planned without a current step, pointing to their step, completed),
their steps, the `run.submitted` events, and each call's location and what it read.

| Code | Actions |
|---|---|
| the idempotency record, the duplicate's wait (157-212, 367-421) | `RecordKey`, `Lookup`, `Check` |
| job and run (226-314) | `GetJob`, `GetPrior`, `SaveJob`, `GetRun`, `CreateRun` |
| `planDag` (dag.ts 123-185) | `PlanTask`, `PlanStep`, `PointTask` |
| the second save and the event (328-346) | `GetStored`, `SaveRun`, `AppendEvent` |
| workers, a dying caller | `Work`, `MoveRun`, `EndJob`, `Crash` |

The bounded wait of a duplicate is a choice to look again or to go on. The worker is
reduced to legal moves. The message is left out: `reconcile` finds every active run.

### Artifact

One artifact: its row, its object, a signed URL, whether its upload is past the grace
period; calls at their locations with the row they read, and `reconcile`.

| Code (`artifact.ts`) | Actions |
|---|---|
| `reserveUpload` 186-233 | `Reserve`, `Insert`, `Begin`, `Reread`, `Sign` |
| `confirmUpload` 241-284 | `Confirm`, `Head`, `Ready`, `Lost` |
| `deleteArtifact` 317-354 | `Delete`, `Mark`, `Remove`, `PurgeRow` |
| `reconcile` 374-433 | `List`, `Exists`, `MarkLost`, `RemoveAgain`, `PurgeAgain`, `MarkStalled`, `ReconcileFails` |
| client, clock, death (external) | `Put`, `ExpireUrl`, `GraceOver`, `Crash` |

A row is its lifecycle; sizes, checksums and the report are left out. A row created
anew after a purge is the same row again, which is what the stale calls can confuse.
Orphan objects are only reported by the code, and a RESERVED row left by a crash is
only taken up by the next `reserveUpload`: neither is promised to end.

### ChatStream

`slot` is `chats.activeStreamId`; `status` what the workflow service says of a run,
`work` what the run does; requests and pages have locations and what they read.

| Code | Actions |
|---|---|
| POST (`api/chat/route.ts`) | `Post`, `Check`, `CheckFails`, `ClearStale`, `Again`, `Start`, `ClaimFor`, `CancelDuplicate` |
| `runAgentWorkflow` and `chat-post-finish.ts` | `SelfClaim`, `ClaimFails`, `SelfClear`, `Exit`, `Halt` |
| POST `stop` | `Stop`, `CancelRun`, `ClearStopped` |
| GET `stream`, DELETE of a message | `View`, `Look`, `LookFails`, `ClearSeen` |
| a handler torn down | `TornDown` |

A cancelled run that answers notices within its monitor's period (`Halt`). History
variable: `adrift`, the runs that answer although the database did not take their
claim, or whose slot was cleared by somebody who could not read their status. The
unconditional clears of `stream` and of the deletion make that set necessary.

### SessionSandbox

The session row (`archived`, `closed`, `live`), the lease of the provisioning, whether
the sandbox runs, and the runs, kicks, archivers, the chat and requests of the user at
their locations.

| Code | Actions |
|---|---|
| `kickSandboxProvisioningWorkflow` | `Kick`, `Alive`, `AliveFails`, `Clear`, `Latest`, `Start`, `ClaimFor`, `Look`, `Cancel`, `Mark` |
| `runProvisioning`, `provisionSessionSandbox` | `Read`, `SelfClaim`, `Check`, `Connect`, `Save`, `SaveFails`, `Undo`, `Fail`, `Throw`, `Release`, `Again` |
| `archiveSession`, `finalizeArchivedSessionSandbox` | `Archive`, `Update`, `Finalize`, `Stop`, `Record`, `Failed`, `Patch`, `Note` |
| PATCH `status: running` | `Unarchive`, `Reopen` |
| a chat (`chat-sandbox-runtime.ts`, `persistSandboxState`) | `Enter`, `Leave`, `Persist` |
| POST `sandbox`, PUT `snapshot`, `extend` | `Open`, `SaveOpen` |
| DELETE `sandbox`, POST `snapshot`, `reconnect`, `activity`, `status` | `Pause`, `RecordPause`, `Reconnect`, `WriteBack` |
| one of these that fails or is torn down between its two halves | `LoseRequest` |

`Again` is the workflow service running the step again after its process died. The
requests ask for the owner of the session and not whether it is archived
(`requireOwnedSession`), take no lease, and write without a condition. The
snapshot, expiry times and errors of the row are left out. History variables:
`leaked`, `revived`, `doubted`, the exceptions the properties name. `leaked` is a call
that failed, or a process that died, between the start or the stop of the sandbox and
the write that tells of it, and a write that comes late; `revived` a sandbox that a chat or
a request has written to an archived session.

### SandboxLifecycle

The session row (`state`, `live`, `lease` for `lifecycleRunId`, `due`), whether the
sandbox runs, each kick and the run it starts at its location, what a chat does in the
sandbox (`chat`), whether a chat has its `activeStreamId` (`slot`), and requests.

| Code | Actions |
|---|---|
| `kickSandboxLifecycleWorkflow`, `startLifecycleRun` | `Kick`, `Unstale`, `Claim`, `StartRun`, `Fallback`, `Drop` |
| `sandboxLifecycleWorkflow`, `claimLifecycleLease`, `clearLifecycleRunIdIfOwned` | `Decide`, `ReadLease`, `Take`, `Verify`, `Release`, `Unlease` |
| `evaluateSandboxLifecycle` | `Evaluate`, `Look`, `Mark`, `Recheck`, `Reread`, `Restore`, `Stop`, `Record`, `Fail` |
| a chat (`chat-sandbox-runtime.ts`, `chat-post-finish.ts`, `provisioning.ts`) | `Ask`, `Attach`, `Provision`, `Provisioned`, `Answered`, `LookAtBox`, `Persist`, `Leave` |
| the slot (`claimActiveStream`, `clearActiveStream`, `stream`, `stop`) | `ClaimSlot`, `ClearSlot` |
| requests of the user (`api/sandbox/*`) | `Connect`, `Save`, `Pause`, `RecordPause`, `Reconnect`, `WriteBack`, `LoseRequest`, `Activity`, `Recover` |
| clock, provider, death | `Tick`, `Expire`, `TornDown` |

Times are reduced to `due`: before the time of hibernation, past it, past the grace of
the stale guard too. The two clocks of the code, inactivity and expiry, are one, so that
whatever depends on only one of them is a choice. The sleep of a run is the pause before
`Evaluate`, of any length. Archiving is in `SessionSandbox`: here the row is never
archived, and there nothing hibernates. The provisioning a chat waits for has one run,
which is what `OneProvisioner` says.

The slot is not the chat. A run attaches to the sandbox (chat.ts 621) before it claims
its slot (633), goes on when the claim fails (chat-post-finish.ts 336), and the slot of a
live run can be cleared by a page; so `ClaimSlot` and `ClearSlot` happen at any time, and an
evaluation looks at `slot` alone. How the slot itself behaves is `ChatStream`.

A start of the sandbox and the save of its state are two actions, `Connect` and `Save`
for a request, `Provision` and `Provisioned` for the provisioning: the revoke of the token or
the write may fail in between, and a request be torn down (`LoseSave`, `LoseRequest`); the
sandbox then runs and the row does not know it, which is `unsaved`. The other history
variables are `crossed` and `marred`, which the properties explain. `Restore` and `WriteBack`
may write the expiry of a state read earlier and so make the session due again. A stop
makes the session `hibernated`: its sandbox is a named one that can be resumed.

A definition `X_Y` is `X` with the bug `Y`; the specification never uses it. They
show that each property can fail: `PROJECT.json` pairs every property with one.

## Runs

| Run | Instance and bounds | Shows |
|---|---|---|
| `queue` | 2 workers, one mortal, 1 reconciler, 1 run, 2 enqueues of it, 3 attempts, fair | `TypeOK`, `UniqueDelivery`, `AttemptsNeverLost`, `ImplementsQueue`, `ActiveClaimable`, `GhostsPruned` |
| `step_safety` | 2 workers, one with heartbeats, 1 task, 1 retry, 2 leases for each step | `TypeOK`, `CurrentStepExists`, `SingleFlight`, `FencedCommit`, `ImplementsFencing` |
| `step_chain` | 2 workers, 2 dependent tasks, a deadline, 2 leases for each step | `DependentsWait` |
| `step_live` | 2 workers, one mortal, 1 task, 3 leases, fair | `ReadyStepSettles` |
| `run_end` | 2 workers, one mortal, 2 tasks, old copies of one, a budget of 1 call, a deadline, fair | `TypeOK`, `CompletedIsDone`, `OverrunBounded`, `CancelStopsWork`, `JobNotAhead`, `TerminalStays`, `CancelEndsRun` |
| `submission` | 2 calls with one key, one mortal, 2 tasks, 2 runs, fair | `TypeOK`, `ReturnedIsComplete`, `NextRunAfterEnd`, `ReplayIsSafe`, `RecordedCompletes` |
| `artifact` | 3 calls at a time, one mortal, `reconcile`, fair | `TypeOK`, `MovesForward`, `DeletingEnds`, `DanglingEnds`, `StalledEnds` |
| `chat_owner` | 3 requests, one unlucky, 1 page, 2 tries, fair | `TypeOK`, `AnsweringOwns`, `StaleCleared` |
| `sandbox_archive` | 2 kicks and runs, one alone, 1 archiver, 1 chat, 2 requests at a time | `TypeOK`, `OneProvisioner`, `ArchivedIsStopped` |
| `sandbox_idle` | 2 kicks and runs, one mortal and alone, 1 chat, 1 request at a time, fair | `TypeOK`, `RowKnowsBox`, `IdleHibernates` |
| `step_reverted`, `submit_resurrected` | small | violated, see below |

Bounds. `MaxGen` bounds the enqueues of one message, `MaxAttempt` its claims and
retries, `MaxLeases` the claims of a lease, `MaxRetries` is the policy's own
constant. Two enqueues are what a stale ack, a late removal and a re-enqueue need
to meet; three attempts are a delivery, a retry and a redelivery by another
worker. Two leases are one that expires in use and the one that replaces it; the
third of `step_live` lets a worker die with each of two and still be recovered.
Workers that wait at a bound are told apart in the liveness properties
(`Exhausted`, `WornOut`), which promise nothing there.
`run_end` needs two tasks for a finalize that reads them one after the other while they are
executed. With a budget of one call the two workers each begin an execution after one that
was counted, which is where `OverrunBounded` is met; executions that are not counted are not
bounded. `Stale` bounds the tasks of which old copies are saved to one, which finalize reads
before the other; in the theorems any task may be one.
`MaxRuns` is two: a second run is minted when the first has ended between two reads of
a caller. Three artifact calls are a delete, a confirm and a reservation that meet on
one row. Three requests are one that ends, one whose claim is late and one that clears
for it; `Tries` is 3 in the code (2 attempts already meet a slot that changes between
them). One archiver is what one user does; with two of them `ArchivedIsStopped` is
false, because the `Record` of a slow finalizer forgets the sandbox of a session that
has been unarchived and provisioned meanwhile. `OneProvisioner` speaks of two runs, and
`ArchivedIsStopped` of what one run, one chat and two requests leave behind; all at once
is too much for TLC. So `Alone` names kicks that come only when no chat and no request is
under way, and after which none comes: the second kick in `sandbox_archive`, which meets the
first one and the archive whatever chats and requests did before. Two lifecycle
runs are one that is replaced and the one that replaces it; a kick that is over may come
again, so their number in time is not bounded. In `sandbox_idle`, `Alone` keeps the kick that
may be torn down and its run from being at work while there is a chat or its slot; the
other one meets chats, requests meet both. The theorems are for any number of all of them,
and for an empty `Alone`.
`Requests` bounds how many requests are under way at once, not how many come.
Deadlock is checked except where all calls may have returned or all processes be dead.

A worker that never takes another step is, for safety, a dead one: `step_safety` and
`step_chain` need no `Crash` to meet every state a crash leaves behind. In the
liveness runs, where the difference matters, one worker is mortal.

Symmetry is used in `sandbox_archive`, over requests; it has no liveness property.

Fairness. `queue` assumes that a process that is alive goes on (`runWorker` is a loop),
that `reconcile` is called again and again (its comment asks for a periodic call) and
that the clock reaches every `availableAt`. `step_live` assumes that a live worker goes
on, that executors return, and that a lease expires unless it is given back. `run_end`
assumes only that live workers go on polling. `submission` assumes that a call whose
process lives goes on, and, strongly, that its wait for another call ends
(`awaitSubmissionCompletion` has a limit). `artifact` assumes that somebody runs
`reconcile` again and again, which in `src` only tests do, its doc comment leaving it to
an operator, and, strongly, that the object store does not fail it for ever; nothing is
assumed of the calls. `chat_owner` assumes only that the page showing the chat asks for
the stream again and again and that its handler returns; strongly for `View`, since a
slot comes and goes. `sandbox_idle` assumes the same of the page's status poll
(`session-chat-content.tsx`, every 15 seconds while visible), that runs, kicks and chats
that have begun go on, unless torn down, and that the clock does; nothing is assumed of
requests, which may stop half-way. Nothing is assumed of `Throw`, of crashes, of
`PassDeadline`, of cancellations: they may happen and need not.

## Where the code and its documents disagree

Two runs end in a counterexample, which is the behaviour described.

- `step_reverted`: the reset of crash recovery is not checked (`scheduler.ts:153`).
  Versions are counted, not owned: two workers that each move the step by one
  bring it to the same number, and the second overwrites what the first one made
  of it, even a completed step. Two live workers suffice.
- `submit_resurrected`: `submit` saves the run it made before planning, and `saveRun`
  refuses only a larger version: a run that was ended meanwhile is running again.

More statements of documents and comments are written down at the end of each module
under "What the documents say and the code does not do". TLC finds each of them false
under the constants of the module's own run (or those named); no configuration is kept
for them.

- `CompleteIsTransactional` (`StepExecution`, 1 task, one mortal worker): step and task
  are saved separately; a crash in between leaves the task queued with a completed
  step, which nothing repairs.
- `RenewedLeaseCommits` (`StepExecution`, every worker with heartbeats): `renew`
  advances the version that the commit is then compared with, so with heartbeats on no
  result is committed.
- `StaleAckFails` (`DistributedQueue`): an ack asks only for this worker's inflight key.
- `ListedOnce`: `repair` and a slow `enqueue` list a message twice. It is
  harmless for delivery, which the meta record decides (`UniqueDelivery`).
- `NextClaimRedelivers`: a lost retry leaves an inflight key that swallows a later
  redelivery.
- `InflightListed`: the reason given for `repair`'s safety does not hold, since
  a late removal can take the entry of a message in flight; `repair` puts it back.
- `VerifyingEnds` (`RunLifecycle`): a run is moved to `verifying` and to `completed` in
  two calls, after the last commit. If its worker dies in between, no step is left to
  release and nobody calls `maybeFinalize` again.
- `DeadlineEndsRun` (`RunLifecycle`): a run past its deadline is ended only by a worker
  that was given one of its steps before; `releaseSteps` fails the others on the spot.
- `OneRunForOneKey` (`Submission`): the repetition of a call whose run has ended before
  its event was written mints a second run.
- `PurgedWhenDeleting` (`Artifact`): a delete whose transition was lost purges the row
  all the same, whatever it has become.
- `NeverStuck`, `ClearsWhatItSaw` (`ChatStream`): a slot is left behind until somebody
  looks; GET `stream` and the deletion of a message clear a slot that is no longer the
  one they read.
- `ArchiveSettles` (`SessionSandbox`): a chat or a request that ends after the archive
  writes its sandbox back, and the session stays "still being paused".
- `OneRunEvaluates` (`SandboxLifecycle`): a run looks at its lease before its sleep and
  not after it, and `claimLifecycleLease` does not take a free one atomically; so two
  runs can evaluate a session at once. `RowKnowsBox` holds for both.
- `AnswerKeepsBox` (`SandboxLifecycle`): `lastActivityAt` and `hibernateAfter` are refreshed
  when an answer is there (`chat.ts:785`) and not, as `SANDBOX-LIFECYCLE.md:118` says, at
  chat start. A chat whose claim failed, or whose slot was cleared, loses its sandbox in the
  middle of a long answer.

The overwrite of `step_reverted` has more consequences, seen in exploration and listed
under the hazards: a completed task can be written back to queued, a task can go back to
an earlier attempt, and two attempts of one task can execute at once. `FencedCommit` and
`SingleFlight` hold all the same, for every number of workers.

## Proofs

Every theorem holds for every value of the constants that satisfies the module's
ASSUME, and so without the bounds of the runs.

`StepExecutionProofs`:

- `TypeCorrect`: `Spec => []TypeOK`. Not inductive alone: a worker that is past the
  choice of a task must hold a step id (`KeyOK`), and a retry is spawned only while
  attempts are left (`SpawnOK`); `TypeInv` is the conjunction.
- `FencingCorrect`: `Spec => FencedCommit`. The inductive invariant `FenceInv` says
  that a step was last started under a lease that exists and that a lease's version
  is never behind its id (`LeaseIds`), and of every worker (`WorkerFenced`): the
  step record it brings back is not from the future (`ReadVersion`); the lease it
  remembers is not newer than the stored one, and is the stored one if it owns that
  (`HeldId`); about to start a step under an outdated lease, it brings a stale
  record, so that its save is refused (`StaleStart`); while its lease is the stored
  one, it was the last to start the step (`CurrentRunner`); past the fence, it was
  the last to start the step or its save is refused (`CommitReady`). `CommitReady`
  gives the property; the others are what it takes to keep it through expiry,
  takeover and the unchecked reset.
- `SingleFlightCorrect`: `Spec => []SingleFlight`. The invariant `OwnedInv` says that
  a worker that is inside a step whose lease was never lost in use is the owner of
  its live lease.

These argue by what a step of one worker leaves to the others. For fencing that
is `Guarantee`: versions and lease ids never go back, and a step is started only by
a write of its record. For single flight it is `Respects`: no worker takes a live
lease away from another. In each case one lemma shows that every action keeps the
promise, one that the promise keeps the part of the invariant of a worker that does
not move, and one that a worker keeps its own part. A new action needs one case in
each.

In the same module, `FencingImplemented`: `Spec => ImplementsFencing`. To `FenceInv` it
adds `OnceInv`: a result was accepted under the last lease or an earlier one, a step
that runs has none under its last lease, and a worker past the fence whose record is
still the stored one sees a step that runs. Each step of the system then hands out
under a larger lease, accepts under the last one, or leaves both alone.

And `DependentsCorrect`, `CurrentCorrect`. Both are about task records that
are written from what a worker has read some time before, so `OrderInv` asks as much of the
drafts the workers are about to save (`DraftTrue`) as of the stored records (`TaskTrue`): a
task is shown as completed only when a result of it was accepted, and its attempt exists. It
is inductive because what a draft relies on never goes away (`Lasting`): steps are not
deleted, accepted results are not taken back. That a worker with a good result has had it
accepted rests on `FenceInv` and `OnceInv`.

`RunLifecycleProofs`, all from `LifeInv` (`LifeCorrect`): `LifeTypeCorrect`,
`TerminalCorrect`, `CompletedCorrect`, `JobCorrect`, `CancelCorrect`. `LifeInv` says
what a worker on its way to end the run may rely on although it has read run and tasks
some time ago: one that aims at `completed` has seen every task completed, and what was
committed once stays committed even if step and task are overwritten (`HasDone`, `StepsInv`);
the record it read is the stored one or somebody has begun to end the run (`HasBegun`), so
that a second transition never starts from `running`, and the job is only saved after that.
`OverrunCorrect` needs a count (`BudgetInv`): an execution that was begun and not lost is in
usage or in the hands of a worker (`Flying`), and usage with what is in hand keeps to the
budget plus one for each worker; hence the assumption that the workers are finitely many.
Each step lets one worker take off, lets one land or leaves all where they are (`FlightIs`).

`ArtifactProofs`: `ArtifactTypeCorrect`, `ForwardCorrect`. All it takes beyond the types is
that a delete that is about to mark a row has read one; each transition names the
lifecycle it expects, and its two ends are a legal move.

`ChatStreamProofs`: `ChatTypeCorrect`, `OwnerCorrect`. `ChatInv` says what handlers know
of the run they read: only runs that were started get into the slot, a run that has
ended does not work, a page past its cancellation knows that its run is over. Then
nobody but the run takes the slot from a run that answers and is not `adrift`.

`SandboxLifecycleProofs`: `LifecycleTypeCorrect`, `RowCorrect`. `CrossInv` says that a
sandbox that runs while somebody, an evaluation, a chat or a request, has yet to write that
it was stopped has been started since; that is what makes a late `Record` or `RecordPause`,
which forgets the sandbox whatever the row has become, an exception to `RowKnowsBox` and not
a violation. The other exception, `unsaved`, comes only from a start whose save is lost.

`SessionSandboxProofs`: `SandboxTypeCorrect`, `ProvisionerCorrect`, `ArchivedCorrect`.
`LockInv` says that the lease on the row is a lock: it names a run whose record knows it
(`Fresh`, `Served`), and a run inside the provisioner has it or is one that is over or
doubted (`Owned`). `ArchiveInv` says that while the archive has still to look at the row,
the row knows every sandbox that runs, or somebody is about to save it or stop it (`Busy`), or
it has leaked; and that after its look a sandbox runs only because of those, or because it
was written to the archived session (`revived`). `ArchivedCorrect` is for one archiver: with
two, the second may clear what the first has still to stop.

`SubmissionProofs`: `SubmissionTypeCorrect`, `ReturnedCorrect`, `MintedCorrect`,
`ReplayCorrect`. A call acts on a job and on a run it has read some time before, so `SubInv`
lets it rely only on what never goes away (`Lasts`): a run that has ended has ended, a task
that was planned with its step stays planned, a run that has its `taskIds` keeps them, a
record that was written stays written. Of the store it says that a job names its last run,
which comes after one that has ended (`JobOK`), and that a run that somebody has moved on
has its tasks or has ended (`RunOK`); of a call that plans, that each task has its step
or is still on its list, and of one that saves the run, that all have (`CallerOK`). That the
list of tasks to plan names every task is an assumption on the constants; `planDag` walks
over all of them.

`DistributedQueueProofs`: `QueueTypeCorrect`, `AttemptsCorrect`, `DeliveryCorrect`,
`QueueImplemented`. For the types, `Local` says where a process is busy with a message and
with a record it has read; that pruning a list leaves a list of messages is an induction
over its length, done as an argument about the least index at which it would fail
(`LeastNatural`, `WithoutType`). `AttemptsCorrect` rests on `MetaSteps`, the four ways a
record changes: a swap, a timeout, the deletion of an ack, a creation. `DeliveryInv` says that a
delivery that is held has been counted: the record has at least as many attempts, or
is of another enqueue (`Counted`); that an absent record counts nothing and a present one
has the number of the last enqueue (`RecordOK`); and that two workers do not hold the same
(`Distinct`). Then a claim, whose cas compared the record, takes a number no held delivery
has (`ClaimsNew`), wherever the others are in their retries and acks. It holds a delivery
from the cas on, before `delivery` is set; from that on also `QueueImplemented` follows:
each way a record changes is one step of `WorkQueue`, and a step that changes no record
makes at most one worker lay down what it held (`LaysDown`).

All safety properties the passing runs check are proved. Model-checked only: the liveness
properties (`ActiveClaimable`, `GhostsPruned`, `ReadyStepSettles`, `CancelEndsRun`,
`RecordedCompletes`, `DeletingEnds`, `DanglingEnds`, `StalledEnds`, `StaleCleared`,
`IdleHibernates`), which are out of the prover's reach.

## Plan

Done: the queue and step execution, each with its refinement, the end of a run, submission,
artifacts, chat streams, provisioning, archive and hibernation, and the proofs above.
What would come next, in this order:

1. A proof that `RunLifecycle` changes runs and jobs as an abstract life cycle of
   the two does (`TerminalStays` and `JobNotAhead` in one specification).
2. Pure functions against reference definitions: the cycle check of `dag.ts`,
   `decideRetry`, `checkBudget`.

## Not modelled

- Hibernation and archive of one session at once: each is modelled without the other. An
  evaluation that began before the archive may still stop the sandbox and write
  `lifecycleState` to the archived row; in `SessionSandbox` a request that pauses the sandbox
  makes the same writes, but the hibernation of a session that was archived meanwhile is
  in no model.
- Two chats of a session in its sandbox at once: `SandboxLifecycle` has one chat at a time
  in the sandbox, and a slot that any chat may hold.
- Requests that set a sandbox up at the same time as a run: POST `sandbox` and PUT `snapshot`
  take no lease, so `OneProvisioner` speaks of workflow runs only.
- Legacy snapshots of sandboxes, and a step of the hibernation workflow that is run twice.
- Events, checkpoints and their readers: `append` is one atomic `appendUnique`, and
  nothing in the runtime decides on an event other than `run.submitted`, which is in
  `Submission`.
- `withDatabaseRetry`, the single-process runtime and the runner protocol: only tests
  call or construct them.
- The orchestrator of `packages/intelligence`: sequential code of one process.
- Tenancy and authorization, redaction and the policies decide about one call and keep
  no state. Sandbox drivers, the agent and its tools, the pages and the HTTP routes are
  input and output of outside services, and they are by far the most of the
  repository's lines. The contents of messages, tasks, checkpoints and events are left
  out everywhere: no property depends on them.
