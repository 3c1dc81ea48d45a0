----------------------------- MODULE ChatStream -----------------------------
(***************************************************************************)
(* chats.activeStreamId: which workflow run answers in a chat.             *)
(*                                                                         *)
(* A request (POST /api/chat) starts a run and claims the slot for it; the *)
(* run claims it too, as its first step, answers, and clears the slot.     *)
(* Other handlers read the slot, ask the workflow service how the run is,  *)
(* and clear the slot of a run that is over: a later request and stop by a *)
(* compare-and-set, GET .../stream and DELETE of a message without a       *)
(* condition.  Handlers are torn down half-way, and the database and the   *)
(* workflow service fail to answer.                                        *)
(***************************************************************************)
EXTENDS Naturals

CONSTANTS Requests,    \* requests; the run a request starts goes by its name
          Clients,     \* pages that resume the stream, delete messages or stop the
                       \* answer, one call at a time
          Unlucky,     \* requests that may be torn down, they and their runs may fail
                       \* to reach the database or the workflow service
          Tries,       \* ACTIVE_STREAM_RECONCILIATION_MAX_ATTEMPTS
          NoRun

ASSUME ChatAssumption == /\ NoRun \notin Requests
                         /\ Unlucky \subseteq Requests
                         /\ Tries \in Nat \ {0}

Runs  == Requests
Slot  == Runs \cup {NoRun}

VARIABLES
    slot,      \* activeStreamId
    status,    \* status[r]: what the workflow service says of run r
    work,      \* work[r]: what run r is doing
    request,   \* request[p]: where the handler of p is, what it read, its attempts
    client,    \* client[c]: the same of the other handlers that c has called
    adrift     \* history: the runs that answer although their claim could not be
               \* written, or whose slot has been cleared by a handler that could not
               \* know that they were over

runs == <<status, work>>
vars == <<slot, status, work, request, client, adrift>>

\* Nobody tells pending from running, which are "live", or completed from failed,
\* which are "ended".
Over == {"ended", "cancelled"}
Live(r) == status[r] = "live"
Answers(r) == work[r] = "answer"

Idle == [pc |-> "idle", read |-> NoRun]

TypeOK ==
    /\ slot \in Slot
    /\ status \in [Runs -> Over \cup {"none", "live"}]
    /\ work \in [Runs -> {"none", "claim", "answer", "exit", "over"}]
    /\ request \in [Requests -> [pc : {"new", "check", "clear", "again", "start",
                                       "claim", "cancel", "done"},
                                 read : Slot, tries : 1 .. Tries]]
    /\ client \in [Clients -> [pc : {"idle", "look", "stale", "cancel", "stopped"},
                               read : Slot]]
    /\ adrift \subseteq {r \in Runs : Answers(r)}

Init ==
    /\ slot = NoRun
    /\ status = [r \in Runs |-> "none"]
    /\ work = [r \in Runs |-> "none"]
    /\ request = [p \in Requests |-> [pc |-> "new", read |-> NoRun, tries |-> 1]]
    /\ client = [c \in Clients |-> Idle]
    /\ adrift = {}

-----------------------------------------------------------------------------
(* The slot: one UPDATE each (lib/db/sessions.ts)                          *)

\* updateChatActiveStreamId(chatId, null)
Empty == slot' = NoRun

ClearOf_Blindly(r) == slot' = NoRun

\* compareAndSetChatActiveStreamId(chatId, r, null)
ClearOf(r) == slot' = IF slot = r THEN NoRun ELSE slot

Free_Always(r) == TRUE

\* claimChatActiveStreamId(chatId, r) succeeds.
Free(r) == slot \in {NoRun, r}

\* The run that loses its slot although it answers
Cut(s) == {r \in {s} \cap Runs : Answers(r)}

Claim(r) == slot' = IF Free(r) THEN r ELSE slot

-----------------------------------------------------------------------------
(* The workflow run                                                        *)

Does(r, w)   == work' = [work EXCEPT ![r] = w]
Leaves(r, w) == Does(r, w) /\ adrift' = adrift \ {r}

\* claimActiveStream: "claimed" or "conflict"
SelfClaim(r) ==
    /\ work[r] = "claim"
    /\ Claim(r)
    /\ Does(r, IF Free(r) THEN "answer" ELSE "exit")
    /\ UNCHANGED <<status, request, client, adrift>>

\* claimActiveStream: "error", after three failures of the database; the run goes on.
ClaimFails(r) ==
    /\ r \in Unlucky /\ work[r] = "claim"
    /\ Does(r, "answer")
    /\ adrift' = adrift \cup {r}
    /\ UNCHANGED <<slot, status, request, client>>

\* The answer is there: clearActiveStream, which gives up after three failures.
SelfClear(r) ==
    /\ work[r] = "answer"
    /\ ClearOf(r) \/ (r \in Unlucky /\ UNCHANGED slot)
    /\ Leaves(r, "exit")
    /\ UNCHANGED <<status, request, client>>

\* The usage is recorded and the run returns, or throws what it has caught.
Exit(r) ==
    /\ work[r] = "exit"
    /\ status' = IF Live(r) THEN [status EXCEPT ![r] = "ended"] ELSE status
    /\ Leaves(r, "over")
    /\ UNCHANGED <<slot, request, client>>

\* The workflow service takes no further step of a cancelled run, at the latest when the
\* step it is in has seen the cancellation (startStopMonitor).
Halt(r) ==
    /\ status[r] = "cancelled" /\ work[r] # "over"
    /\ Leaves(r, "over")
    /\ UNCHANGED <<slot, status, request, client>>

\* run.cancel() of the workflow service
Cancelled(r) == status' = IF Live(r) THEN [status EXCEPT ![r] = "cancelled"] ELSE status

-----------------------------------------------------------------------------
(* POST /api/chat                                                          *)

Goes(p, l)  == request' = [request EXCEPT ![p].pc = l]
Leaps(p, l) == request' = [request EXCEPT ![p] = [pc |-> l, read |-> NoRun, tries |-> 1]]

\* The chat is read; if it has a stream, reconcileExistingActiveStream.
Post(p) ==
    /\ request[p].pc = "new"
    /\ request' = [request EXCEPT ![p] = [pc |-> IF slot = NoRun THEN "start" ELSE "check",
                                          read |-> slot, tries |-> 1]]
    /\ UNCHANGED <<slot, runs, client, adrift>>

\* The client is given the stream of a live run.
Check(p) ==
    /\ request[p].pc = "check"
    /\ IF Live(request[p].read) THEN Leaps(p, "done") ELSE Goes(p, "clear")
    /\ UNCHANGED <<slot, runs, client, adrift>>

\* getRun or its status throws: the run is taken to be over.
CheckFails(p) ==
    /\ p \in Unlucky /\ request[p].pc = "check"
    /\ Goes(p, "clear")
    /\ UNCHANGED <<slot, runs, client, adrift>>

ClearStale(p) ==
    /\ request[p].pc = "clear"
    /\ ClearOf(request[p].read)
    /\ IF slot = request[p].read
          THEN Leaps(p, "start") /\ adrift' = adrift \cup Cut(slot)
          ELSE Goes(p, "again") /\ UNCHANGED adrift
    /\ UNCHANGED <<runs, client>>

TriesLeft_OneMore(p) == request[p].tries <= Tries
TriesLeft(p)         == request[p].tries < Tries

\* The slot has changed meanwhile; what is in it now is looked at, three times in all,
\* and then the request is refused.
Again(p) ==
    /\ request[p].pc = "again"
    /\ \/ slot = NoRun /\ Leaps(p, "start")
       \/ /\ slot # NoRun /\ TriesLeft(p)
          /\ request' = [request EXCEPT ![p] = [pc |-> "check", read |-> slot,
                                                tries |-> request[p].tries + 1]]
       \/ slot # NoRun /\ ~TriesLeft(p) /\ Leaps(p, "done")
    /\ UNCHANGED <<slot, runs, client, adrift>>

Start(p) ==
    /\ request[p].pc = "start"
    /\ status' = [status EXCEPT ![p] = "live"]
    /\ Does(p, "claim")
    /\ Goes(p, "claim")
    /\ UNCHANGED <<slot, client, adrift>>

ClaimFor(p) ==
    /\ request[p].pc = "claim"
    /\ Claim(p)
    /\ Goes(p, IF Free(p) THEN "done" ELSE "cancel")
    /\ UNCHANGED <<runs, client, adrift>>

\* Another run owns the slot: the duplicate is cancelled, or the cancellation fails.
CancelDuplicate(p) ==
    /\ request[p].pc = "cancel"
    /\ Cancelled(p) \/ (p \in Unlucky /\ UNCHANGED status)
    /\ Goes(p, "done")
    /\ UNCHANGED <<slot, work, client, adrift>>

\* The handler is torn down, or a write throws.
TornDown(p) ==
    /\ p \in Unlucky /\ request[p].pc # "done"
    /\ Leaps(p, "done")
    /\ UNCHANGED <<slot, runs, client, adrift>>

-----------------------------------------------------------------------------
(* POST /api/chat/[chatId]/stop                                            *)

Calls(c, l) == client' = [client EXCEPT ![c] = [pc |-> l, read |-> slot]]
Moves(c, l) == client' = [client EXCEPT ![c].pc = l]
Hangs(c)    == client' = [client EXCEPT ![c] = Idle]

Stop(c) ==
    /\ client[c].pc = "idle" /\ slot # NoRun
    /\ Calls(c, "cancel")
    /\ UNCHANGED <<slot, runs, request, adrift>>

\* A cancellation that fails ends the call.
CancelRun(c) ==
    /\ client[c].pc = "cancel"
    /\ \/ Cancelled(client[c].read) /\ Moves(c, "stopped")
       \/ UNCHANGED status /\ Hangs(c)
    /\ UNCHANGED <<slot, work, request, adrift>>

ClearStopped(c) ==
    /\ client[c].pc = "stopped"
    /\ ClearOf(client[c].read) \/ UNCHANGED slot
    /\ Hangs(c)
    /\ UNCHANGED <<runs, request, adrift>>

-----------------------------------------------------------------------------
(* GET /api/chat/[chatId]/stream and DELETE of a message                   *)

View(c) ==
    /\ client[c].pc = "idle" /\ slot # NoRun
    /\ Calls(c, "look")
    /\ UNCHANGED <<slot, runs, request, adrift>>

Seen_Cancelled == {"ended"}

\* The statuses of a run that is seen to be over
Seen == {"ended", "cancelled"}

\* A live run is streamed, or keeps the messages; any other one, and one whose status
\* cannot be read, is stale.
Look(c) ==
    /\ client[c].pc = "look"
    /\ IF status[client[c].read] \in Seen THEN Moves(c, "stale") ELSE Hangs(c)
    /\ UNCHANGED <<slot, runs, request, adrift>>

LookFails(c) ==
    /\ client[c].pc = "look"
    /\ Moves(c, "stale")
    /\ UNCHANGED <<slot, runs, request, adrift>>

\* The slot is cleared whatever is in it by now.
ClearSeen(c) ==
    /\ client[c].pc = "stale"
    /\ Empty
    /\ adrift' = adrift \cup Cut(slot)
    /\ Hangs(c)
    /\ UNCHANGED <<runs, request>>

-----------------------------------------------------------------------------
Step(r) == SelfClaim(r) \/ ClaimFails(r) \/ SelfClear(r) \/ Exit(r) \/ Halt(r)

Handle(p) == Post(p) \/ Check(p) \/ CheckFails(p) \/ ClearStale(p) \/ Again(p)
             \/ Start(p) \/ ClaimFor(p) \/ CancelDuplicate(p)

Visit(c) == Look(c) \/ LookFails(c) \/ ClearSeen(c) \/ CancelRun(c) \/ ClearStopped(c)

Next == \/ \E r \in Runs : Step(r)
        \/ \E p \in Requests : Handle(p) \/ TornDown(p)
        \/ \E c \in Clients : View(c) \/ Stop(c) \/ Visit(c)

Spec == Init /\ [][Next]_vars

\* The workflow service takes up every run until it has ended, and handlers run unless
\* they are torn down.
FairSpec == Spec /\ (\A r \in Runs : WF_vars(Step(r)))
                 /\ (\A p \in Requests : WF_vars(Handle(p)))

\* The page that shows the chat asks for its stream again and again.
VisitSpec == Spec /\ \A c \in Clients : WF_vars(Visit(c)) /\ SF_vars(View(c))

-----------------------------------------------------------------------------
(* Safety                                                                  *)

Answering(r) == Answers(r) /\ status[r] # "cancelled"

\* chat.ts, runAgentWorkflow: "only the owning workflow can mutate this chat".  However
\* claims, stops, late ends and requests that clear a stale slot interleave, a run that
\* answers and is not cancelled is the one in the slot; the exceptions are a claim
\* that the database did not take and a slot cleared without knowledge of its run.
AnsweringOwns ==
    \A r \in Runs : Answering(r) /\ r \notin adrift => slot = r

-----------------------------------------------------------------------------
(* Liveness                                                                *)

\* A slot left behind by a run that is over is found and cleared as long as somebody
\* looks at the chat (VisitSpec): by a run that could not clear it, a claim made for a
\* run that had ended, a stop that failed half-way.
StaleCleared ==
    \A r \in Runs : slot = r /\ status[r] \in Over ~> slot # r

-----------------------------------------------------------------------------
(* What the documents say and the code does not do                         *)

\* chat.ts, the end of runAgentWorkflow: "so the chat is never permanently marked as
\* streaming" (FairSpec: nobody looks at the chat).
NeverStuck == \A r \in Runs : slot = r ~> slot # r

\* docs/vaulltcore/phase6/baseline.md: "Active stream tracked by chat.activeStreamId
\* (CAS-fenced)": a handler clears no run but the one it has looked at.
ClearsWhatItSaw ==
    [][\A c \in Clients : client[c].pc = "stale" /\ client'[c].pc = "idle" /\ slot' # slot
                          => slot = client[c].read]_vars
=============================================================================
