------------------------------ MODULE Artifact ------------------------------
(***************************************************************************)
(* The life of one artifact: ArtifactService (packages/storage/artifact.ts)*)
(* over PostgresArtifactMetadataStore (apps/web/lib/db/artifacts.ts), whose*)
(* row says what the artifact is, and an object store that holds its bytes.*)
(*                                                                         *)
(* The two cannot be written together.  Any number of calls reserve,       *)
(* confirm and delete the artifact under its one id, the client uploads    *)
(* with a presigned URL whenever it likes, calls die half-way, the object  *)
(* store fails, and reconcile looks for what does not fit together.        *)
(* beginDownload only reads and is left out.                               *)
(***************************************************************************)
CONSTANTS Calls,       \* processes that serve calls, one call at a time
          Mortal       \* those that may die in the middle of one

ASSUME ArtifactAssumption == Mortal \subseteq Calls

VARIABLES
    row,      \* the lifecycle of the metadata row, "ABSENT" without one
    object,   \* the object store has an object under the key
    url,      \* a presigned upload URL for the key has not expired
    stale,    \* the row has been UPLOADING for longer than the grace period
    call,     \* call[c]: where c is and the lifecycle it has read
    recon     \* the same of reconcile

stores == <<row, object, url, stale>>
vars   == <<row, object, url, stale, call, recon>>

Lifecycle == {"RESERVED", "UPLOADING", "READY", "FAILED", "DELETING"}
Row       == Lifecycle \cup {"ABSENT"}

Place == {"idle", "reserve", "insert", "begin", "reread", "sign",
          "confirm", "head", "ready", "lost",
          "delete", "mark", "remove", "purge", "dead",
          "list", "exists", "fail", "stall"}

Process == [pc : Place, read : Row]
Idle    == [pc |-> "idle", read |-> "ABSENT"]

TypeOK ==
    /\ row \in Row
    /\ object \in BOOLEAN /\ url \in BOOLEAN /\ stale \in BOOLEAN
    /\ call \in [Calls -> Process]
    /\ recon \in Process

Init ==
    /\ row = "ABSENT"
    /\ object = FALSE /\ url = FALSE /\ stale = FALSE
    /\ call = [c \in Calls |-> Idle]
    /\ recon = Idle

At(c, l)        == call[c].pc = l
Become(c, l, r) == call' = [call EXCEPT ![c] = [pc |-> l, read |-> r]]
Goto(c, l)      == Become(c, l, call[c].read)
Leave(c)        == call' = [call EXCEPT ![c] = Idle]

-----------------------------------------------------------------------------
(* The metadata store: one statement each                                  *)

\* transition: UPDATE ... WHERE lifecycle = expected; entering UPLOADING starts
\* the grace period.
Transition_Unfenced(expected, to) ==
    /\ row' = IF row = "ABSENT" THEN row ELSE to
    /\ stale' = IF to = "UPLOADING" THEN FALSE ELSE stale

Transition(expected, to) ==
    /\ row' = IF row = expected THEN to ELSE row
    /\ stale' = IF row = expected /\ to = "UPLOADING" THEN FALSE ELSE stale

Purge_Tombstone == row' = "DELETED" /\ stale' = FALSE

\* purge: DELETE, whatever the row says.
Purge == row' = "ABSENT" /\ stale' = FALSE

-----------------------------------------------------------------------------
(* reserveUpload                                                           *)

\* get; a failed artifact is refused.
Reserve(c) ==
    /\ At(c, "idle")
    /\ \/ row = "ABSENT" /\ Goto(c, "insert")
       \/ row = "UPLOADING" /\ Goto(c, "sign")
       \/ row \in {"RESERVED", "READY", "DELETING"} /\ Goto(c, "begin")
    /\ UNCHANGED <<stores, recon>>

\* reserve: a new row unless there is one by now, which is taken as it is.
Insert(c) ==
    /\ At(c, "insert")
    /\ row' = IF row = "ABSENT" THEN "RESERVED" ELSE row
    /\ Goto(c, IF row = "UPLOADING" THEN "sign" ELSE "begin")
    /\ UNCHANGED <<object, url, stale, recon>>

\* RESERVED becomes UPLOADING, or somebody else has moved the row.
Begin(c) ==
    /\ At(c, "begin")
    /\ Transition("RESERVED", "UPLOADING")
    /\ Goto(c, IF row = "RESERVED" THEN "sign" ELSE "reread")
    /\ UNCHANGED <<object, url, recon>>

Reread(c) ==
    /\ At(c, "reread")
    /\ IF row \in {"UPLOADING", "READY"} THEN Goto(c, "sign") ELSE Leave(c)
    /\ UNCHANGED <<stores, recon>>

Sign(c) ==
    /\ At(c, "sign")
    /\ url' = TRUE
    /\ Leave(c)
    /\ UNCHANGED <<row, object, stale, recon>>

-----------------------------------------------------------------------------
(* confirmUpload                                                           *)

Confirm(c) ==
    /\ At(c, "idle")
    /\ row = "UPLOADING"
    /\ Goto(c, "head")
    /\ UNCHANGED <<stores, recon>>

\* HEAD: the object is there, or not, or the store does not answer.
Head(c) ==
    /\ At(c, "head")
    /\ \/ object /\ Goto(c, "ready")
       \/ ~object /\ Goto(c, "lost")
       \/ Leave(c)
    /\ UNCHANGED <<stores, recon>>

Ready(c) ==
    /\ At(c, "ready")
    /\ Transition("UPLOADING", "READY")
    /\ Leave(c)
    /\ UNCHANGED <<object, url, recon>>

Lost(c) ==
    /\ At(c, "lost")
    /\ Transition("UPLOADING", "FAILED")
    /\ Leave(c)
    /\ UNCHANGED <<object, url, recon>>

-----------------------------------------------------------------------------
(* deleteArtifact                                                          *)

Delete(c) ==
    /\ At(c, "idle")
    /\ row # "ABSENT"
    /\ Become(c, "mark", row)
    /\ UNCHANGED <<stores, recon>>

\* The row as it was read becomes DELETING.  If it is not that row any more, the call
\* goes on all the same.
Mark(c) ==
    /\ At(c, "mark")
    /\ Transition(call[c].read, "DELETING")
    /\ Become(c, "remove", "ABSENT")
    /\ UNCHANGED <<object, url, recon>>

\* The object store deletes the object, or fails and ends the call.
Remove(c) ==
    /\ At(c, "remove")
    /\ \/ object' = FALSE /\ Goto(c, "purge")
       \/ UNCHANGED object /\ Leave(c)
    /\ UNCHANGED <<row, url, stale, recon>>

PurgeRow(c) ==
    /\ At(c, "purge")
    /\ Purge
    /\ Leave(c)
    /\ UNCHANGED <<object, url, recon>>

-----------------------------------------------------------------------------
(* reconcile: for a row of the list, which is acted upon as it was read    *)

ReconcileTo(l) == recon' = [recon EXCEPT !.pc = l]
Reconciled     == recon' = Idle

Repairs_NoReady    == [DELETING |-> "remove", UPLOADING |-> "stall"]
Repairs_NoDeleting == [READY |-> "exists", UPLOADING |-> "stall"]
Repairs_NoStalled  == [READY |-> "exists", DELETING |-> "remove"]

\* What is done about a row, by its lifecycle; about an upload only after the grace.
Repairs == [READY |-> "exists", DELETING |-> "remove", UPLOADING |-> "stall"]

List ==
    /\ recon.pc = "idle"
    /\ row \in DOMAIN Repairs
    /\ row = "UPLOADING" => stale
    /\ ReconcileTo(Repairs[row])
    /\ UNCHANGED <<stores, call>>

\* A: READY without its object.
Exists ==
    /\ recon.pc = "exists"
    /\ IF object THEN Reconciled ELSE ReconcileTo("fail")
    /\ UNCHANGED <<stores, call>>

MarkLost ==
    /\ recon.pc = "fail"
    /\ Transition("READY", "FAILED")
    /\ Reconciled
    /\ UNCHANGED <<object, url, call>>

\* C: DELETING; a failing object store ends this reconcile.
RemoveAgain ==
    /\ recon.pc = "remove"
    /\ object' = FALSE
    /\ ReconcileTo("purge")
    /\ UNCHANGED <<row, url, stale, call>>

ReconcileFails ==
    /\ recon.pc \in {"exists", "remove"}
    /\ Reconciled
    /\ UNCHANGED <<stores, call>>

PurgeAgain ==
    /\ recon.pc = "purge"
    /\ Purge
    /\ Reconciled
    /\ UNCHANGED <<object, url, call>>

\* D: an upload that takes too long.
MarkStalled ==
    /\ recon.pc = "stall"
    /\ Transition("UPLOADING", "FAILED")
    /\ Reconciled
    /\ UNCHANGED <<object, url, call>>

-----------------------------------------------------------------------------
(* The client and the clock                                                *)

\* The object store takes what comes with a valid URL, whatever the row says.
Put ==
    /\ url /\ ~object
    /\ object' = TRUE
    /\ UNCHANGED <<row, url, stale, call, recon>>

ExpireUrl ==
    /\ url
    /\ url' = FALSE
    /\ UNCHANGED <<row, object, stale, call, recon>>

GraceOver ==
    /\ row = "UPLOADING" /\ ~stale
    /\ stale' = TRUE
    /\ UNCHANGED <<row, object, url, call, recon>>

Crash(c) ==
    /\ ~At(c, "dead")
    /\ Become(c, "dead", "ABSENT")
    /\ UNCHANGED <<stores, recon>>

-----------------------------------------------------------------------------
Serve(c) == \/ Reserve(c) \/ Insert(c) \/ Begin(c) \/ Reread(c) \/ Sign(c)
            \/ Confirm(c) \/ Head(c) \/ Ready(c) \/ Lost(c)
            \/ Delete(c) \/ Mark(c) \/ Remove(c) \/ PurgeRow(c)

Repair == List \/ Exists \/ MarkLost \/ RemoveAgain \/ PurgeAgain \/ MarkStalled

Next == \/ \E c \in Calls : Serve(c)
        \/ Repair \/ ReconcileFails
        \/ Put \/ ExpireUrl \/ GraceOver
        \/ \E c \in Mortal : Crash(c)

Spec == Init /\ [][Next]_vars

\* reconcile is run again and again, and the object store does not fail it for ever.
\* Nothing is assumed of the calls.
Fairness == WF_vars(Repair) /\ SF_vars(Exists) /\ SF_vars(RemoveAgain)
FairSpec == Spec /\ Fairness

-----------------------------------------------------------------------------
(* Safety                                                                  *)

\* storage-contract.md, "Lifecycle states": a row only moves forward, although each
\* call acts on a row that others may have moved, purged or created again since it
\* was read.  In particular nothing comes back from FAILED or DELETING, and after a
\* purge there is no artifact until it is reserved anew.
Forward ==
    [ABSENT    |-> {"RESERVED"},
     RESERVED  |-> {"UPLOADING", "DELETING", "ABSENT"},
     UPLOADING |-> {"READY", "FAILED", "DELETING", "ABSENT"},
     READY     |-> {"FAILED", "DELETING", "ABSENT"},
     FAILED    |-> {"DELETING", "ABSENT"},
     DELETING  |-> {"ABSENT"}]

MovesForward == [][row' # row => row' \in Forward[row]]_vars

-----------------------------------------------------------------------------
(* Liveness, under FairSpec                                                *)

\* failure-model.md of phase 5: a delete that crashed, or whose object could not be
\* removed, is finished.
DeletingEnds == row = "DELETING" ~> row # "DELETING"

\* "No dangling READY", in the end: however the object of a READY row was lost, by a
\* delete that missed its transition and then died, or by one that was overtaken by a
\* reservation, the row is found and failed.
Dangling     == row = "READY" /\ ~object
DanglingEnds == Dangling ~> ~Dangling

\* An upload that is abandoned does not stay UPLOADING.
StalledEnds == (row = "UPLOADING" /\ stale) ~> ~(row = "UPLOADING" /\ stale)

-----------------------------------------------------------------------------
(* What the documents say and the code does not do                         *)

\* artifact.ts, "delete flow": "READY/UPLOADING/FAILED -> DELETING -> delete object ->
\* purge metadata".
PurgedWhenDeleting == [][row' = "ABSENT" /\ row # "ABSENT" => row = "DELETING"]_vars
=============================================================================
