------------------------ MODULE SessionProjection ------------------------
(***************************************************************************)
(* One live session, stored twice: the row of live_sessions in DB_V2, the  *)
(* source of truth, and its projection in the sessions table of the legacy *)
(* database.  The databases share no transaction.  Creating a session      *)
(* writes DB_V2 first and compensates when the projection fails; changing, *)
(* ending and deleting write the projection first and write its snapshot   *)
(* back when the batch on DB_V2 fails or finds another version.            *)
(*                                                                         *)
(* A request is one call of a handler of routes/private-v2.js; every       *)
(* database call it awaits is a step of its own, so that requests          *)
(* interleave between any two calls.  Not modelled: authorisation, the     *)
(* parsing of the body, and the delivery of the session's event to the     *)
(* comment room (module Realtime).                                         *)
(***************************************************************************)
EXTENDS Naturals, FiniteSets

CONSTANTS
    Requests,   \* slots for requests in flight
    Looks,      \* the values of the settings: posting, visibility, display
    MaxStamp,   \* bound on the clock that stamps updated_at
    Faults      \* what may go wrong with a database call; see FaultKinds

(* "error": the call fails and has done nothing.  "lost": the call is      *)
(* applied and its answer is lost.  "crash": the worker dies between two   *)
(* calls.  The code compensates the first kind only.                       *)
FaultKinds == {"error", "lost", "crash"}

ASSUME FaultsAssumption == Faults \subseteq FaultKinds
ASSUME MaxStampAssumption == MaxStamp \in Nat
ASSUME LooksAssumption == Looks # {}

VARIABLES
    v2,         \* the row of live_sessions
    legacy,     \* the row of the legacy sessions table
    published,  \* what the session's last guarded side statements wrote
    requests,   \* per slot, where its handler stands and what it has read
    now,        \* the latest millisecond used as updated_at
    known,      \* an inconsistency was recorded or answered since the repair
    suspect     \* something outside the compensation's reach happened

vars == <<v2, legacy, published, requests, now, known, suspect>>

-----------------------------------------------------------------------------
(* Rows *)

Statuses == {"none", "active", "ended", "deleted"}

(* look stands for all settings of an active session, and for the display  *)
(* settings of a stopped one, where every writer of the status also turns  *)
(* posting_enabled and comments_visible off.                               *)
Rows == [status: Statuses, look: Looks]
V2Rows == [status: Statuses, look: Looks, version: 0..MaxStamp]

Row(status, look) == [status |-> status, look |-> look]

(* What both tables hold of a row of live_sessions.                        *)
Shared(row) == Row(row.status, row.look)

FirstLook == CHOOSE look \in Looks : TRUE
Missing == Row("none", FirstLook)
MissingV2 == [status |-> "none", look |-> FirstLook, version |-> 0]

Idle == [pc |-> "idle", op |-> "update", loaded |-> MissingV2, next |-> Missing,
         before |-> Missing, stamp |-> 0, alone |-> FALSE]

Pcs == {"idle", "snapshot", "legacy", "v2", "restore", "project", "compensate"}
RequestRecords ==
    [pc: Pcs, op: {"create", "update", "ended", "deleted"}, loaded: V2Rows,
     next: Rows, before: Rows, stamp: 0..MaxStamp, alone: BOOLEAN]

Busy(r) == requests[r].pc # "idle"
Quiet == \A r \in Requests : ~Busy(r)

-----------------------------------------------------------------------------
(* Requests start, move and end *)

(* A new request; every request it overlaps is no longer alone.            *)
Enter(r, record) ==
    requests' = [q \in Requests |->
                    IF q = r THEN [record EXCEPT !.alone = Quiet]
                             ELSE [requests[q] EXCEPT !.alone = FALSE]]

Goto(r, pc) == requests' = [requests EXCEPT ![r].pc = pc]
Leave(r) == requests' = [requests EXCEPT ![r] = Idle]

(* Mistake: The clock may give the very millisecond the request has loaded. *)
StampsNotLater(version) == {t \in {now, now + 1} : version <= t /\ t <= MaxStamp}

(* The clock reads a millisecond no earlier than the last one it gave, and *)
(* later than the version the request has loaded: the calls in between     *)
(* take time.                                                              *)
Stamps(version) == {t \in {now, now + 1} : version < t /\ t <= MaxStamp}

-----------------------------------------------------------------------------
(* Creating *)

Init ==
    /\ v2 = MissingV2
    /\ legacy = Missing
    /\ published = Missing
    /\ requests = [r \in Requests |-> Idle]
    /\ now = 0
    /\ known = FALSE
    /\ suspect = FALSE

(* createSession, up to its batch: the row, its moderation mode, its audit. *)
(* When the answer is lost the request ends and no projection is made.     *)
CreateV2(r) ==
    /\ ~Busy(r)
    /\ v2.status = "none"
    /\ \E t \in Stamps(0) :
        /\ now' = t
        /\ v2' = [status |-> "active", look |-> FirstLook, version |-> t]
        /\ published' = Row("active", FirstLook)
    /\ \/ /\ Enter(r, [Idle EXCEPT !.pc = "project", !.op = "create"])
          /\ UNCHANGED suspect
       \/ /\ "lost" \in Faults
          /\ suspect' = TRUE
          /\ UNCHANGED requests
    /\ UNCHANGED <<legacy, known>>

(* createLegacyProjection, with the values createSession started from.     *)
CreateLegacy(r) ==
    /\ requests[r].pc = "project"
    /\ \/ /\ legacy' = Row("active", FirstLook)
          /\ Leave(r)
          /\ UNCHANGED suspect
       \/ /\ "error" \in Faults
          /\ Goto(r, "compensate")
          /\ UNCHANGED <<legacy, suspect>>
       \/ /\ "lost" \in Faults
          /\ legacy' = Row("active", FirstLook)
          /\ Goto(r, "compensate")
          /\ suspect' = TRUE
    /\ UNCHANGED <<v2, published, now, known>>

(* Mistake: The compensation writes a status the readers do not know. *)
SafeSideFailed(t) == [v2 EXCEPT !.status = "failed", !.version = t]

(* failedCreateSafeSideStatement, whatever the version.                    *)
SafeSide(t) == [v2 EXCEPT !.status = "deleted", !.version = t]

(* compensateFailedCreate: the batch with its audit row, and when that     *)
(* fails the statement alone.  A row that is no longer active, or two      *)
(* failures, end in SESSION_PROJECTION_INCONSISTENT.                       *)
Compensate(r) ==
    /\ requests[r].pc = "compensate"
    /\ \/ /\ v2.status = "active"
          /\ \E t \in Stamps(0) : t >= v2.version /\ now' = t /\ v2' = SafeSide(t)
          /\ \/ /\ published' = Row("deleted", v2.look)
                /\ UNCHANGED known
             \/ /\ "error" \in Faults
                /\ UNCHANGED published
                /\ known' = TRUE
             \/ /\ "lost" \in Faults
                /\ published' = Row("deleted", v2.look)
                /\ known' = TRUE
       \/ /\ v2.status # "active" \/ "error" \in Faults
          /\ known' = TRUE
          /\ UNCHANGED <<v2, published, now>>
    /\ Leave(r)
    /\ UNCHANGED <<legacy, suspect>>

-----------------------------------------------------------------------------
(* Changing, ending and deleting *)

(* updateSettings, endSession and deleteSession after loadAuthorizedSession: *)
(* the handler keeps the row it has loaded to its end.  An ended session   *)
(* can only be deleted, and a deleted one nothing.                         *)
Start(r) ==
    /\ ~Busy(r)
    /\ v2.status \in {"active", "ended"}
    /\ \E op \in {"update", "ended", "deleted"}, look \in Looks :
        /\ op # "deleted" => v2.status = "active"
        /\ op = "deleted" => look = v2.look
        /\ Enter(r, [Idle EXCEPT !.pc = "snapshot", !.op = op, !.loaded = v2,
                        !.next = Row(IF op = "update" THEN "active" ELSE op, look)])
    /\ UNCHANGED <<v2, legacy, published, now, known, suspect>>

(* loadLegacyProjection; ending and deleting have read the clock before it. *)
(* A missing projection is recorded and answered with 500.                 *)
Snapshot(r) ==
    /\ requests[r].pc = "snapshot"
    /\ \/ /\ legacy.status # "none"
          /\ \E t \in IF requests[r].op = "update" THEN {0} ELSE Stamps(requests[r].loaded.version) :
                /\ requests' = [requests EXCEPT ![r].pc = "legacy", ![r].before = legacy,
                                                ![r].stamp = t]
                /\ now' = IF t > now THEN t ELSE now
          /\ UNCHANGED known
       \/ /\ legacy.status = "none"
          /\ Leave(r)
          /\ known' = TRUE
          /\ UNCHANGED now
       \/ /\ "error" \in Faults
          /\ Leave(r)
          /\ UNCHANGED <<now, known>>
    /\ UNCHANGED <<v2, legacy, published, suspect>>

(* Mistake: The display settings are left out of the projection's update. *)
ProjectedWithoutLook(request) ==
    IF request.op = "update" THEN [request.next EXCEPT !.look = legacy.look]
    ELSE Row(request.op, legacy.look)

(* updateLegacyProjection writes the whole row, whatever is there now;     *)
(* stopLegacyProjection keeps the display settings.                        *)
Projected(request) ==
    IF request.op = "update" THEN request.next
    ELSE Row(request.op, legacy.look)

(* A failure here is not caught: the handler ends with 500.                *)
WriteLegacy(r) ==
    /\ requests[r].pc = "legacy"
    /\ \/ /\ legacy' = Projected(requests[r])
          /\ Goto(r, "v2")
          /\ UNCHANGED suspect
       \/ /\ "error" \in Faults
          /\ Leave(r)
          /\ UNCHANGED <<legacy, suspect>>
       \/ /\ "lost" \in Faults
          /\ legacy' = Projected(requests[r])
          /\ Leave(r)
          /\ suspect' = TRUE
    /\ UNCHANGED <<v2, published, now, known>>

(* Mistake: The batch checks the status and not the version it has loaded. *)
CurrentByStatus(request) ==
    v2.status \in IF request.op = "deleted" THEN {"active", "ended"} ELSE {"active"}

(* The guards of sessionUpdateStatement, sessionEndStatement and           *)
(* sessionDeleteStatement.                                                 *)
Current(request) ==
    /\ v2.version = request.loaded.version
    /\ v2.status \in IF request.op = "deleted" THEN {"active", "ended"} ELSE {"active"}

Applied(request, t) ==
    [status |-> request.next.status, look |-> request.next.look, version |-> t]

(* A lone update that is acknowledged rewrites both rows: what was wrong   *)
(* before is repaired.                                                     *)
Acknowledge(r) ==
    /\ Leave(r)
    /\ IF requests[r].op = "update" /\ requests[r].alone
       THEN known' = FALSE /\ suspect' = FALSE
       ELSE UNCHANGED <<known, suspect>>

(* Mistake: The side statements are not guarded by the row. *)
SideGuardDropped(t) == TRUE

(* The batch on DB_V2.  Its other statements (moderation mode, audit row,  *)
(* event) are guarded by updated_at = the stamp only, which also holds     *)
(* when another request was stamped with the same millisecond: the refused *)
(* request's side statements are then written, and the row is suspect.     *)
SideGuard(t) == v2.version = t

WriteV2(r) ==
    /\ requests[r].pc = "v2"
    /\ \E t \in IF requests[r].op = "update" THEN Stamps(requests[r].loaded.version)
                                             ELSE {requests[r].stamp} :
        /\ now' = IF t > now THEN t ELSE now
        /\ \/ /\ Current(requests[r])
              /\ v2' = Applied(requests[r], t)
              /\ published' = requests[r].next
              /\ \/ Acknowledge(r)
                 \/ /\ "lost" \in Faults
                    /\ Goto(r, "restore")
                    /\ suspect' = TRUE
                    /\ UNCHANGED known
           \/ /\ ~Current(requests[r])
              /\ published' = IF SideGuard(t) THEN requests[r].next ELSE published
              /\ suspect' = (suspect \/ v2.version = t)
              /\ Goto(r, "restore")
              /\ UNCHANGED <<v2, known>>
           \/ /\ "error" \in Faults
              /\ Goto(r, "restore")
              /\ UNCHANGED <<v2, published, known, suspect>>
    /\ UNCHANGED legacy

(* Mistake: The snapshot is not written back after a refused batch. *)
RestoreForgotten(r) ==
    /\ requests[r].pc = "restore"
    /\ suspect' = (suspect \/ ~requests[r].alone)
    /\ Leave(r)
    /\ UNCHANGED <<v2, legacy, published, now, known>>

(* tryRestoreLegacy writes the snapshot back, unconditionally: after       *)
(* another request's write this undoes it.                                 *)
Restore(r) ==
    /\ requests[r].pc = "restore"
    /\ \/ legacy' = requests[r].before /\ UNCHANGED known
       \/ "error" \in Faults /\ UNCHANGED legacy /\ known' = TRUE
       \/ "lost" \in Faults /\ legacy' = requests[r].before /\ known' = TRUE
    /\ suspect' = (suspect \/ ~requests[r].alone)
    /\ Leave(r)
    /\ UNCHANGED <<v2, published, now>>

(* The worker dies between two calls; nothing resumes the request.         *)
Crash(r) ==
    /\ "crash" \in Faults
    /\ Busy(r)
    /\ Leave(r)
    /\ suspect' = (suspect \/ requests[r].pc \notin {"snapshot", "legacy"})
    /\ UNCHANGED <<v2, legacy, published, now, known>>

(* handleAccountDelete deletes the sessions of the personal workspace in   *)
(* DB_V2 and knows nothing of the legacy projection.                       *)
AccountDeleted ==
    /\ v2.status \in {"active", "ended"}
    /\ \E t \in Stamps(0) : t >= v2.version /\ now' = t /\ v2' = SafeSide(t)
    /\ suspect' = TRUE
    /\ UNCHANGED <<legacy, published, requests, known>>

-----------------------------------------------------------------------------
Next ==
    \/ AccountDeleted
    \/ \E r \in Requests :
        \/ CreateV2(r) \/ CreateLegacy(r) \/ Compensate(r)
        \/ Start(r) \/ Snapshot(r) \/ WriteLegacy(r) \/ WriteV2(r) \/ Restore(r)
        \/ Crash(r)

Spec == Init /\ [][Next]_vars
=============================================================================
