---------------------- MODULE SessionProjectionProofs ----------------------
(***************************************************************************)
(* Proofs of the properties of SessionProjectionProps, for any number of   *)
(* requests, any settings, any bound on the clock and any faults.          *)
(***************************************************************************)
EXTENDS SessionProjectionProps, TLAPS

-----------------------------------------------------------------------------
(* The inductive invariant *)

At(r, pcs) == requests[r].pc \in pcs

Changing == {"snapshot", "legacy", "v2"}
Writing == {"v2", "restore", "project", "compensate"}

(* What a request is about to store follows from its kind.                 *)
Aims ==
    \A r \in Requests : At(r, Changing) =>
        /\ requests[r].op # "create"
        /\ requests[r].next.status = IF requests[r].op = "update" THEN "active" ELSE requests[r].op

(* The row a request has loaded is the stored one or older; a row stamped  *)
(* with the same millisecond is the same, unless it has been deleted.      *)
Loaded ==
    \A r \in Requests : At(r, Changing) =>
        /\ requests[r].loaded.version <= v2.version
        /\ requests[r].loaded.version = v2.version
              => requests[r].loaded = v2 \/ v2.status = "deleted"
        /\ At(r, {"legacy", "v2"}) /\ requests[r].op # "update"
              => requests[r].loaded.version < requests[r].stamp

(* A session comes into being once.                                        *)
NotYet == v2.status = "none" => legacy.status = "none" /\ Quiet

(* Two requests in flight know of each other.                              *)
Overlaps ==
    \A r, q \in Requests : r # q /\ Busy(r) /\ Busy(q) => ~requests[r].alone

(* A row of the legacy table holds what a request wants stored.            *)
Follows(row, request) ==
    /\ row.status = request.next.status
    /\ request.op = "update" => row.look = request.next.look

(* What a lone request has written to the legacy table is still there.     *)
LoneWrites ==
    \A r \in Requests : requests[r].alone /\ At(r, {"v2"}) => Follows(legacy, requests[r])

(* The two copies of a session agree.                                      *)
Matches(row) ==
    \/ row.status = v2.status /\ (v2.status = "active" => row.look = v2.look)
    \/ v2.status = "deleted" /\ row.status = "none"

(* As long as nothing is wrong yet: outside of writes the copies agree;    *)
(* the snapshot of a lone request can be written back; a write that will   *)
(* be accepted is in the legacy table unless another one is going to fail; *)
(* and nothing happens to a session that has no projection yet.            *)
Agreed == (\A r \in Requests : ~At(r, Writing)) => Matches(legacy)

Undoable ==
    \A r \in Requests :
        requests[r].alone /\ At(r, {"legacy", "v2", "restore"}) => Matches(requests[r].before)

Justified ==
    \A r \in Requests :
        At(r, {"v2"}) /\ requests[r].loaded.version = v2.version =>
            \/ Follows(legacy, requests[r])
            \/ \E q \in Requests \ {r} : At(q, {"v2", "restore"})

Unborn ==
    \A r \in Requests : At(r, {"project", "compensate"}) =>
        /\ legacy.status = "none"
        /\ v2.status = "active" /\ v2.look = FirstLook
        /\ \A q \in Requests \ {r} : At(q, {"idle", "snapshot"})

Sound == ~suspect /\ ~known => Agreed /\ Undoable /\ Justified /\ Unborn

Inv == TypeOK /\ Aims /\ Loaded /\ NotYet /\ Overlaps /\ LoneWrites /\ Sound


-----------------------------------------------------------------------------
(* Types *)

LEMMA FirstLookIsLook == FirstLook \in Looks
  BY LooksAssumption DEF FirstLook

LEMMA StampTypes == ASSUME TypeOK, NEW v, NEW t \in Stamps(v) PROVE t \in 0..MaxStamp
  BY MaxStampAssumption DEF TypeOK, Stamps

LEMMA RowTypes ==
    /\ \A st \in Statuses, look \in Looks : Row(st, look) \in Rows
    /\ \A st \in Statuses, look \in Looks, t \in 0..MaxStamp :
          [status |-> st, look |-> look, version |-> t] \in V2Rows
    /\ Missing \in Rows /\ MissingV2 \in V2Rows
    /\ Idle \in RequestRecords
  BY FirstLookIsLook, MaxStampAssumption
  DEF Row, Rows, V2Rows, Statuses, Missing, MissingV2, Idle, RequestRecords, Pcs

LEMMA MoveTypes ==
    ASSUME requests \in [Requests -> RequestRecords], NEW r \in Requests
    PROVE  /\ Leave(r) => requests' \in [Requests -> RequestRecords]
           /\ \A pc \in Pcs : Goto(r, pc) => requests' \in [Requests -> RequestRecords]
           /\ \A record \in RequestRecords : Enter(r, record) => requests' \in [Requests -> RequestRecords]
<1>1. \A q \in Requests : [requests[q] EXCEPT !.alone = FALSE] \in RequestRecords
  BY DEF RequestRecords
<1>2. \A record \in RequestRecords : [record EXCEPT !.alone = Quiet] \in RequestRecords
  BY DEF RequestRecords, Quiet
<1>3. \A pc \in Pcs : [requests[r] EXCEPT !.pc = pc] \in RequestRecords
  BY DEF RequestRecords
<1>4. QED
  BY <1>1, <1>2, <1>3, RowTypes DEF Leave, Goto, Enter

LEMMA TypingStep == ASSUME TypeOK, Aims, [Next]_vars PROVE TypeOK'
<1>1. CASE AccountDeleted
  <2>1. PICK t \in Stamps(0) : now' = t /\ v2' = SafeSide(t)
    BY <1>1 DEF AccountDeleted
  <2>2. v2' \in V2Rows /\ now' \in 0..MaxStamp
    BY <2>1, StampTypes DEF TypeOK, SafeSide, V2Rows, Statuses
  <2>3. QED
    BY <1>1, <2>2 DEF AccountDeleted, TypeOK
<1>2. ASSUME NEW r \in Requests, CreateV2(r) PROVE TypeOK'
  <2>1. PICK t \in Stamps(0) :
          now' = t /\ v2' = [status |-> "active", look |-> FirstLook, version |-> t]
    BY <1>2 DEF CreateV2
  <2>2. v2' \in V2Rows /\ now' \in 0..MaxStamp /\ published' \in Rows
    BY <1>2, <2>1, StampTypes, RowTypes, FirstLookIsLook DEF CreateV2, Statuses
  <2>3. [Idle EXCEPT !.pc = "project", !.op = "create"] \in RequestRecords
    BY RowTypes DEF RequestRecords, Pcs
  <2>4. requests' \in [Requests -> RequestRecords]
    BY <1>2, <2>3, MoveTypes DEF CreateV2, TypeOK
  <2>5. QED
    BY <1>2, <2>2, <2>4 DEF CreateV2, TypeOK
<1>3. ASSUME NEW r \in Requests, CreateLegacy(r) PROVE TypeOK'
  <2>1. requests' \in [Requests -> RequestRecords]
    BY <1>3, MoveTypes DEF CreateLegacy, TypeOK, Pcs
  <2>2. QED
    BY <1>3, <2>1, RowTypes, FirstLookIsLook DEF CreateLegacy, TypeOK, Statuses
<1>4. ASSUME NEW r \in Requests, Compensate(r) PROVE TypeOK'
  <2>1. requests' \in [Requests -> RequestRecords]
    BY <1>4, MoveTypes DEF Compensate, TypeOK
  <2>2. v2' \in V2Rows /\ now' \in 0..MaxStamp
    BY <1>4, StampTypes DEF Compensate, TypeOK, SafeSide, V2Rows, Statuses
  <2>3. Row("deleted", v2.look) \in Rows
    BY RowTypes DEF TypeOK, V2Rows, Statuses
  <2>4. QED
    BY <1>4, <2>1, <2>2, <2>3 DEF Compensate, TypeOK
<1>5. ASSUME NEW r \in Requests, Start(r) PROVE TypeOK'
  <2>1. PICK op \in {"update", "ended", "deleted"}, look \in Looks :
          Enter(r, [Idle EXCEPT !.pc = "snapshot", !.op = op, !.loaded = v2,
                        !.next = Row(IF op = "update" THEN "active" ELSE op, look)])
    BY <1>5 DEF Start
  <2>2. Row(IF op = "update" THEN "active" ELSE op, look) \in Rows
    BY RowTypes DEF Statuses
  <2>3. [Idle EXCEPT !.pc = "snapshot", !.op = op, !.loaded = v2,
            !.next = Row(IF op = "update" THEN "active" ELSE op, look)] \in RequestRecords
    BY <2>2, RowTypes DEF TypeOK, RequestRecords, Pcs
  <2>4. requests' \in [Requests -> RequestRecords]
    BY <2>1, <2>3, MoveTypes DEF TypeOK
  <2>5. QED
    BY <1>5, <2>4 DEF Start, TypeOK
<1>6. ASSUME NEW r \in Requests, Snapshot(r) PROVE TypeOK'
  <2>1. CASE Leave(r)
    <3>1. requests' \in [Requests -> RequestRecords]
      BY <2>1, MoveTypes DEF TypeOK
    <3>2. known' \in BOOLEAN /\ suspect' \in BOOLEAN
      BY <1>6 DEF Snapshot, TypeOK
    <3>3. now' = now
      BY <1>6, <2>1 DEF Snapshot, Leave, Idle, TypeOK
    <3>4. QED
      BY <1>6, <3>1, <3>2, <3>3 DEF Snapshot, TypeOK
  <2>2. ASSUME NEW t \in 0..MaxStamp,
               requests' = [requests EXCEPT ![r].pc = "legacy", ![r].before = legacy, ![r].stamp = t],
               now' = IF t > now THEN t ELSE now
        PROVE  TypeOK'
    <3>1. [requests[r] EXCEPT !.pc = "legacy", !.before = legacy, !.stamp = t] \in RequestRecords
      BY DEF TypeOK, RequestRecords, Pcs
    <3>2. requests' \in [Requests -> RequestRecords]
      BY <2>2, <3>1 DEF TypeOK
    <3>3. QED
      BY <1>6, <2>2, <3>2 DEF Snapshot, TypeOK
  <2>3. QED
    BY <1>6, <2>1, <2>2, StampTypes, MaxStampAssumption DEF Snapshot
<1>7. ASSUME NEW r \in Requests, WriteLegacy(r) PROVE TypeOK'
  <2>1. requests' \in [Requests -> RequestRecords]
    BY <1>7, MoveTypes DEF WriteLegacy, TypeOK, Pcs
  <2>2. Projected(requests[r]) \in Rows
    <3>1. requests[r].op \in {"update", "ended", "deleted"}
      BY <1>7 DEF TypeOK, WriteLegacy, Aims, At, Changing, RequestRecords
    <3>2. requests[r].next \in Rows /\ legacy.look \in Looks
      BY DEF TypeOK, RequestRecords, Rows
    <3>3. QED
      BY <3>1, <3>2, RowTypes DEF Projected, Statuses
  <2>3. QED
    BY <1>7, <2>1, <2>2 DEF WriteLegacy, TypeOK
<1>8. ASSUME NEW r \in Requests, WriteV2(r) PROVE TypeOK'
  <2>1. PICK t \in 0..MaxStamp :
          /\ now' = IF t > now THEN t ELSE now
          /\ v2' \in {v2, Applied(requests[r], t)}
    BY <1>8, StampTypes DEF WriteV2, TypeOK, RequestRecords
  <2>2. v2' \in V2Rows /\ now' \in 0..MaxStamp
    BY <2>1 DEF TypeOK, Applied, RequestRecords, V2Rows, Rows
  <2>3. published' \in Rows
    BY <1>8 DEF WriteV2, TypeOK, RequestRecords
  <2>4. requests' \in [Requests -> RequestRecords]
    BY <1>8, MoveTypes DEF WriteV2, Acknowledge, TypeOK, Pcs
  <2>5. suspect' \in BOOLEAN /\ known' \in BOOLEAN /\ legacy' = legacy
    BY <1>8 DEF WriteV2, Acknowledge, TypeOK
  <2>6. QED
    BY <2>2, <2>3, <2>4, <2>5 DEF TypeOK
<1>9. ASSUME NEW r \in Requests, Restore(r) PROVE TypeOK'
  <2>1. requests' \in [Requests -> RequestRecords]
    BY <1>9, MoveTypes DEF Restore, TypeOK
  <2>2. legacy' \in Rows /\ suspect' \in BOOLEAN
    BY <1>9 DEF Restore, TypeOK, RequestRecords
  <2>3. QED
    BY <1>9, <2>1, <2>2 DEF Restore, TypeOK
<1>10. ASSUME NEW r \in Requests, Crash(r) PROVE TypeOK'
  <2>1. requests' \in [Requests -> RequestRecords]
    BY <1>10, MoveTypes DEF Crash, TypeOK
  <2>2. QED
    BY <1>10, <2>1 DEF Crash, TypeOK
<1>11. CASE UNCHANGED vars
  BY <1>11 DEF TypeOK, vars
<1>12. QED
  BY <1>1, <1>2, <1>3, <1>4, <1>5, <1>6, <1>7, <1>8, <1>9, <1>10, <1>11 DEF Next

(* What Leave and Goto do to the requests, one by one.                     *)
LEMMA Moves ==
    ASSUME requests \in [Requests -> RequestRecords], NEW r \in Requests
    PROVE  /\ Leave(r) => /\ requests'[r] = Idle
                          /\ \A q \in Requests \ {r} : requests'[q] = requests[q]
           /\ \A pc : Goto(r, pc) =>
                 /\ requests'[r].pc = pc
                 /\ requests'[r].op = requests[r].op
                 /\ requests'[r].next = requests[r].next
                 /\ requests'[r].before = requests[r].before
                 /\ requests'[r].alone = requests[r].alone
                 /\ \A q \in Requests \ {r} : requests'[q] = requests[q]
<1>1. ASSUME NEW pc, Goto(r, pc)
      PROVE  /\ requests'[r].pc = pc
             /\ requests'[r].op = requests[r].op
             /\ requests'[r].next = requests[r].next
             /\ requests'[r].before = requests[r].before
             /\ requests'[r].alone = requests[r].alone
             /\ \A q \in Requests \ {r} : requests'[q] = requests[q]
  <2>1. requests'[r] = [requests[r] EXCEPT !.pc = pc] /\ requests[r] \in RequestRecords
    BY <1>1 DEF Goto
  <2>2. QED
    BY <1>1, <2>1 DEF Goto, RequestRecords
<1>2. QED
  BY <1>1 DEF Leave

(* A request goes on unchanged, but for not being alone any more.          *)
Undisturbed(q) ==
    /\ requests'[q].pc = requests[q].pc
    /\ requests'[q].op = requests[q].op
    /\ requests'[q].loaded = requests[q].loaded
    /\ requests'[q].next = requests[q].next
    /\ requests'[q].before = requests[q].before
    /\ requests'[q].stamp = requests[q].stamp

(* A request that enters is alone when all was quiet, and the others are   *)
(* alone no more.                                                          *)
LEMMA Entered ==
    ASSUME requests \in [Requests -> RequestRecords], NEW r \in Requests,
           NEW record \in RequestRecords, Enter(r, record)
    PROVE  /\ requests'[r].pc = record.pc
           /\ requests'[r].op = record.op
           /\ requests'[r].loaded = record.loaded
           /\ requests'[r].next = record.next
           /\ requests'[r].alone => Quiet
           /\ \A q \in Requests \ {r} : Undisturbed(q) /\ ~requests'[q].alone
<1>1. requests'[r] = [record EXCEPT !.alone = Quiet]
  BY DEF Enter
<1>2. \A q \in Requests \ {r} : requests'[q] = [requests[q] EXCEPT !.alone = FALSE]
  BY DEF Enter
<1>3. requests'[r].alone => Quiet
  BY <1>1 DEF RequestRecords, Quiet
<1>4. ASSUME NEW q \in Requests \ {r} PROVE Undisturbed(q) /\ ~requests'[q].alone
  <2>1. requests[q] \in RequestRecords /\ requests'[q] = [requests[q] EXCEPT !.alone = FALSE]
    BY <1>2
  <2>2. QED
    BY <2>1 DEF RequestRecords, Undisturbed
<1>5. QED
  BY <1>1, <1>3, <1>4 DEF RequestRecords

LEMMA CreateRecord == [Idle EXCEPT !.pc = "project", !.op = "create"] \in RequestRecords
  BY RowTypes DEF RequestRecords, Pcs

LEMMA StartRecord ==
    ASSUME TypeOK, NEW op \in {"update", "ended", "deleted"}, NEW look \in Looks
    PROVE  [Idle EXCEPT !.pc = "snapshot", !.op = op, !.loaded = v2,
               !.next = Row(IF op = "update" THEN "active" ELSE op, look)] \in RequestRecords
<1>1. Row(IF op = "update" THEN "active" ELSE op, look) \in Rows
  BY RowTypes DEF Statuses
<1>2. QED
  BY <1>1, RowTypes DEF TypeOK, RequestRecords, Pcs

(* After CreateV2 the new request waits for the projection, or the answer  *)
(* was lost and there is none.                                             *)
LEMMA Created ==
    ASSUME TypeOK, NEW r \in Requests, CreateV2(r)
    PROVE  \/ UNCHANGED requests
           \/ /\ requests'[r].pc = "project"
              /\ requests'[r].alone => Quiet
              /\ \A q \in Requests \ {r} : Undisturbed(q) /\ ~requests'[q].alone
  BY Entered, CreateRecord DEF CreateV2, TypeOK, Idle

LEMMA AimsStep == ASSUME TypeOK, Aims, [Next]_vars PROVE Aims'
<1> USE DEF Aims, At, Changing
<1>1. CASE AccountDeleted
  BY <1>1 DEF AccountDeleted
<1>2. ASSUME NEW r \in Requests, CreateV2(r) PROVE Aims'
  <2>1. \A q \in Requests : requests'[q].pc = "project" \/ Undisturbed(q)
    BY <1>2, Created DEF Undisturbed
  <2>2. QED
    BY <2>1 DEF Undisturbed
<1>3. ASSUME NEW r \in Requests, CreateLegacy(r) PROVE Aims'
  BY <1>3 DEF TypeOK, RequestRecords, CreateLegacy, Goto, Leave, Idle
<1>4. ASSUME NEW r \in Requests, Compensate(r) PROVE Aims'
  BY <1>4 DEF TypeOK, RequestRecords, Compensate, Leave, Idle
<1>5. ASSUME NEW r \in Requests, Start(r) PROVE Aims'
  BY <1>5 DEF TypeOK, RequestRecords, Start, Enter, Idle, Row, Busy
<1>6. ASSUME NEW r \in Requests, Snapshot(r) PROVE Aims'
  BY <1>6 DEF TypeOK, RequestRecords, Snapshot, Leave, Idle
<1>7. ASSUME NEW r \in Requests, WriteLegacy(r) PROVE Aims'
  BY <1>7 DEF TypeOK, RequestRecords, WriteLegacy, Goto, Leave, Idle
<1>8. ASSUME NEW r \in Requests, WriteV2(r) PROVE Aims'
  BY <1>8 DEF TypeOK, RequestRecords, WriteV2, Acknowledge, Goto, Leave, Idle
<1>9. ASSUME NEW r \in Requests, Restore(r) PROVE Aims'
  BY <1>9 DEF TypeOK, RequestRecords, Restore, Leave, Idle
<1>10. ASSUME NEW r \in Requests, Crash(r) PROVE Aims'
  BY <1>10 DEF TypeOK, RequestRecords, Crash, Leave, Idle
<1>11. CASE UNCHANGED vars
  BY <1>11 DEF vars
<1>12. QED
  BY <1>1, <1>2, <1>3, <1>4, <1>5, <1>6, <1>7, <1>8, <1>9, <1>10, <1>11 DEF Next
LEMMA LoadedStep == ASSUME TypeOK, Aims, Loaded, NotYet, [Next]_vars PROVE Loaded'
<1> USE MaxStampAssumption DEF Loaded, At, Changing, Busy
<1>1. CASE AccountDeleted
  BY <1>1 DEF AccountDeleted, TypeOK, RequestRecords, SafeSide, Stamps, V2Rows
<1>2. ASSUME NEW r \in Requests, CreateV2(r) PROVE Loaded'
  <2>1. \A q \in Requests : requests[q].pc = "idle"
    BY <1>2 DEF CreateV2, NotYet, Quiet
  <2>2. QED
    <3>1. \A q \in Requests : requests'[q].pc = "project" \/ Undisturbed(q)
      BY <1>2, Created DEF Undisturbed
    <3>2. QED
      BY <2>1, <3>1 DEF Undisturbed
<1>3. ASSUME NEW r \in Requests, CreateLegacy(r) PROVE Loaded'
  BY <1>3 DEF TypeOK, RequestRecords, CreateLegacy, Goto, Leave, Idle
<1>4. ASSUME NEW r \in Requests, Compensate(r) PROVE Loaded'
  <2>1. \/ v2' = v2
        \/ v2.version <= v2'.version /\ v2'.status = "deleted" /\ v2'.version \in 0..MaxStamp
    <3>1. CASE UNCHANGED v2
      BY <3>1
    <3>2. ASSUME NEW t \in Stamps(0), t >= v2.version, v2' = SafeSide(t)
          PROVE  v2.version <= v2'.version /\ v2'.status = "deleted" /\ v2'.version \in 0..MaxStamp
      BY <3>2, StampTypes DEF SafeSide, TypeOK, V2Rows
    <3>3. QED
      BY <1>4, <3>1, <3>2 DEF Compensate
  <2>2. \A q \in Requests : requests'[q].pc = "idle" \/ requests'[q] = requests[q]
    BY <1>4, Moves DEF Compensate, TypeOK, Idle
  <2>3. QED
    BY <2>1, <2>2 DEF TypeOK, RequestRecords, V2Rows
<1>5. ASSUME NEW r \in Requests, Start(r) PROVE Loaded'
  BY <1>5 DEF TypeOK, RequestRecords, Start, Enter, Idle, Row, Busy, V2Rows
<1>6. ASSUME NEW r \in Requests, Snapshot(r) PROVE Loaded'
  BY <1>6 DEF TypeOK, RequestRecords, Snapshot, Leave, Idle, Stamps, V2Rows
<1>7. ASSUME NEW r \in Requests, WriteLegacy(r) PROVE Loaded'
  BY <1>7 DEF TypeOK, RequestRecords, WriteLegacy, Goto, Leave, Idle
<1>8. ASSUME NEW r \in Requests, WriteV2(r) PROVE Loaded'
  BY <1>8 DEF TypeOK, RequestRecords, WriteV2, Acknowledge, Goto, Leave, Idle, Applied, Current, Stamps, V2Rows
<1>9. ASSUME NEW r \in Requests, Restore(r) PROVE Loaded'
  BY <1>9 DEF TypeOK, RequestRecords, Restore, Leave, Idle
<1>10. ASSUME NEW r \in Requests, Crash(r) PROVE Loaded'
  BY <1>10 DEF TypeOK, RequestRecords, Crash, Leave, Idle
<1>11. CASE UNCHANGED vars
  BY <1>11 DEF vars
<1>12. QED
  BY <1>1, <1>2, <1>3, <1>4, <1>5, <1>6, <1>7, <1>8, <1>9, <1>10, <1>11 DEF Next

LEMMA NotYetStep == ASSUME TypeOK, Aims, NotYet, [Next]_vars PROVE NotYet'
<1> USE MaxStampAssumption DEF NotYet, At, Changing, Quiet, Busy, Row, Missing, SafeSide, Applied
<1>1. CASE AccountDeleted
  BY <1>1 DEF AccountDeleted, TypeOK, RequestRecords, SafeSide, Stamps, V2Rows
<1>2. ASSUME NEW r \in Requests, CreateV2(r) PROVE NotYet'
  BY <1>2 DEF CreateV2
<1>3. ASSUME NEW r \in Requests, CreateLegacy(r) PROVE NotYet'
  BY <1>3 DEF TypeOK, RequestRecords, CreateLegacy, Goto, Leave, Idle
<1>4. ASSUME NEW r \in Requests, Compensate(r) PROVE NotYet'
  BY <1>4 DEF TypeOK, RequestRecords, Compensate, Leave, Idle, SafeSide, Stamps, V2Rows
<1>5. ASSUME NEW r \in Requests, Start(r) PROVE NotYet'
  BY <1>5 DEF TypeOK, RequestRecords, Start, Enter, Idle, Row, Busy, V2Rows
<1>6. ASSUME NEW r \in Requests, Snapshot(r) PROVE NotYet'
  BY <1>6 DEF TypeOK, RequestRecords, Snapshot, Leave, Idle, Stamps, V2Rows
<1>7. ASSUME NEW r \in Requests, WriteLegacy(r) PROVE NotYet'
  BY <1>7 DEF TypeOK, RequestRecords, WriteLegacy, Goto, Leave, Idle
<1>8. ASSUME NEW r \in Requests, WriteV2(r) PROVE NotYet'
  <2>1. v2'.status # "none"
    BY <1>8 DEF WriteV2, Applied, Aims, TypeOK, RequestRecords
  <2>2. QED
    BY <2>1
<1>9. ASSUME NEW r \in Requests, Restore(r) PROVE NotYet'
  BY <1>9 DEF TypeOK, RequestRecords, Restore, Leave, Idle
<1>10. ASSUME NEW r \in Requests, Crash(r) PROVE NotYet'
  BY <1>10 DEF TypeOK, RequestRecords, Crash, Leave, Idle
<1>11. CASE UNCHANGED vars
  BY <1>11 DEF vars
<1>12. QED
  BY <1>1, <1>2, <1>3, <1>4, <1>5, <1>6, <1>7, <1>8, <1>9, <1>10, <1>11 DEF Next

LEMMA OverlapsStep == ASSUME TypeOK, Overlaps, [Next]_vars PROVE Overlaps'
<1> USE MaxStampAssumption DEF Overlaps, At, Changing, Busy, Quiet
<1>1. CASE AccountDeleted
  BY <1>1 DEF AccountDeleted, TypeOK, RequestRecords, SafeSide, Stamps, V2Rows
<1>2. ASSUME NEW r \in Requests, CreateV2(r) PROVE Overlaps'
  <2>1. CASE UNCHANGED requests
    BY <2>1
  <2>2. CASE /\ requests'[r].alone => Quiet
             /\ \A q \in Requests \ {r} : Undisturbed(q) /\ ~requests'[q].alone
    BY <2>2 DEF Undisturbed
  <2>3. QED
    BY <1>2, <2>1, <2>2, Created
<1>3. ASSUME NEW r \in Requests, CreateLegacy(r) PROVE Overlaps'
  BY <1>3 DEF TypeOK, RequestRecords, CreateLegacy, Goto, Leave, Idle
<1>4. ASSUME NEW r \in Requests, Compensate(r) PROVE Overlaps'
  BY <1>4 DEF TypeOK, RequestRecords, Compensate, Leave, Idle, SafeSide, Stamps, V2Rows
<1>5. ASSUME NEW r \in Requests, Start(r) PROVE Overlaps'
  <2>1. PICK op \in {"update", "ended", "deleted"}, look \in Looks :
          Enter(r, [Idle EXCEPT !.pc = "snapshot", !.op = op, !.loaded = v2,
                        !.next = Row(IF op = "update" THEN "active" ELSE op, look)])
    BY <1>5 DEF Start
  <2>2. /\ requests'[r].alone => Quiet
        /\ \A q \in Requests \ {r} : Undisturbed(q) /\ ~requests'[q].alone
    BY <2>1, Entered, StartRecord DEF TypeOK
  <2>3. QED
    BY <2>2 DEF Undisturbed
<1>6. ASSUME NEW r \in Requests, Snapshot(r) PROVE Overlaps'
  BY <1>6 DEF TypeOK, RequestRecords, Snapshot, Leave, Idle, Stamps, V2Rows
<1>7. ASSUME NEW r \in Requests, WriteLegacy(r) PROVE Overlaps'
  BY <1>7 DEF TypeOK, RequestRecords, WriteLegacy, Goto, Leave, Idle
<1>8. ASSUME NEW r \in Requests, WriteV2(r) PROVE Overlaps'
  BY <1>8 DEF TypeOK, RequestRecords, WriteV2, Acknowledge, Goto, Leave, Idle, Applied, Current, Stamps, V2Rows
<1>9. ASSUME NEW r \in Requests, Restore(r) PROVE Overlaps'
  BY <1>9 DEF TypeOK, RequestRecords, Restore, Leave, Idle
<1>10. ASSUME NEW r \in Requests, Crash(r) PROVE Overlaps'
  BY <1>10 DEF TypeOK, RequestRecords, Crash, Leave, Idle
<1>11. CASE UNCHANGED vars
  BY <1>11 DEF vars
<1>12. QED
  BY <1>1, <1>2, <1>3, <1>4, <1>5, <1>6, <1>7, <1>8, <1>9, <1>10, <1>11 DEF Next
LEMMA LoneWritesStep ==
    ASSUME TypeOK, Aims, Overlaps, LoneWrites, [Next]_vars
    PROVE  LoneWrites'
<1> USE DEF LoneWrites, Follows, At
<1>1. ASSUME UNCHANGED legacy,
             \A q \in Requests : requests'[q].pc = "v2" /\ requests'[q].alone =>
                                     requests'[q] = requests[q]
      PROVE  LoneWrites'
  BY <1>1
<1>2. ASSUME NEW r \in Requests, At(r, {"legacy", "project", "restore"}),
             \A q \in Requests \ {r} : requests'[q] = requests[q],
             requests'[r].pc = "v2" => Follows(legacy', requests'[r])
      PROVE  LoneWrites'
  BY <1>2 DEF Overlaps, Busy
<1>3. CASE AccountDeleted
  BY <1>3, <1>1 DEF AccountDeleted
<1>4. ASSUME NEW r \in Requests, CreateV2(r) PROVE LoneWrites'
  <2>1. \A q \in Requests : requests'[q].pc = "v2" /\ requests'[q].alone =>
                                requests'[q] = requests[q]
    BY <1>4, Created
  <2>2. QED
    BY <1>4, <2>1, <1>1 DEF CreateV2
<1>5. ASSUME NEW r \in Requests, CreateLegacy(r) PROVE LoneWrites'
  BY <1>5, <1>2, Moves DEF CreateLegacy, TypeOK, RequestRecords, Idle
<1>6. ASSUME NEW r \in Requests, Compensate(r) PROVE LoneWrites'
  <2>1. \A q \in Requests : requests'[q].pc = "v2" => requests'[q] = requests[q]
    BY <1>6, Moves DEF Compensate, TypeOK, Idle
  <2>2. QED
    BY <1>6, <2>1, <1>1 DEF Compensate
<1>7. ASSUME NEW r \in Requests, Start(r) PROVE LoneWrites'
  <2>1. requests'[r].pc = "snapshot"
    BY <1>7, Entered, StartRecord DEF Start, TypeOK, Idle
  <2>2. \A q \in Requests \ {r} : ~requests'[q].alone
    BY <1>7, Entered, StartRecord DEF Start, TypeOK
  <2>3. QED
    BY <1>7, <2>1, <2>2, <1>1 DEF Start
<1>8. ASSUME NEW r \in Requests, Snapshot(r) PROVE LoneWrites'
  BY <1>8, <1>1, Moves DEF Snapshot, TypeOK, RequestRecords, Idle
<1>9. ASSUME NEW r \in Requests, WriteLegacy(r) PROVE LoneWrites'
  <2>1. CASE Leave(r)
    BY <1>9, <2>1, <1>2, Moves DEF WriteLegacy, TypeOK, Idle
  <2>2. CASE Goto(r, "v2") /\ legacy' = Projected(requests[r])
    <3>1. Follows(legacy', requests[r])
      BY <1>9, <2>2 DEF WriteLegacy, Projected, Row, Aims, Changing, TypeOK, RequestRecords
    <3>2. requests'[r].next = requests[r].next /\ requests'[r].op = requests[r].op
      BY <2>2, Moves DEF TypeOK, RequestRecords
    <3>3. QED
      BY <1>9, <2>2, <3>1, <3>2, <1>2, Moves DEF WriteLegacy, TypeOK
  <2>3. QED
    BY <1>9, <2>1, <2>2 DEF WriteLegacy
<1>10. ASSUME NEW r \in Requests, WriteV2(r) PROVE LoneWrites'
  <2>1. \A q \in Requests : requests'[q].pc = "v2" => requests'[q] = requests[q]
    BY <1>10, Moves DEF WriteV2, Acknowledge, TypeOK, Idle
  <2>2. QED
    BY <1>10, <2>1, <1>1 DEF WriteV2
<1>11. ASSUME NEW r \in Requests, Restore(r) PROVE LoneWrites'
  BY <1>11, <1>2, Moves DEF Restore, TypeOK, Idle
<1>12. ASSUME NEW r \in Requests, Crash(r) PROVE LoneWrites'
  BY <1>12, <1>1, Moves DEF Crash, TypeOK, Idle
<1>13. CASE UNCHANGED vars
  BY <1>13 DEF vars
<1>14. QED
  BY <1>3, <1>4, <1>5, <1>6, <1>7, <1>8, <1>9, <1>10, <1>11, <1>12, <1>13 DEF Next

LEMMA SoundStep == ASSUME Inv, [Next]_vars PROVE Sound'
<1> SUFFICES ASSUME ~suspect', ~known' PROVE (Agreed /\ Undoable /\ Justified /\ Unborn)'
  BY DEF Sound
<1> USE DEF Inv, At
<1>1. CASE AccountDeleted
  BY <1>1 DEF AccountDeleted
<1>2. ASSUME NEW r \in Requests, CreateV2(r)
      PROVE  (Agreed /\ Undoable /\ Justified /\ Unborn)'
  <2>1. requests'[r].pc = "project" /\ \A q \in Requests \ {r} : requests'[q].pc = "idle"
    <3>1. \A q \in Requests : requests[q].pc = "idle"
      BY <1>2 DEF CreateV2, NotYet, Quiet, Busy
    <3>2. Enter(r, [Idle EXCEPT !.pc = "project", !.op = "create"])
      BY <1>2 DEF CreateV2
    <3>3. QED
      BY <3>1, <3>2, Entered, CreateRecord DEF TypeOK, Idle, Undisturbed
  <2>2. legacy'.status = "none" /\ v2'.status = "active" /\ v2'.look = FirstLook
    BY <1>2 DEF CreateV2, NotYet
  <2>3. QED
    BY <2>1, <2>2 DEF Agreed, Undoable, Justified, Unborn, Writing
<1>3. ASSUME NEW r \in Requests, CreateLegacy(r)
      PROVE  (Agreed /\ Undoable /\ Justified /\ Unborn)'
  <2>1. Unborn /\ UNCHANGED v2
    BY <1>3 DEF CreateLegacy, Sound
  <2>2. /\ v2.status = "active" /\ v2.look = FirstLook /\ legacy.status = "none"
        /\ \A q \in Requests \ {r} : requests[q].pc \in {"idle", "snapshot"}
    BY <1>3, <2>1 DEF CreateLegacy, Unborn
  <2>3. \A q \in Requests \ {r} : requests'[q] = requests[q]
    BY <1>3, Moves DEF CreateLegacy, TypeOK
  <2>4. CASE Leave(r) /\ legacy' = Row("active", FirstLook)
    <3>1. Matches(legacy)'
      BY <2>1, <2>2, <2>4 DEF Matches, Row
    <3>2. \A q \in Requests : requests'[q].pc \in {"idle", "snapshot"}
      BY <2>2, <2>3, <2>4, Moves DEF TypeOK, Idle
    <3>3. QED
      BY <3>1, <3>2 DEF Agreed, Undoable, Justified, Unborn
  <2>5. CASE Goto(r, "compensate") /\ UNCHANGED legacy
    <3>1. requests'[r].pc = "compensate"
      BY <2>5, Moves DEF TypeOK, RequestRecords
    <3>2. QED
      BY <2>1, <2>2, <2>3, <2>5, <3>1 DEF Agreed, Undoable, Justified, Unborn, Writing
  <2>6. QED
    BY <1>3, <2>4, <2>5 DEF CreateLegacy
<1>4. ASSUME NEW r \in Requests, Compensate(r)
      PROVE  (Agreed /\ Undoable /\ Justified /\ Unborn)'
  <2>1. /\ legacy'.status = "none"
        /\ \A q \in Requests \ {r} : requests[q].pc \in {"idle", "snapshot"}
    BY <1>4 DEF Compensate, Sound, Unborn
  <2>2. v2'.status = "deleted"
    BY <1>4 DEF Compensate, SafeSide, TypeOK, V2Rows
  <2>3. \A q \in Requests : requests'[q].pc \in {"idle", "snapshot"}
    BY <1>4, <2>1, Moves DEF Compensate, TypeOK, Idle
  <2>4. QED
    BY <2>1, <2>2, <2>3 DEF Agreed, Undoable, Justified, Unborn, Matches
<1>5. ASSUME NEW r \in Requests, Start(r)
      PROVE  (Agreed /\ Undoable /\ Justified /\ Unborn)'
  <2>1. Agreed /\ Justified /\ Unborn /\ requests[r].pc = "idle" /\ UNCHANGED <<v2, legacy>>
    BY <1>5 DEF Start, Sound, Busy
  <2>2. requests'[r].pc = "snapshot"
    BY <1>5, Entered, StartRecord DEF Start, TypeOK, Idle
  <2>3. \A q \in Requests \ {r} : Undisturbed(q) /\ ~requests'[q].alone
    BY <1>5, Entered, StartRecord DEF Start, TypeOK
  <2>4. Agreed' /\ Unborn'
    BY <2>1, <2>2, <2>3 DEF Agreed, Unborn, Undisturbed, Matches, Writing
  <2>5. Undoable'
    BY <2>2, <2>3 DEF Undoable
  <2>6. Justified'
    BY <2>1, <2>2, <2>3 DEF Justified, Undisturbed, Follows
  <2>7. QED
    BY <2>4, <2>5, <2>6
<1>6. ASSUME NEW r \in Requests, Snapshot(r)
      PROVE  (Agreed /\ Undoable /\ Justified /\ Unborn)'
  <2>1. /\ Agreed /\ Undoable /\ Justified /\ Unborn
        /\ requests[r].pc = "snapshot" /\ UNCHANGED <<v2, legacy>>
        /\ \A q \in Requests \ {r} : requests'[q] = requests[q]
    BY <1>6 DEF Snapshot, Sound, Leave, TypeOK
  <2>2. CASE Leave(r)
    <3>1. requests'[r].pc = "idle" /\ ~requests'[r].alone
      BY <2>2, Moves DEF TypeOK, Idle
    <3>2. QED
      BY <2>1, <3>1 DEF Agreed, Undoable, Justified, Unborn, Matches, Follows, Writing
  <2>3. CASE legacy.status # "none"
             /\ \E t : requests' = [requests EXCEPT ![r].pc = "legacy", ![r].before = legacy,
                                                   ![r].stamp = t]
    <3>1. /\ requests'[r].pc = "legacy" /\ requests'[r].before = legacy
          /\ requests'[r].alone = requests[r].alone
      <4>1. PICK t : requests'[r] = [requests[r] EXCEPT !.pc = "legacy", !.before = legacy, !.stamp = t]
        BY <2>3 DEF TypeOK
      <4>2. requests[r] \in RequestRecords
        BY DEF TypeOK
      <4>3. QED
        BY <4>1, <4>2 DEF RequestRecords
    <3>2. Agreed'
      BY <2>1, <3>1 DEF Agreed, Matches, Writing
    <3>3. Unborn'
      BY <2>1, <2>3, <3>1 DEF Unborn
    <3>4. Justified'
      <4>1. ASSUME NEW q \in Requests, requests'[q].pc = "v2",
                   requests'[q].loaded.version = v2'.version
            PROVE  \/ Follows(legacy', requests'[q])
                   \/ \E o \in Requests \ {q} : requests'[o].pc \in {"v2", "restore"}
        <5>1. q # r /\ requests'[q] = requests[q]
          BY <2>1, <3>1, <4>1
        <5>2. \/ Follows(legacy, requests[q])
              \/ \E o \in Requests \ {q} : requests[o].pc \in {"v2", "restore"}
          BY <2>1, <4>1, <5>1 DEF Justified
        <5>3. QED
          BY <2>1, <5>1, <5>2 DEF Follows
      <4>2. QED
        BY <4>1 DEF Justified, Follows
    <3>5. requests[r].alone => Matches(legacy)
      BY <2>1 DEF Overlaps, Busy, Agreed, Writing
    <3>6. QED
      BY <2>1, <3>1, <3>2, <3>3, <3>4, <3>5 DEF Undoable, Matches
  <2>4. QED
    BY <1>6, <2>2, <2>3 DEF Snapshot
<1>7. ASSUME NEW r \in Requests, WriteLegacy(r)
      PROVE  (Agreed /\ Undoable /\ Justified /\ Unborn)'
  <2>1. /\ Agreed /\ Undoable /\ Justified /\ Unborn
        /\ requests[r].pc = "legacy" /\ UNCHANGED v2
        /\ \A q \in Requests \ {r} : requests'[q] = requests[q]
    BY <1>7, Moves DEF WriteLegacy, Sound, TypeOK
  <2>2. CASE Goto(r, "v2") /\ legacy' = Projected(requests[r])
    <3>1. /\ requests'[r].pc = "v2"
          /\ requests'[r].alone = requests[r].alone
          /\ requests'[r].before = requests[r].before
          /\ requests'[r].next = requests[r].next
          /\ requests'[r].op = requests[r].op
      BY <2>2, Moves DEF TypeOK, RequestRecords
    <3>2. Follows(legacy', requests'[r])
      BY <2>1, <2>2, <3>1
      DEF Projected, Row, Aims, Changing, Follows, TypeOK, RequestRecords
    <3>3. \A q \in Requests : requests'[q].pc \notin {"project", "compensate"}
      BY <2>1, <3>1 DEF Unborn
    <3>4. Undoable'
      BY <2>1, <3>1 DEF Undoable, Matches, Overlaps, Busy
    <3>5. QED
      BY <3>1, <3>2, <3>3, <3>4 DEF Agreed, Justified, Unborn, Writing
  <2>3. CASE Leave(r) /\ UNCHANGED legacy
    <3>1. requests'[r].pc = "idle" /\ ~requests'[r].alone
      BY <2>3, Moves DEF TypeOK, Idle
    <3>2. QED
      BY <2>1, <2>3, <3>1 DEF Agreed, Undoable, Justified, Unborn, Matches, Follows, Writing
  <2>4. QED
    BY <1>7, <2>2, <2>3 DEF WriteLegacy
<1>8. ASSUME NEW r \in Requests, WriteV2(r)
      PROVE  (Agreed /\ Undoable /\ Justified /\ Unborn)'
  <2>1. /\ requests[r].pc = "v2" /\ UNCHANGED legacy
        /\ \A q \in Requests \ {r} : requests'[q] = requests[q]
    BY <1>8, Moves DEF WriteV2, Acknowledge, TypeOK
  <2>2. ASSUME requests[r].alone
        PROVE  \A q \in Requests \ {r} : requests[q].pc = "idle"
    BY <2>1, <2>2 DEF Overlaps, Busy
  <2>3. CASE Current(requests[r]) /\ Acknowledge(r)
             /\ \E t : v2' = Applied(requests[r], t) /\ v2.version < t /\ t \in Nat
    <3>1. requests'[r].pc = "idle"
      BY <2>3, Moves DEF Acknowledge, TypeOK, Idle
    <3>2. Follows(legacy, requests[r]) => Matches(legacy)'
      BY <2>1, <2>3
      DEF Follows, Matches, Applied, Aims, Changing, TypeOK, RequestRecords
    <3>3. CASE requests[r].op = "update" /\ requests[r].alone
      <4>1. \A q \in Requests : requests'[q].pc = "idle"
        BY <2>1, <2>2, <3>1, <3>3
      <4>2. Matches(legacy)'
        BY <2>1, <3>2, <3>3 DEF LoneWrites
      <4>3. QED
        BY <4>1, <4>2 DEF Agreed, Undoable, Justified, Unborn
    <3>4. CASE ~(requests[r].op = "update" /\ requests[r].alone)
      <4>1. Justified /\ Unborn
        BY <2>3, <3>4 DEF Acknowledge, Sound
      <4>2. \A q \in Requests : requests'[q].pc \notin {"project", "compensate"}
        BY <2>1, <3>1, <4>1 DEF Unborn
      <4>3. Agreed'
        BY <2>1, <2>3, <3>2, <4>1 DEF Agreed, Justified, Current, Writing
      <4>4. Undoable'
        BY <2>1, <3>1 DEF Undoable, Overlaps, Busy
      <4>5. \A q \in Requests \ {r} : requests[q].pc = "v2" =>
                requests[q].loaded.version < v2'.version
        BY <2>3 DEF Applied, Loaded, Changing, TypeOK, RequestRecords, V2Rows
      <4>6. Justified'
        BY <2>1, <3>1, <4>5 DEF Justified, TypeOK, RequestRecords, V2Rows
      <4>7. QED
        BY <4>2, <4>3, <4>4, <4>6 DEF Unborn
    <3>5. QED
      BY <3>3, <3>4
  <2>4. CASE Goto(r, "restore") /\ UNCHANGED <<v2, known>> /\ (suspect => suspect')
    <3>1. Agreed /\ Undoable /\ Justified /\ Unborn
      BY <2>4 DEF Sound
    <3>2. /\ requests'[r].pc = "restore"
          /\ requests'[r].alone = requests[r].alone
          /\ requests'[r].before = requests[r].before
      BY <2>4, Moves DEF TypeOK, RequestRecords
    <3>3. \A q \in Requests : requests'[q].pc \notin {"project", "compensate"}
      BY <2>1, <3>1, <3>2 DEF Unborn
    <3>4. Undoable'
      BY <2>1, <2>4, <3>1, <3>2 DEF Undoable, Matches
    <3>5. Justified'
      BY <2>1, <2>4, <3>2 DEF Justified
    <3>6. QED
      BY <3>2, <3>3, <3>4, <3>5 DEF Agreed, Unborn, Writing
  <2>5. QED
    <3>1. PICK t :
            /\ t \in IF requests[r].op = "update" THEN Stamps(requests[r].loaded.version)
                                                  ELSE {requests[r].stamp}
            /\ \/ /\ Current(requests[r])
                  /\ v2' = Applied(requests[r], t)
                  /\ Acknowledge(r)
               \/ Goto(r, "restore") /\ UNCHANGED <<v2, known>> /\ (suspect => suspect')
      BY <1>8 DEF WriteV2
    <3>2. requests[r].loaded.version < t /\ t \in Nat
      BY <2>1, <3>1, MaxStampAssumption
      DEF Stamps, Loaded, Changing, TypeOK, RequestRecords, V2Rows
    <3>3. QED
      BY <2>3, <2>4, <3>1, <3>2 DEF Current
<1>9. ASSUME NEW r \in Requests, Restore(r)
      PROVE  (Agreed /\ Undoable /\ Justified /\ Unborn)'
  <2>1. /\ ~suspect /\ requests[r].alone /\ legacy' = requests[r].before
        /\ requests[r].pc = "restore" /\ UNCHANGED v2 /\ Leave(r)
    BY <1>9 DEF Restore, TypeOK
  <2>2. ~known
    BY <1>9 DEF Restore, TypeOK
  <2>3. Matches(legacy)'
    BY <2>1, <2>2 DEF Sound, Undoable, Matches
  <2>4. \A q \in Requests : requests'[q].pc = "idle"
    BY <2>1, Moves DEF Overlaps, Busy, TypeOK, Idle
  <2>5. QED
    BY <2>3, <2>4 DEF Agreed, Undoable, Justified, Unborn
<1>10. ASSUME NEW r \in Requests, Crash(r)
      PROVE  (Agreed /\ Undoable /\ Justified /\ Unborn)'
  <2>1. /\ Agreed /\ Undoable /\ Justified /\ Unborn
        /\ requests[r].pc \in {"snapshot", "legacy"} /\ UNCHANGED <<v2, legacy>>
        /\ \A q \in Requests \ {r} : requests'[q] = requests[q]
    BY <1>10, Moves DEF Crash, Sound, TypeOK
  <2>2. requests'[r].pc = "idle" /\ ~requests'[r].alone
    BY <1>10, Moves DEF Crash, TypeOK, Idle
  <2>3. QED
    BY <2>1, <2>2 DEF Agreed, Undoable, Justified, Unborn, Matches, Follows, Writing
<1>11. CASE UNCHANGED vars
  BY <1>11 DEF vars, Sound, Agreed, Undoable, Justified, Unborn, Matches, Follows, Writing
<1>12. QED
  BY <1>1, <1>2, <1>3, <1>4, <1>5, <1>6, <1>7, <1>8, <1>9, <1>10, <1>11 DEF Next

-----------------------------------------------------------------------------
(* The theorems *)

LEMMA Invariance == Spec => []Inv
<1>1. Init => Inv
  <2>1. Init => TypeOK
    <3>1. Init => /\ requests \in [Requests -> RequestRecords]
                  /\ v2 \in V2Rows /\ legacy \in Rows /\ published \in Rows
                  /\ now \in 0..MaxStamp
      BY RowTypes, MaxStampAssumption DEF Init
    <3>2. Init => known \in BOOLEAN /\ suspect \in BOOLEAN
      BY DEF Init
    <3>3. QED
      BY <3>1, <3>2 DEF TypeOK
  <2>2. Init => Aims /\ Loaded /\ NotYet /\ Overlaps /\ LoneWrites /\ Sound
    BY DEF Init, Aims, Loaded, NotYet, Overlaps, LoneWrites, Sound, Agreed, Undoable, Justified,
           Unborn, Matches, Idle, Busy, Quiet, Missing, MissingV2, Row, At, Changing, Writing
  <2>3. QED
    BY <2>1, <2>2 DEF Inv
<1>2. Inv /\ [Next]_vars => Inv'
  BY TypingStep, AimsStep, LoadedStep, NotYetStep, OverlapsStep, LoneWritesStep, SoundStep DEF Inv
<1>3. QED
  BY <1>1, <1>2, PTL DEF Spec

(* Every variable keeps its type.                                          *)
THEOREM Typing == Spec => []TypeOK
<1>1. Inv => TypeOK
  BY DEF Inv
<1>2. QED
  BY <1>1, Invariance, PTL

(* The compensations are complete, for any number of overlapping requests. *)
THEOREM CompensationIsComplete == Spec => []AgreeOrKnown
<1>1. Inv => AgreeOrKnown
  BY DEF Inv, Sound, Agreed, Matches, AgreeOrKnown, Agree, Quiet, Busy, At, Writing
<1>2. QED
  BY <1>1, Invariance, PTL

(* An accepted change is applied to the row its handler has loaded.        *)
THEOREM NoUpdateIsLost == Spec => NoLostUpdate
<1>1. ASSUME Inv, [Next]_vars, NEW r \in Requests,
             requests[r].pc = "v2", requests'[r].pc # "v2", v2' # v2
      PROVE  v2 = requests[r].loaded
  <2>1. CASE WriteV2(r)
    BY <1>1, <2>1 DEF WriteV2, Current, Inv, Loaded, At, Changing
  <2>2. CASE ~WriteV2(r)
    <3>1. ASSUME NEW q \in Requests, q # r,
                 CreateV2(q) \/ Compensate(q) \/ WriteV2(q)
          PROVE  requests'[r].pc = requests[r].pc
      BY <1>1, <3>1, Created, Moves
      DEF Compensate, WriteV2, Acknowledge, Inv, TypeOK, Undisturbed
    <3>2. ~CreateV2(r) /\ ~Compensate(r)
      BY <1>1 DEF CreateV2, Compensate, Busy
    <3>3. QED
      BY <1>1, <2>2, <3>1, <3>2
      DEF Next, AccountDeleted, CreateLegacy, Start, Snapshot, WriteLegacy, Restore, Crash, vars
  <2>3. QED
    BY <2>1, <2>2
<1>2. ASSUME Inv, [Next]_vars
      PROVE  [\A r \in Requests :
                 requests[r].pc = "v2" /\ requests'[r].pc # "v2" /\ v2' # v2
                     => v2 = requests[r].loaded]_vars
  BY <1>1, <1>2
<1>3. QED
  BY <1>2, Invariance, PTL DEF Spec, NoLostUpdate

(* What is published beside the row is the row.                            *)
THEOREM PublishedMatches == Spec => []PublishedIsStored
<1>1. Init => PublishedIsStored
  BY DEF Init, PublishedIsStored, Shared, Row, Missing, MissingV2
<1>2. ASSUME TypeOK, PublishedIsStored, [Next]_vars
      PROVE  PublishedIsStored'
  <2> USE DEF PublishedIsStored, Shared
  <2>1. CASE AccountDeleted
    BY <1>2, <2>1 DEF AccountDeleted
  <2>2. ASSUME NEW r \in Requests, CreateV2(r) PROVE PublishedIsStored'
    BY <1>2, <2>2 DEF CreateV2, Row
  <2>3. ASSUME NEW r \in Requests, Compensate(r) PROVE PublishedIsStored'
    BY <1>2, <2>3 DEF Compensate, SafeSide, Row, TypeOK, V2Rows
  <2>4. ASSUME NEW r \in Requests, WriteV2(r) PROVE PublishedIsStored'
    <3>1. requests[r].next = Row(requests[r].next.status, requests[r].next.look)
      BY <1>2 DEF TypeOK, RequestRecords, Rows, Row
    <3>2. PICK t : \/ v2' = Applied(requests[r], t) /\ published' = requests[r].next
                   \/ /\ published' = IF SideGuard(t) THEN requests[r].next ELSE published
                      /\ suspect' = (suspect \/ v2.version = t)
                      /\ UNCHANGED <<v2, known>>
                   \/ UNCHANGED <<v2, published, known, suspect>>
      BY <2>4 DEF WriteV2
    <3>3. CASE v2' = Applied(requests[r], t) /\ published' = requests[r].next
      BY <3>1, <3>3 DEF Applied, Row
    <3>4. CASE /\ published' = IF SideGuard(t) THEN requests[r].next ELSE published
               /\ suspect' = (suspect \/ v2.version = t)
               /\ UNCHANGED <<v2, known>>
      <4>1. CASE v2.version = t
        BY <3>4, <4>1
      <4>2. CASE v2.version # t
        BY <1>2, <3>4, <4>2 DEF SideGuard
      <4>3. QED
        BY <4>1, <4>2
    <3>5. CASE UNCHANGED <<v2, published, known, suspect>>
      BY <1>2, <3>5
    <3>6. QED
      BY <3>2, <3>3, <3>4, <3>5
  <2>5. ASSUME NEW r \in Requests,
               CreateLegacy(r) \/ Start(r) \/ Snapshot(r) \/ WriteLegacy(r) \/ Restore(r) \/ Crash(r)
        PROVE  PublishedIsStored'
    BY <1>2, <2>5 DEF CreateLegacy, Start, Snapshot, WriteLegacy, Restore, Crash, TypeOK
  <2>6. CASE UNCHANGED vars
    BY <1>2, <2>6 DEF vars
  <2>7. QED
    BY <1>2, <2>1, <2>2, <2>3, <2>4, <2>5, <2>6 DEF Next
<1>3. QED
  BY <1>1, <1>2, Typing, PTL DEF Spec
=============================================================================
