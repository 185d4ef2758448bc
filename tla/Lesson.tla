------------------------------ MODULE Lesson ------------------------------
(***************************************************************************)
(* What the requests of one live session share: the session's row as far   *)
(* as the handlers read it, the clock, and the requests in flight.  The    *)
(* modules Comments and PdfPages extend it; Classroom composes them.       *)
(*                                                                         *)
(* A request has a number of its own.  The rows it may create (comment,    *)
(* binding, snapshot) are named by that number, as makeId names them by a  *)
(* fresh random identifier.                                                *)
(***************************************************************************)
EXTENDS Naturals, FiniteSets

CONSTANTS
    MaxRequests,    \* bound on the requests ever made
    MaxInFlight,    \* bound on the requests in flight at once
    MaxNow          \* bound on the clock, in units of five seconds

ASSUME BoundsAssumption ==
    MaxRequests \in Nat /\ MaxInFlight \in Nat /\ MaxNow \in Nat

VARIABLES
    session,    \* "open", "quiet" (posting_enabled = 0), "ended", or "old"
    pre,        \* session_moderation_settings.moderation_mode = 'pre'
    now,        \* the clock
    issued,     \* the number of requests made so far
    flying      \* the numbers of the requests in flight

lessonVars == <<session, pre, now, issued, flying>>

Ids == 1..MaxRequests
Sessions == {"open", "quiet", "ended"}

Open == session = "open"        \* status = 'active' AND posting_enabled = 1
Active == session \in {"open", "quiet"}  \* status = 'active' AND expires_at > now

LessonTypeOK ==
    /\ session \in Sessions \cup {"old"}
    /\ pre \in BOOLEAN
    /\ now \in 0..MaxNow
    /\ issued \in 0..MaxRequests
    /\ flying \subseteq Ids

LessonInit ==
    /\ session = "open"
    /\ pre \in BOOLEAN
    /\ now = 0
    /\ issued = 0
    /\ flying = {}

(* A request arrives, and a request is answered.                           *)
Begin(i) ==
    /\ issued < MaxRequests
    /\ Cardinality(flying) < MaxInFlight
    /\ i = issued + 1
    /\ issued' = i
    /\ flying' = flying \cup {i}
    /\ UNCHANGED <<session, pre, now>>

Finish(i) ==
    /\ flying' = flying \ {i}
    /\ UNCHANGED <<session, pre, now, issued>>

(* The teacher changes the settings or ends the session (module            *)
(* SessionProjection has the handlers); an ended session stays ended.      *)
ChangeSession ==
    /\ Active
    /\ \/ session' \in Sessions \ {session} /\ UNCHANGED pre
       \/ pre' = ~pre /\ UNCHANGED session
    /\ UNCHANGED <<now, issued, flying>>

(* Half a year passes after the end: what the session has left reaches the *)
(* end of its retention.  No request runs that long.                       *)
GrowOld ==
    /\ session = "ended"
    /\ flying = {}
    /\ session' = "old"
    /\ now' = MaxNow
    /\ UNCHANGED <<pre, issued, flying>>

(* The clock; it stands when no request is left to come and read it.       *)
Tick ==
    /\ issued < MaxRequests
    /\ now < MaxNow
    /\ now' = now + 1
    /\ UNCHANGED <<session, pre, issued, flying>>
=============================================================================
