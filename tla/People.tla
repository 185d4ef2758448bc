------------------------------ MODULE People ------------------------------
(***************************************************************************)
(* The tables the account handlers share: users, organizations, members,   *)
(* and the rows behind the mailed links (registrations, requests for an    *)
(* address, invitations).  Registration extends it with the handlers of    *)
(* routes/email-auth.js and of the change of an address, Membership with   *)
(* those of invitations and members; Accounts composes them.               *)
(*                                                                         *)
(* Every handler reads, then writes one guarded batch.  A batch is one     *)
(* step.  The reads whose conditions the batch repeats are one step with   *)
(* the handler's start; a read the batch does not repeat is a step of its  *)
(* own.  The handler reads the clock at its start, and its batch compares  *)
(* with that time.                                                         *)
(*                                                                         *)
(* What request i creates has the number i: a row, a user, the user's own  *)
(* organization.  So user i is the creator of the self_signup organization *)
(* i.  No code stores an address that is not verified: a user has a        *)
(* verified address or none.                                               *)
(***************************************************************************)
EXTENDS Naturals, FiniteSets

CONSTANTS
    Founders,       \* the first users
    Bases,          \* their organizations; bootstrapped, not self_signup
    Beginnings,     \* the addresses and the memberships the founders may begin with
    Emails,
    NoEmail,        \* users.email IS NULL, or the name of a deleted user
    MaxRequests,    \* bound on the requests ever made
    MaxInFlight,    \* bound on the requests in flight at once
    MaxNow          \* bound on the clock; a link lives for one unit of it

ASSUME PeopleAssumption ==
    /\ MaxRequests \in Nat /\ MaxInFlight \in Nat /\ MaxNow \in Nat
    /\ IsFiniteSet(Founders)
    /\ NoEmail \notin Emails
    /\ Founders \cap (1..MaxRequests) = {}
    /\ Bases \cap (Founders \cup (1..MaxRequests)) = {}

VARIABLES
    users,      \* per user, status and e-mail
    orgs,       \* per organization, its status
    members,    \* per organization and user, the row of organization_members
    rows,       \* per number, the registration, request or invitation
    calls,      \* per request, where its handler stands
    now,
    issued      \* the number of requests made so far

people == <<users, orgs, members>>
vars == <<users, orgs, members, rows, calls, now, issued>>

-----------------------------------------------------------------------------
(* Rows *)

Ids == 1..MaxRequests
Users == Founders \cup Ids
Orgs == Bases \cup Ids
Roles == {"owner", "admin", "teacher"}
Addresses == Emails \cup {NoEmail}

UserRows == [status: {"none", "active", "deleted"}, email: Addresses]
NoUser == [status |-> "none", email |-> NoEmail]
OrgStates == {"none", "active", "deleted"}

(* version stands for updated_at, which every write of the row replaces.   *)
MemberRows ==
    [status: {"none", "active", "suspended", "removed"}, role: Roles, version: Nat]
NoMember == [status |-> "none", role |-> "teacher", version |-> 0]

(* A row is "done" once verified, confirmed or accepted.  token counts the *)
(* links sent: a link is found by its hash, and only the last hash is kept.*)
States == {"live", "done", "revoked"}
Until == 1..MaxNow + 1
Registrations ==
    [kind: {"registration"}, state: States, email: Emails, until: Until, token: Nat]
Requests ==
    [kind: {"change", "enrollment"}, state: States, email: Emails, until: Until,
     token: Nat, user: Users, old: Addresses]
Invitations ==
    [kind: {"invitation"}, state: States, email: Emails, until: Until, token: Nat,
     org: Orgs, role: Roles]
NoRow == [kind |-> "none", state |-> "none"]

(* No two founders have one address, and every first organization has an   *)
(* active owner.                                                           *)
ASSUME BeginningsAssumption ==
    \A first \in Beginnings :
        /\ first \in [email: [Founders -> Addresses], members: [Bases -> [Founders -> MemberRows]]]
        /\ \A u, v \in Founders :
             first.email[u] = first.email[v] => u = v \/ first.email[u] = NoEmail
        /\ \A o \in Bases : \E u \in Founders :
             first.members[o][u].status = "active" /\ first.members[o][u].role = "owner"

(* The rows of these kinds, and those of them that are live.               *)
Kept(kinds) == {r \in Ids : rows[r].kind \in kinds}
Unsettled(kinds) == {r \in Kept(kinds) : rows[r].state = "live"}
Valid(r, at) == rows[r].state = "live" /\ rows[r].until > at

(* rows with the rows of a set revoked.                                    *)
Revoked(gone) == [r \in Ids |-> IF r \in gone THEN [rows[r] EXCEPT !.state = "revoked"] ELSE rows[r]]

-----------------------------------------------------------------------------
(* Who has an address, or has it reserved *)

Own(e) == {u \in Users : users[u].email = e}
Pending(e, at) == {r \in Kept({"registration"}) : rows[r].email = e /\ Valid(r, at)}
Reserving(e, at) == {r \in Kept({"change", "enrollment"}) : rows[r].email = e /\ Valid(r, at)}

(* registrationEmailUnavailable and emailUnavailable.                      *)
FreeToRegister(e, at) == Own(e) = {} /\ Reserving(e, at) = {}
FreeFor(u, e, at) ==
    /\ Own(e) \subseteq {u}
    /\ Pending(e, at) = {}
    /\ \A r \in Reserving(e, at) : rows[r].user = u

(* The active owners, and the active members, of an organization.          *)
Owners(o) == {u \in Users : members[o][u].status = "active" /\ members[o][u].role = "owner"}
Active(o) == {u \in Users : members[o][u].status = "active"}

(* A session is good while the user, the membership and the organization   *)
(* are active.                                                             *)
SignedIn(o, u) == orgs[o] = "active" /\ users[u].status = "active" /\ u \in Active(o)

-----------------------------------------------------------------------------
(* Requests *)

NoCall == [pc |-> "none"]
Flying == {i \in Ids : calls[i].pc # "none"}

Fresh(i) == i = issued + 1 /\ Cardinality(Flying) < MaxInFlight

Begin(i, call) ==
    /\ issued' = i
    /\ calls' = [calls EXCEPT ![i] = call]
    /\ UNCHANGED now

Goto(i, pc) == calls' = [calls EXCEPT ![i].pc = pc] /\ UNCHANGED <<now, issued>>
End(i) == calls' = [calls EXCEPT ![i] = NoCall] /\ UNCHANGED <<now, issued>>

(* A request is refused by a limit of its rate, or by a read whose         *)
(* condition the batch repeats, or its connection or the worker fails.     *)
GiveUp(i) ==
    /\ i \in Flying
    /\ End(i)
    /\ UNCHANGED <<people, rows>>

Tick ==
    /\ now < MaxNow
    /\ now' = now + 1
    /\ UNCHANGED <<people, rows, calls, issued>>

(* pruneAuthSecurityRecords deletes the expired rows, and the settled ones *)
(* after seven days.                                                       *)
Prune(r) ==
    /\ rows[r].kind # "none"
    /\ \/ rows[r].until <= now
       \/ rows[r].state # "live"
    /\ rows' = [rows EXCEPT ![r] = NoRow]
    /\ UNCHANGED <<people, calls, now, issued>>

PeopleInit ==
    /\ \E first \in Beginnings :
         /\ users = [u \in Users |->
                       IF u \in Founders THEN [status |-> "active", email |-> first.email[u]]
                       ELSE NoUser]
         /\ members = [o \in Orgs |-> [u \in Users |->
                         IF o \in Bases /\ u \in Founders THEN first.members[o][u]
                         ELSE NoMember]]
    /\ orgs = [o \in Orgs |-> IF o \in Bases THEN "active" ELSE "none"]
    /\ rows = [r \in Ids |-> NoRow]
    /\ calls = [i \in Ids |-> NoCall]
    /\ now = 0
    /\ issued = 0
=============================================================================
