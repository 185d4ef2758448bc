---------------------------- MODULE Membership ----------------------------
(***************************************************************************)
(* Invitations and the deletion of accounts (routes/account-lifecycle.js), *)
(* and the management of members (routes/organization.js).                 *)
(***************************************************************************)
EXTENDS People

CONSTANTS
    MemberLimit,    \* active_member_limit
    InviteLimit     \* pending_invitation_limit

ASSUME LimitsAssumption ==
    /\ MemberLimit \in Nat \ {0} /\ InviteLimit \in Nat
    /\ \A first \in Beginnings, o \in Bases :
         Cardinality({u \in Founders : first.members[o][u].status = "active"}) <= MemberLimit

InvitationCalls ==
    [pc: {"invite"}, org: Orgs, email: Emails, role: Roles, at: 0..MaxNow]
    \cup [pc: {"reinvite", "joinNew"}, row: Ids, token: Nat, at: 0..MaxNow]
    \cup [pc: {"revoke"}, row: Ids]
    \cup [pc: {"join"}, row: Ids, token: Nat, user: Users, returns: BOOLEAN, at: 0..MaxNow]
MemberCalls ==
    [pc: {"member"}, org: Orgs, user: Users, from: MemberRows, role: Roles,
     status: {"active", "suspended", "removed"}]
    \cup [pc: {"owners", "workspace", "delete"}, user: Users, email: Addresses]

(* requireRoleAssignment and canManageMember.                              *)
Manages(actor, role) == actor = "owner" \/ (actor = "admin" /\ role = "teacher")

-----------------------------------------------------------------------------
(* handleInvitationCreate, -Resend and -Revoke *)

StartInvite(i) ==
    /\ Fresh(i)
    /\ \E o \in Orgs, u \in Users, e \in Emails, role \in Roles :
         /\ SignedIn(o, u)
         /\ Manages(members[o][u].role, role)
         /\ Begin(i, [pc |-> "invite", org |-> o, email |-> e, role |-> role, at |-> now])
    /\ UNCHANGED <<people, rows>>

(* The guard of the invitation statements: nobody waits for the address,   *)
(* and its user is not a member.                                           *)
Invitable(o, e, at) ==
    /\ Reserving(e, at) = {}
    /\ \A u \in Own(e) : members[o][u].status \in {"none", "removed"}

Invited(o) == {r \in Kept({"invitation"}) : rows[r].org = o}

(* The trigger counts after the older invitation is revoked, and a refusal *)
(* leaves that one alone.  The daily limit refuses as GiveUp does.         *)
Invite(i) ==
    LET call == calls[i]
        older == {r \in Unsettled({"invitation"}) \cap Invited(call.org) : rows[r].email = call.email}
        pending == {r \in Invited(call.org) \ older : Valid(r, call.at)}
    IN
    /\ call.pc = "invite"
    /\ rows' = IF Invitable(call.org, call.email, call.at) /\ Cardinality(pending) < InviteLimit
               THEN [Revoked(older) EXCEPT ![i] =
                       [kind |-> "invitation", state |-> "live", email |-> call.email,
                        until |-> call.at + 1, token |-> 1, org |-> call.org, role |-> call.role]]
               ELSE rows
    /\ End(i)
    /\ UNCHANGED people

StartReinvite(i) ==
    /\ Fresh(i)
    /\ \E r \in Kept({"invitation"}), u \in Users :
         /\ SignedIn(rows[r].org, u)
         /\ Valid(r, now)
         /\ Manages(members[rows[r].org][u].role, rows[r].role)
         /\ Begin(i, [pc |-> "reinvite", row |-> r, token |-> rows[r].token, at |-> now])
    /\ UNCHANGED <<people, rows>>

Reinvite(i) ==
    LET call == calls[i]  r == call.row IN
    /\ call.pc = "reinvite"
    /\ rows' = IF /\ Valid(r, call.at)
                  /\ rows[r].token = call.token
                  /\ Invitable(rows[r].org, rows[r].email, call.at)
               THEN [rows EXCEPT ![r].token = @ + 1, ![r].until = call.at + 1]
               ELSE rows
    /\ End(i)
    /\ UNCHANGED people

StartRevoke(i) ==
    /\ Fresh(i)
    /\ \E r \in Kept({"invitation"}), u \in Users :
         /\ SignedIn(rows[r].org, u)
         /\ Manages(members[rows[r].org][u].role, rows[r].role)
         /\ Begin(i, [pc |-> "revoke", row |-> r])
    /\ UNCHANGED <<people, rows>>

(* Mistake: a row deleted since it was read comes back as a revoked one. *)
RevocableGone == Ids

(* Mistake: an accepted invitation is revoked as well. *)
RevocableAccepted == Kept({"invitation"})

Revocable == Unsettled({"invitation"})

Revoke(i) ==
    /\ calls[i].pc = "revoke"
    /\ rows' = Revoked({calls[i].row} \cap Revocable)
    /\ End(i)
    /\ UNCHANGED people

-----------------------------------------------------------------------------
(* handleInvitationAccept *)

(* In both batches the claim names the acceptor before the membership is   *)
(* inserted, and the trigger of migration 0017 on accepted_user_id lets it *)
(* name only somebody with a row among the members, active or not.         *)
Nameable(o, u) == members[o][u].status # "none"

(* The link's row, as loadInvitationByToken accepts it.                    *)
Acceptable(r) == Valid(r, now) /\ orgs[rows[r].org] = "active"

(* A user who is signed in, in any organization, accepts.                  *)
StartJoin(i) ==
    /\ Fresh(i)
    /\ \E r \in Kept({"invitation"}), u \in Users :
         /\ Acceptable(r)
         /\ \E o \in Orgs : SignedIn(o, u)
         /\ users[u].email = rows[r].email
         /\ members[rows[r].org][u].status \in {"none", "removed"}
         /\ Begin(i, [pc |-> "join", row |-> r, token |-> rows[r].token, user |-> u, at |-> now,
                      returns |-> members[rows[r].org][u].status = "removed"])
    /\ UNCHANGED <<people, rows>>

(* Mistake: the claim asks for no more than the row's number. *)
ClaimsAnyLink(r, token, at) == rows[r].kind # "none"

(* The guard of the claim.                                                 *)
Claims(r, token, at) == Valid(r, at) /\ rows[r].token = token

(* Mistake: only new members are counted. *)
FullForNew(o, u) == members[o][u].status = "none" /\ Cardinality(Active(o)) >= MemberLimit

(* The triggers on the insertion and on the reactivation of a member.      *)
Full(o, u) == members[o][u].status # "active" /\ Cardinality(Active(o)) >= MemberLimit

Enter(o, u, role) ==
    members' = [members EXCEPT ![o][u] =
                  [status |-> "active", role |-> role, version |-> members[o][u].version + 1]]

(* A user whose row was removed has it activated, unless that was done     *)
(* since the read: the invitation is then spent on nothing.  For a user    *)
(* who was read without a row the batch inserts one, and always fails:     *)
(* by the trigger while there is none, by the primary key once there is.   *)
Join(i) ==
    LET call == calls[i]
        r == call.row
        o == rows[r].org
        u == call.user
        comesBack == members[o][u].status = "removed"
    IN
    /\ call.pc = "join"
    /\ IF /\ call.returns
          /\ Claims(r, call.token, call.at)
          /\ Nameable(o, u)
          /\ comesBack => ~Full(o, u)
       THEN /\ rows' = [rows EXCEPT ![r].state = "done"]
            /\ IF comesBack THEN Enter(o, u, rows[r].role) ELSE UNCHANGED members
       ELSE UNCHANGED <<members, rows>>
    /\ End(i)
    /\ UNCHANGED <<users, orgs>>

(* Somebody without an account accepts, and becomes user i.                *)
StartJoinNew(i) ==
    /\ Fresh(i)
    /\ \E r \in Kept({"invitation"}) :
         /\ Acceptable(r)
         /\ FreeToRegister(rows[r].email, now)
         /\ Begin(i, [pc |-> "joinNew", row |-> r, token |-> rows[r].token, at |-> now])
    /\ UNCHANGED <<people, rows>>

WaitingFor(e) == {r \in Unsettled({"registration"}) : rows[r].email = e}

(* The batch may insert the user: nobody has the address or has asked for  *)
(* it, the link is the last one, and there is room.                        *)
MayJoinNew(i) ==
    LET call == calls[i]  r == call.row IN
    /\ Claims(r, call.token, call.at)
    /\ FreeToRegister(rows[r].email, call.at)
    /\ ~Full(rows[r].org, i)

JoinNew(i) ==
    LET r == calls[i].row  e == rows[r].email IN
    /\ calls[i].pc = "joinNew"
    /\ IF MayJoinNew(i) /\ Nameable(rows[r].org, i)
       THEN /\ users' = [users EXCEPT ![i] = [status |-> "active", email |-> e]]
            /\ Enter(rows[r].org, i, rows[r].role)
            /\ rows' = [Revoked(WaitingFor(e)) EXCEPT ![r].state = "done"]
       ELSE UNCHANGED <<users, members, rows>>
    /\ End(i)
    /\ UNCHANGED orgs

-----------------------------------------------------------------------------
(* handleMemberUpdate and handleMemberDelete *)

StartMember(i) ==
    /\ Fresh(i)
    /\ \E o \in Orgs, u, v \in Users, role \in Roles, status \in {"active", "suspended", "removed"} :
         LET from == members[o][v] IN
         /\ SignedIn(o, u)
         /\ from.status \in {"active", "suspended"}
         /\ Manages(members[o][u].role, from.role)
         /\ Manages(members[o][u].role, role)
         /\ status = "removed" => role = from.role
         /\ <<role, status>> # <<from.role, from.status>>
         /\ Begin(i, [pc |-> "member", org |-> o, user |-> v, from |-> from,
                      role |-> role, status |-> status])
    /\ UNCHANGED <<people, rows>>

(* Mistake: the owners are not counted again in the batch. *)
LastOwnerUncounted(o, u) == FALSE

LastOwner(o, u) == Owners(o) = {u}

(* guardedMembershipUpdate.                                                *)
UpdateMember(i) ==
    LET call == calls[i]  o == call.org  u == call.user
        stays == call.role = "owner" /\ call.status = "active"
    IN
    /\ call.pc = "member"
    /\ members' =
         IF /\ members[o][u] = call.from
            /\ LastOwner(o, u) => stays
            /\ call.status = "active" => ~Full(o, u)
         THEN [members EXCEPT ![o][u] =
                 [status |-> call.status, role |-> call.role, version |-> @.version + 1]]
         ELSE members
    /\ End(i)
    /\ UNCHANGED <<users, orgs, rows>>

-----------------------------------------------------------------------------
(* handleAccountDelete *)

StartDelete(i) ==
    /\ Fresh(i)
    /\ \E o \in Orgs, u \in Users :
         /\ SignedIn(o, u)
         /\ Begin(i, [pc |-> "owners", user |-> u, email |-> users[u].email])
    /\ UNCHANGED <<people, rows>>

(* soleExternalOwner: the user alone owns an organization of others.       *)
CheckOwners(i) ==
    /\ calls[i].pc = "owners"
    /\ IF \E o \in Orgs \ {calls[i].user} : Owners(o) = {calls[i].user}
       THEN End(i) ELSE Goto(i, "workspace")
    /\ UNCHANGED <<people, rows>>

(* personalWorkspaceWithMembers: the user's own has other members.         *)
CheckWorkspace(i) ==
    LET u == calls[i].user IN
    /\ calls[i].pc = "workspace"
    /\ IF u \in Orgs /\ Active(u) \ {u} # {}
       THEN End(i) ELSE Goto(i, "delete")
    /\ UNCHANGED <<people, rows>>

Dropped(u, e) ==
    {r \in Unsettled({"registration"}) : rows[r].email = e}
    \cup {r \in Unsettled({"change", "enrollment"}) : rows[r].user = u}

Left(member) ==
    IF member.status \in {"active", "suspended"}
    THEN [member EXCEPT !.status = "removed", !.version = @ + 1] ELSE member

(* The batch repeats none of the two conditions.                           *)
Delete(i) ==
    LET u == calls[i].user IN
    /\ calls[i].pc = "delete"
    /\ rows' = Revoked(Dropped(u, calls[i].email))
    /\ orgs' = [o \in Orgs |-> IF o = u /\ orgs[o] # "none" THEN "deleted" ELSE orgs[o]]
    /\ members' = [o \in Orgs |-> [members[o] EXCEPT ![u] = Left(@)]]
    /\ users' = IF users[u].status = "active"
                THEN [users EXCEPT ![u] = [status |-> "deleted", email |-> NoEmail]]
                ELSE users
    /\ End(i)
=============================================================================
