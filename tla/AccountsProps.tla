--------------------------- MODULE AccountsProps ---------------------------
(***************************************************************************)
(* What the account handlers promise whatever the order of their batches,  *)
(* however old the time a handler compares with, and wherever a request is *)
(* given up.                                                               *)
(***************************************************************************)
EXTENDS Accounts

(* Every row has its shape, and a row is where its kind can be.            *)
TypeOK ==
    /\ users \in [Users -> UserRows]
    /\ orgs \in [Orgs -> OrgStates]
    /\ members \in [Orgs -> [Users -> MemberRows]]
    /\ rows \in [Ids -> {NoRow} \cup Registrations \cup Requests \cup Invitations]
    /\ calls \in [Ids -> {NoCall} \cup RegistrationCalls \cup RequestCalls
                                 \cup InvitationCalls \cup MemberCalls]
    /\ now \in 0..MaxNow
    /\ issued \in 0..MaxRequests

(* An address is one person's at a time, over four tables of which each    *)
(* has only an index of its own: whoever has it, has asked for it or waits *)
(* to register with it (the guards of the batches of email-auth.js and     *)
(* account-lifecycle.js, and what they revoke).                            *)
Holders(e) ==
    {<<"user", u>> : u \in Own(e)}
    \cup {<<"user", rows[r].user>> : r \in Reserving(e, now)}
    \cup {<<"registration", r>> : r \in Pending(e, now)}

EmailHeldOnce == \A e \in Emails : Cardinality(Holders(e)) <= 1

(* An organization never has more active members than its limit, whether   *)
(* they are invited, come back, or were suspended (the two triggers of     *)
(* migration 0009).                                                        *)
MembersWithinLimit == \A o \in Orgs : Cardinality(Active(o)) <= MemberLimit

(* A link works once: what is verified, confirmed, accepted or revoked     *)
(* stays so, though a second acceptance, a resend and a revocation may     *)
(* have read it while it was live (the claims of the batches).             *)
LinksWorkOnce ==
    [][\A r \in Ids : rows[r].state \in {"done", "revoked"} => rows'[r] \in {rows[r], NoRow}]_vars

(* Nobody becomes a member but by registering an organization or by        *)
(* accepting, with its last link, an invitation to it, and then with the   *)
(* invitation's role; an accepted invitation is spent by the same step     *)
(* (acceptInvitationForExistingUser, acceptInvitationForNewUser).          *)
JoinsByInvitation ==
    [][\A o \in Orgs, u \in Users :
         members[o][u].status \in {"none", "removed"} /\ members'[o][u].status = "active" =>
            \/ o = u /\ orgs[o] = "none"
            \/ \E r \in Ids, i \in Ids :
                 /\ rows[r].state = "live" /\ rows'[r].state = "done"
                 /\ rows[r].kind = "invitation" /\ rows[r].org = o
                 /\ rows[r].role = members'[o][u].role
                 /\ calls[i].pc \in {"join", "joinNew"} /\ calls[i].row = r
                 /\ calls[i].token = rows[r].token]_vars

(* The managers never leave an organization without an active owner, even  *)
(* when two of them demote, suspend or remove each other at once: only the *)
(* deletion of an account can (guardedMembershipUpdate).                   *)
ManagersKeepAnOwner ==
    [][\A o \in Orgs : Owners(o) # {} /\ Owners(o)' = {} =>
         \E i \in Ids : calls[i].pc = "delete" /\ calls'[i].pc = "none"]_vars

(* scripts/test-account-lifecycle-v2.mjs:653 says that an accepted         *)
(* invitation creates an active membership: when the conditions of the     *)
(* batch hold, the new user enters with the invitation's role              *)
(* (acceptInvitationForNewUser).                                           *)
AcceptedInvitationMakesMember ==
    [][\A i \in Ids :
         JoinNew(i) /\ MayJoinNew(i) =>
            LET r == calls[i].row IN
            /\ members'[rows[r].org][i].status = "active"
            /\ members'[rows[r].org][i].role = rows[r].role]_vars
=============================================================================
