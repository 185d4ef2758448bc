----------------------------- MODULE Accounts -----------------------------
(***************************************************************************)
(* The account handlers together: module Registration has those of the     *)
(* addresses, module Membership those of the organizations.                *)
(***************************************************************************)
EXTENDS Registration, Membership

Init == PeopleInit

Addressing(i) ==
    \/ StartRegister(i) \/ CheckRegister(i) \/ WithdrawRegistration(i) \/ InsertRegistration(i)
    \/ StartResend(i) \/ CheckResend(i) \/ DropRegistration(i) \/ RenewRegistration(i)
    \/ StartVerify(i) \/ Verify(i)
    \/ StartRequest(i) \/ ReleaseExpired(i) \/ Request(i)
    \/ StartConfirm(i) \/ Confirm(i)

Inviting(i) ==
    \/ StartInvite(i) \/ Invite(i) \/ StartReinvite(i) \/ Reinvite(i) \/ StartRevoke(i) \/ Revoke(i)
    \/ StartJoin(i) \/ Join(i) \/ StartJoinNew(i) \/ JoinNew(i)

Managing(i) ==
    \/ StartMember(i) \/ UpdateMember(i)
    \/ StartDelete(i) \/ CheckOwners(i) \/ CheckWorkspace(i) \/ Delete(i)

Next ==
    \/ \E i \in Ids : Addressing(i) \/ Inviting(i) \/ Managing(i) \/ GiveUp(i) \/ Prune(i)
    \/ Tick

Spec == Init /\ [][Next]_vars
=============================================================================
