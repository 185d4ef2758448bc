--------------------------- MODULE Registration ---------------------------
(***************************************************************************)
(* Registration by e-mail (routes/email-auth.js), and the change and       *)
(* enrollment of a user's address (routes/account-lifecycle.js).           *)
(***************************************************************************)
EXTENDS People

RegistrationCalls ==
    [pc: {"register", "withdraw", "insert"}, email: Emails, at: 0..MaxNow]
    \cup [pc: {"resend", "drop", "renew"}, row: Ids, at: 0..MaxNow]
    \cup [pc: {"verify"}, row: Ids, token: Nat, at: 0..MaxNow]
RequestCalls ==
    [pc: {"release", "request"}, kind: {"change", "enrollment"}, user: Users,
     old: Addresses, email: Emails, at: 0..MaxNow]
    \cup [pc: {"confirm"}, row: Ids, at: 0..MaxNow]

-----------------------------------------------------------------------------
(* handleRegistrationRequest *)

StartRegister(i) ==
    /\ Fresh(i)
    /\ \E e \in Emails : Begin(i, [pc |-> "register", email |-> e, at |-> now])
    /\ UNCHANGED <<people, rows>>

CheckRegister(i) ==
    LET call == calls[i] IN
    /\ call.pc = "register"
    /\ IF Own(call.email) # {} THEN Goto(i, "withdraw")
       ELSE IF Pending(call.email, call.at) # {} \/ Reserving(call.email, call.at) # {}
            THEN End(i)
            ELSE Goto(i, "insert")
    /\ UNCHANGED <<people, rows>>

(* The address has a user: its pending registration is revoked.            *)
WithdrawRegistration(i) ==
    /\ calls[i].pc = "withdraw"
    /\ rows' = Revoked({r \in Unsettled({"registration"}) : rows[r].email = calls[i].email})
    /\ End(i)
    /\ UNCHANGED people

(* Mistake: an address another user has asked for can be registered. *)
RegistrableReserved(e, at) == Own(e) = {} /\ Pending(e, at) = {}

(* The guard of the INSERT.                                                *)
Registrable(e, at) == FreeToRegister(e, at) /\ Pending(e, at) = {}

(* The batch first revokes what has expired for the address.               *)
Expired(kinds, e, at) == {r \in Unsettled(kinds) : rows[r].email = e /\ rows[r].until <= at}

InsertRegistration(i) ==
    LET call == calls[i]
        released == Revoked(Expired({"registration", "change", "enrollment"}, call.email, call.at))
    IN
    /\ call.pc = "insert"
    /\ rows' = IF Registrable(call.email, call.at)
               THEN [released EXCEPT ![i] =
                       [kind |-> "registration", state |-> "live", email |-> call.email,
                        until |-> call.at + 1, token |-> 1]]
               ELSE released
    /\ End(i)
    /\ UNCHANGED people

-----------------------------------------------------------------------------
(* handleRegistrationResend *)

StartResend(i) ==
    /\ Fresh(i)
    /\ \E r \in Kept({"registration"}) :
         /\ Valid(r, now)
         /\ Begin(i, [pc |-> "resend", row |-> r, at |-> now])
    /\ UNCHANGED <<people, rows>>

CheckResend(i) ==
    /\ calls[i].pc = "resend"
    /\ IF rows[calls[i].row].kind = "none" THEN Goto(i, "renew")
       ELSE Goto(i, IF FreeToRegister(rows[calls[i].row].email, calls[i].at)
                    THEN "renew" ELSE "drop")
    /\ UNCHANGED <<people, rows>>

DropRegistration(i) ==
    /\ calls[i].pc = "drop"
    /\ rows' = Revoked({calls[i].row} \cap Unsettled({"registration"}))
    /\ End(i)
    /\ UNCHANGED people

(* The lifetime is not renewed, only the link.                             *)
RenewRegistration(i) ==
    LET r == calls[i].row IN
    /\ calls[i].pc = "renew"
    /\ rows' = IF Valid(r, calls[i].at) /\ FreeToRegister(rows[r].email, calls[i].at)
               THEN [rows EXCEPT ![r].token = @ + 1]
               ELSE rows
    /\ End(i)
    /\ UNCHANGED people

-----------------------------------------------------------------------------
(* handleRegistrationVerify *)

StartVerify(i) ==
    /\ Fresh(i)
    /\ \E r \in Kept({"registration"}) :
         /\ Valid(r, now)
         /\ Own(rows[r].email) = {}
         /\ Begin(i, [pc |-> "verify", row |-> r, token |-> rows[r].token, at |-> now])
    /\ UNCHANGED <<people, rows>>

(* The guard of the claim; everything else in the batch depends on it.     *)
Verifiable(r, token, at) ==
    Valid(r, at) /\ rows[r].token = token /\ FreeToRegister(rows[r].email, at)

Verify(i) ==
    LET call == calls[i] IN
    /\ call.pc = "verify"
    /\ IF Verifiable(call.row, call.token, call.at)
       THEN /\ rows' = [rows EXCEPT ![call.row].state = "done"]
            /\ users' = [users EXCEPT ![i] =
                           [status |-> "active", email |-> rows[call.row].email]]
            /\ orgs' = [orgs EXCEPT ![i] = "active"]
            /\ members' = [members EXCEPT ![i][i] =
                             [status |-> "active", role |-> "owner", version |-> 0]]
       ELSE UNCHANGED <<people, rows>>
    /\ End(i)

-----------------------------------------------------------------------------
(* handleEmailChangeRequest *)

StartRequest(i) ==
    /\ Fresh(i)
    /\ \E o \in Orgs, u \in Users, e \in Emails :
         /\ SignedIn(o, u)
         /\ users[u].email # e
         /\ Begin(i, [pc |-> "release", user |-> u, old |-> users[u].email, email |-> e,
                      kind |-> IF users[u].email = NoEmail THEN "enrollment" ELSE "change",
                      at |-> now])
    /\ UNCHANGED <<people, rows>>

(* releaseExpiredEmailReservations.                                        *)
ReleaseExpired(i) ==
    /\ calls[i].pc = "release"
    /\ rows' = Revoked(Expired({"change", "enrollment"}, calls[i].email, calls[i].at))
    /\ Goto(i, "request")
    /\ UNCHANGED people

(* Mistake: a pending registration does not keep the address. *)
RequestableWhilePending(u, e, at) ==
    Own(e) \subseteq {u} /\ \A r \in Reserving(e, at) : rows[r].user = u

(* The guard of all the statements of the batch.                           *)
Requestable(u, e, at) == FreeFor(u, e, at)

(* idx_email_change_requests_active_email and its twin for enrollments     *)
(* know no clock: another user's row that expired since the release makes  *)
(* the batch fail.                                                         *)
Clash(call) ==
    \E r \in Unsettled({call.kind}) : rows[r].email = call.email /\ rows[r].user # call.user

Request(i) ==
    LET call == calls[i]
        earlier == {r \in Unsettled({"change", "enrollment"}) : rows[r].user = call.user}
    IN
    /\ call.pc = "request"
    /\ rows' = IF Requestable(call.user, call.email, call.at) /\ ~Clash(call)
               THEN [Revoked(earlier) EXCEPT ![i] =
                       [kind |-> call.kind, state |-> "live", email |-> call.email,
                        until |-> call.at + 1, token |-> 1, user |-> call.user, old |-> call.old]]
               ELSE rows
    /\ End(i)
    /\ UNCHANGED people

-----------------------------------------------------------------------------
(* handleEmailChangeConfirm *)

StartConfirm(i) ==
    /\ Fresh(i)
    /\ \E r \in Kept({"change", "enrollment"}) :
         /\ Valid(r, now)
         /\ users[rows[r].user].status = "active"
         /\ users[rows[r].user].email = rows[r].old
         /\ FreeFor(rows[r].user, rows[r].email, now)
         /\ Begin(i, [pc |-> "confirm", row |-> r, at |-> now])
    /\ UNCHANGED <<people, rows>>

(* What the batch revokes with its claim: the user's request of the other  *)
(* kind, and the registrations that wait for the old or the new address.   *)
SettledWith(r) ==
    {s \in Unsettled({"change", "enrollment"} \ {rows[r].kind}) : rows[s].user = rows[r].user}
    \cup {s \in Unsettled({"registration"}) : rows[s].email \in {rows[r].email, rows[r].old}}

(* A user of the address makes the batch fail (idx_users_email_unique).    *)
Confirm(i) ==
    LET r == calls[i].row
        u == rows[r].user
        moves == users[u].status = "active"
    IN
    /\ calls[i].pc = "confirm"
    /\ IF Valid(r, calls[i].at) /\ (moves => Own(rows[r].email) \subseteq {u})
       THEN /\ rows' = [Revoked(SettledWith(r)) EXCEPT ![r].state = "done"]
            /\ users' = IF moves THEN [users EXCEPT ![u].email = rows[r].email] ELSE users
       ELSE UNCHANGED <<rows, users>>
    /\ End(i)
    /\ UNCHANGED <<orgs, members>>
=============================================================================
