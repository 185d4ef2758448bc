--------------------------- MODULE AccountsProofs ---------------------------
(***************************************************************************)
(* Proofs of the properties of AccountsProps, for any founders, addresses, *)
(* beginnings and limits, and any number of requests.                      *)
(***************************************************************************)
EXTENDS AccountsProps, FiniteSetTheorems, TLAPS

-----------------------------------------------------------------------------
(* The inductive invariant *)

InFlight(i) == calls[i].pc # "none"

(* What request i creates appears with the end of the request.             *)
NothingYet ==
    \A i \in Ids : i > issued \/ InFlight(i) =>
        /\ rows[i] = NoRow
        /\ users[i] = NoUser
        /\ orgs[i] = "none"
        /\ \A o \in Orgs : members[o][i].status = "none"

NoCallYet == \A i \in Ids : i > issued => calls[i] = NoCall

(* A request that has read a row finds that row again, or none.            *)
Finds(r, kinds) ==
    /\ r <= issued
    /\ ~InFlight(r)
    /\ rows[r].kind \in kinds \cup {"none"}

Pointers ==
    \A i \in Ids :
        /\ calls[i].pc \in {"resend", "drop", "renew", "verify"} => Finds(calls[i].row, {"registration"})
        /\ calls[i].pc = "confirm" => Finds(calls[i].row, {"change", "enrollment"})
        /\ calls[i].pc \in {"reinvite", "revoke", "join", "joinNew"}
              => Finds(calls[i].row, {"invitation"})

(* An organization without a row has no members and invites nobody.        *)
Hosts ==
    /\ \A o \in Orgs, u \in Users : members[o][u].status # "none" => orgs[o] # "none"
    /\ \A r \in Ids : rows[r].kind = "invitation" => orgs[rows[r].org] # "none"
    /\ \A i \in Ids : calls[i].pc = "invite" => orgs[calls[i].org] # "none"

(* A change of a member starts from an active or a suspended one.          *)
Standing ==
    \A i \in Ids : calls[i].pc = "member" => calls[i].from.status \in {"active", "suspended"}

(* A request compares with a time that has been.                           *)
Timed == {"register", "withdraw", "insert", "resend", "drop", "renew", "verify", "release",
          "request", "confirm", "invite", "reinvite", "joinNew", "join"}
Clocks == \A i \in Ids : calls[i].pc \in Timed => calls[i].at <= now

(* One registration at most waits for an address, expired or not.          *)
OneWaits ==
    \A r, s \in Unsettled({"registration"}) : rows[r].email = rows[s].email => r = s

(* A confirmation that may still succeed is not overtaken: whoever has     *)
(* released the expired requests for the address since has met this one.   *)
Released ==
    \A i, j \in Ids :
        /\ calls[i].pc = "confirm" /\ Valid(calls[i].row, calls[i].at)
        /\ calls[j].pc = "request" /\ calls[j].email = rows[calls[i].row].email
        => rows[calls[i].row].until > calls[j].at

Confirmable ==
    \A i \in Ids :
        calls[i].pc = "confirm" /\ Valid(calls[i].row, calls[i].at) =>
            \A s \in Reserving(rows[calls[i].row].email, now) :
                rows[s].user = rows[calls[i].row].user

HeldOnce == \A e \in Emails : \A x, y \in Holders(e) : x = y

Shape == TypeOK /\ NothingYet /\ NoCallYet /\ Pointers /\ Hosts /\ Standing
Inv ==
    Shape /\ Clocks /\ OneWaits /\ Released /\ Confirmable /\ HeldOnce /\ MembersWithinLimit

-----------------------------------------------------------------------------
(* The fields of a call and of a row follow from its pc and its kind.      *)

LEMMA CallFields ==
    ASSUME TypeOK, NEW i \in Ids
    PROVE  /\ calls[i].pc \in Timed => calls[i].at \in 0..MaxNow
           /\ calls[i].pc \in {"register", "withdraw", "insert", "release", "request", "invite"}
                 => calls[i].email \in Emails
           /\ calls[i].pc \in {"resend", "drop", "renew", "verify", "confirm", "reinvite",
                               "joinNew", "revoke", "join"} => calls[i].row \in Ids
           /\ calls[i].pc \in {"release", "request"} =>
                 /\ calls[i].kind \in {"change", "enrollment"}
                 /\ calls[i].user \in Users /\ calls[i].old \in Addresses
           /\ calls[i].pc \in {"invite", "member"} =>
                 calls[i].org \in Orgs /\ calls[i].role \in Roles
           /\ calls[i].pc \in {"join", "member", "owners", "workspace", "delete"} =>
                 calls[i].user \in Users
           /\ calls[i].pc = "join" => calls[i].returns \in BOOLEAN
           /\ calls[i].pc = "member" =>
                 calls[i].status \in {"active", "suspended", "removed"}
<1>1. calls[i] \in {NoCall} \cup RegistrationCalls \cup RequestCalls
                    \cup InvitationCalls \cup MemberCalls
  BY DEF TypeOK
<1>2. CASE calls[i] = NoCall
  BY <1>2 DEF NoCall, Timed
<1>3. CASE calls[i] \in RegistrationCalls
  BY <1>3 DEF RegistrationCalls, Timed
<1>4. CASE calls[i] \in RequestCalls
  BY <1>4 DEF RequestCalls, Timed
<1>5. CASE calls[i] \in InvitationCalls
  BY <1>5 DEF InvitationCalls, Timed
<1>6. CASE calls[i] \in MemberCalls
  BY <1>6 DEF MemberCalls, Timed
<1>7. QED
  BY <1>1, <1>2, <1>3, <1>4, <1>5, <1>6

LEMMA RowFields ==
    ASSUME TypeOK, NEW r \in Ids
    PROVE  /\ rows[r].kind \in {"none", "registration", "change", "enrollment", "invitation"}
           /\ rows[r].kind = "none" => rows[r] = NoRow
           /\ rows[r].state = "live" => rows[r].kind # "none"
           /\ rows[r].kind = "registration" => rows[r] \in Registrations
           /\ rows[r].kind \in {"change", "enrollment"} => rows[r] \in Requests
           /\ rows[r].kind = "invitation" => rows[r] \in Invitations
           /\ rows[r].kind # "none" =>
                 rows[r].email \in Emails /\ rows[r].until \in Until /\ rows[r].state \in States
<1>1. rows[r] \in {NoRow} \cup Registrations \cup Requests \cup Invitations
  BY DEF TypeOK
<1>2. CASE rows[r] = NoRow
  BY <1>2 DEF NoRow
<1>3. CASE rows[r] \in Registrations
  BY <1>3 DEF Registrations
<1>4. CASE rows[r] \in Requests
  BY <1>4 DEF Requests
<1>5. CASE rows[r] \in Invitations
  BY <1>5 DEF Invitations
<1>6. QED
  BY <1>1, <1>2, <1>3, <1>4, <1>5

-----------------------------------------------------------------------------
(* How rows, users and calls change *)

AllRows == {NoRow} \cup Registrations \cup Requests \cup Invitations
AllCalls ==
    {NoCall} \cup RegistrationCalls \cup RequestCalls \cup InvitationCalls \cup MemberCalls

(* A row stays, is deleted or settled, gets another link, or (an           *)
(* invitation) also another lifetime.                                      *)
Weaker(r) ==
    \/ rows'[r] \in {rows[r], NoRow}
    \/ /\ rows[r].state = "live"
       /\ \/ \E st \in {"done", "revoked"} : rows'[r] = [rows[r] EXCEPT !.state = st]
          \/ rows'[r] = [rows[r] EXCEPT !.token = @ + 1]
          \/ /\ rows[r].kind = "invitation"
             /\ \E at \in 0..MaxNow :
                   rows'[r] = [rows[r] EXCEPT !.token = @ + 1, !.until = at + 1]

(* What a link's row says once it is settled stays.                        *)
Lasting == \A r \in Ids : rows[r].state \in {"done", "revoked"} => rows'[r] \in {rows[r], NoRow}

LEMMA WeakerMeans ==
    ASSUME TypeOK, NEW r \in Ids, Weaker(r)
    PROVE  /\ rows'[r] \in AllRows
           /\ rows'[r].kind \in {rows[r].kind, "none"}
           /\ rows[r] = NoRow => rows'[r] = NoRow
           /\ rows'[r].kind # "none" => rows'[r].email = rows[r].email
           /\ rows'[r].kind = "invitation" => rows'[r].org = rows[r].org
           /\ rows'[r].kind \in {"change", "enrollment"} => rows'[r].user = rows[r].user
           /\ rows'[r].state = "live" =>
                 /\ rows[r].state = "live" /\ rows'[r].kind = rows[r].kind
                 /\ rows[r].kind # "invitation" => rows'[r].until = rows[r].until
           /\ rows[r].state \in {"done", "revoked"} => rows'[r] \in {rows[r], NoRow}
<1> USE DEF AllRows
<1>1. CASE rows'[r] = NoRow
  BY <1>1, RowFields DEF NoRow
<1>2. CASE rows'[r] = rows[r]
  BY <1>2, RowFields DEF TypeOK, NoRow
<1>3. ASSUME rows'[r] \notin {rows[r], NoRow}, rows[r] \in Registrations
      PROVE  /\ rows'[r] \in Registrations
             /\ rows[r].state = "live" /\ rows'[r].kind = rows[r].kind
             /\ rows'[r].email = rows[r].email /\ rows'[r].until = rows[r].until
  <2>1. CASE \E st \in {"done", "revoked"} : rows'[r] = [rows[r] EXCEPT !.state = st]
    BY <1>3, <2>1 DEF Weaker, Registrations, States
  <2>2. CASE rows'[r] = [rows[r] EXCEPT !.token = @ + 1]
    BY <1>3, <2>2 DEF Weaker, Registrations
  <2>3. QED
    BY <1>3, <2>1, <2>2 DEF Weaker, Registrations
<1>4. ASSUME rows'[r] \notin {rows[r], NoRow}, rows[r] \in Requests
      PROVE  /\ rows'[r] \in Requests
             /\ rows[r].state = "live" /\ rows'[r].kind = rows[r].kind
             /\ rows'[r].email = rows[r].email /\ rows'[r].until = rows[r].until
             /\ rows'[r].user = rows[r].user
  <2>1. CASE \E st \in {"done", "revoked"} : rows'[r] = [rows[r] EXCEPT !.state = st]
    BY <1>4, <2>1 DEF Weaker, Requests, States
  <2>2. CASE rows'[r] = [rows[r] EXCEPT !.token = @ + 1]
    BY <1>4, <2>2 DEF Weaker, Requests
  <2>3. QED
    BY <1>4, <2>1, <2>2 DEF Weaker, Requests
<1>5. ASSUME rows'[r] \notin {rows[r], NoRow}, rows[r] \in Invitations
      PROVE  /\ rows'[r] \in Invitations
             /\ rows[r].state = "live" /\ rows'[r].kind = rows[r].kind
             /\ rows'[r].email = rows[r].email /\ rows'[r].org = rows[r].org
  <2>1. CASE \E st \in {"done", "revoked"} : rows'[r] = [rows[r] EXCEPT !.state = st]
    BY <1>5, <2>1 DEF Weaker, Invitations, States
  <2>2. CASE rows'[r] = [rows[r] EXCEPT !.token = @ + 1]
    BY <1>5, <2>2 DEF Weaker, Invitations
  <2>3. CASE \E at \in 0..MaxNow : rows'[r] = [rows[r] EXCEPT !.token = @ + 1, !.until = at + 1]
    <3>1. PICK at \in 0..MaxNow : rows'[r] = [rows[r] EXCEPT !.token = @ + 1, !.until = at + 1]
      BY <2>3
    <3>2. at + 1 \in Until
      BY PeopleAssumption DEF Until
    <3>3. rows[r].token + 1 \in Nat
      BY <1>5 DEF Invitations
    <3>4. PICK n \in Nat, u \in Until : rows'[r] = [rows[r] EXCEPT !.token = n, !.until = u]
      BY <3>1, <3>2, <3>3
    <3>5. QED
      BY <1>5, <3>4 DEF Weaker, Invitations
  <2>4. QED
    BY <1>5, <2>1, <2>2, <2>3 DEF Weaker
<1>6. CASE rows'[r] \notin {rows[r], NoRow}
  <2>1. rows[r] \in Registrations \cup Requests \cup Invitations
    BY <1>6, RowFields DEF Weaker
  <2>2. CASE rows[r] \in Registrations
    BY <1>3, <1>6, <2>2 DEF Registrations, NoRow
  <2>3. CASE rows[r] \in Requests
    BY <1>4, <1>6, <2>3 DEF Requests, NoRow
  <2>4. CASE rows[r] \in Invitations
    BY <1>5, <1>6, <2>4 DEF Invitations, NoRow
  <2>5. QED
    BY <2>1, <2>2, <2>3, <2>4
<1>7. QED
  BY <1>1, <1>2, <1>6

(* Revoking live rows weakens them.                                        *)
LEMMA RevokedWeakens ==
    ASSUME TypeOK, NEW gone \in SUBSET Ids, \A r \in gone : rows[r].state = "live"
    PROVE  \A r \in Ids :
              /\ r \in gone => Revoked(gone)[r] = [rows[r] EXCEPT !.state = "revoked"]
              /\ r \notin gone => Revoked(gone)[r] = rows[r]
  BY DEF Revoked

(* A request goes on, and carries what it knows along.                     *)
Onward ==
    {<<"register", "withdraw">>, <<"register", "insert">>, <<"resend", "renew">>,
     <<"resend", "drop">>, <<"release", "request">>, <<"owners", "workspace">>,
     <<"workspace", "delete">>}

Advances(i) ==
    /\ <<calls[i].pc, calls'[i].pc>> \in Onward
    /\ calls'[i].pc \in Timed => calls'[i].at = calls[i].at
    /\ calls'[i].pc \in {"renew", "drop"} => calls'[i].row = calls[i].row

LEMMA OnwardTypes ==
    ASSUME TypeOK, NEW i \in Ids, NEW pc, <<calls[i].pc, pc>> \in Onward, Goto(i, pc)
    PROVE  /\ calls' \in [Ids -> AllCalls]
           /\ calls'[i].pc = pc /\ Advances(i)
           /\ calls[i].pc = "release" =>
                 calls'[i].email = calls[i].email /\ calls'[i].at = calls[i].at
           /\ \A j \in Ids \ {i} : calls'[j] = calls[j]
<1>1. calls[i] \in AllCalls /\ calls[i].pc # "none"
  BY DEF TypeOK, AllCalls, Onward
<1>2. CASE calls[i] \in RegistrationCalls
  <2>1. [calls[i] EXCEPT !.pc = pc] \in RegistrationCalls
    BY <1>2 DEF RegistrationCalls, Onward
  <2>2. QED
    BY <1>2, <2>1 DEF Goto, TypeOK, AllCalls, RegistrationCalls, Onward, Advances, Timed
<1>3. CASE calls[i] \in RequestCalls
  <2>1. [calls[i] EXCEPT !.pc = pc] \in RequestCalls
    BY <1>3 DEF RequestCalls, Onward
  <2>2. QED
    BY <1>3, <2>1 DEF Goto, TypeOK, AllCalls, RequestCalls, Onward, Advances, Timed
<1>4. CASE calls[i] \in MemberCalls
  <2>1. [calls[i] EXCEPT !.pc = pc] \in MemberCalls
    BY <1>4 DEF MemberCalls, Onward
  <2>2. QED
    BY <1>4, <2>1 DEF Goto, TypeOK, AllCalls, MemberCalls, Onward, Advances, Timed
<1>5. CASE calls[i] \in InvitationCalls
  BY <1>5 DEF InvitationCalls, Onward
<1>6. QED
  BY <1>1, <1>2, <1>3, <1>4, <1>5 DEF AllCalls, NoCall

(* A step after which every row is weaker, and of the requests some have   *)
(* ended or gone on, keeps the invariant.                                  *)
LEMMA Weakening ==
    ASSUME Inv, UNCHANGED <<people, now, issued>>,
           rows' \in [Ids -> AllRows], \A r \in Ids : Weaker(r),
           calls' \in [Ids -> AllCalls],
           \A i \in Ids : calls'[i] \in {calls[i], NoCall} \/ Advances(i),
           \A i, r \in Ids :
              /\ Advances(i) /\ calls'[i].pc = "request"
              /\ rows'[r].kind \in {"change", "enrollment"} /\ rows'[r].state = "live"
              /\ rows'[r].email = calls'[i].email
              => rows'[r].until > calls'[i].at
    PROVE  Inv' /\ Lasting
<1> USE DEF Inv, Shape, people
<1>1. \A r \in Ids :
        /\ rows'[r].kind \in {rows[r].kind, "none"}
        /\ rows[r] = NoRow => rows'[r] = NoRow
        /\ rows'[r].kind # "none" => rows'[r].email = rows[r].email
        /\ rows'[r].kind = "invitation" => rows'[r].org = rows[r].org
        /\ rows'[r].kind \in {"change", "enrollment"} => rows'[r].user = rows[r].user
        /\ rows'[r].state = "live" =>
              /\ rows[r].state = "live" /\ rows'[r].kind = rows[r].kind
              /\ rows[r].kind # "invitation" => rows'[r].until = rows[r].until
  BY WeakerMeans
<1>2. TypeOK'
  BY DEF TypeOK, AllRows, AllCalls
<1>3. \A i \in Ids : InFlight(i)' => InFlight(i) /\ (calls'[i] = calls[i] \/ Advances(i))
  BY DEF InFlight, NoCall, Advances, Onward
<1>4. NothingYet'
  BY <1>1, <1>3 DEF NothingYet
<1>5. NoCallYet'
  BY DEF NoCallYet, NoCall, Advances, Onward
<1>6. \A r \in Ids : \A kinds : Finds(r, kinds) => Finds(r, kinds)'
  BY <1>1, <1>3 DEF Finds
<1>7. Pointers'
  <2>1. ASSUME NEW i \in Ids, calls'[i] = calls[i]
        PROVE  /\ calls'[i].pc \in {"resend", "drop", "renew", "verify"}
                     => Finds(calls[i].row, {"registration"})'
               /\ calls'[i].pc = "confirm" => Finds(calls[i].row, {"change", "enrollment"})'
               /\ calls'[i].pc \in {"reinvite", "revoke", "join", "joinNew"}
                     => Finds(calls[i].row, {"invitation"})'
    <3>1. calls[i].pc \in {"resend", "drop", "renew", "verify", "confirm", "reinvite", "revoke",
                           "join", "joinNew"} => calls[i].row \in Ids
      BY CallFields
    <3>2. \A kinds : Finds(calls[i].row, kinds) /\ calls[i].row \in Ids =>
                        Finds(calls[i].row, kinds)'
      BY <2>1, <1>6 DEF Finds, InFlight
    <3>3. QED
      BY <2>1, <3>1, <3>2 DEF Pointers
  <2>2. ASSUME NEW i \in Ids, Advances(i), calls'[i].pc \in {"drop", "renew"}
        PROVE  Finds(calls[i].row, {"registration"})'
    <3>1. calls[i].pc = "resend" /\ calls[i].row \in Ids /\ calls'[i].row = calls[i].row
      BY <2>2, CallFields DEF Advances, Onward
    <3>2. Finds(calls[i].row, {"registration"})
      BY <3>1 DEF Pointers
    <3>3. QED
      BY <1>6, <3>1, <3>2 DEF Finds, InFlight
  <2>3. ASSUME NEW i \in Ids, Advances(i)
        PROVE  calls'[i].pc \notin {"resend", "verify", "confirm", "reinvite", "revoke", "join",
                                   "joinNew"}
    BY <2>3 DEF Advances, Onward
  <2>4. QED
    BY <1>3, <2>1, <2>2, <2>3 DEF Pointers, InFlight
<1>8. Hosts'
  <2>1. \A r \in Ids : rows'[r].kind = "invitation" => orgs'[rows'[r].org] # "none"
    BY <1>1 DEF Hosts
  <2>2. \A i \in Ids : calls'[i].pc = "invite" => orgs'[calls'[i].org] # "none"
    BY <1>3 DEF Hosts, InFlight, Advances, Onward
  <2>3. QED
    BY <2>1, <2>2 DEF Hosts
<1>9. Standing' /\ Clocks'
  BY <1>3 DEF Standing, Clocks, InFlight, Timed, Advances, Onward
<1>10. OneWaits'
  BY <1>1 DEF OneWaits, Unsettled, Kept
<1>11. ASSUME NEW r \in Ids, NEW at, Valid(r, at)', rows'[r].kind # "invitation"
       PROVE  Valid(r, at) /\ rows'[r].email = rows[r].email /\ rows'[r].until = rows[r].until
                 /\ rows'[r].kind = rows[r].kind
  BY <1>11, <1>1, RowFields DEF Valid
<1>12. \A e \in Emails : /\ Own(e)' = Own(e)
                         /\ Reserving(e, now)' \subseteq Reserving(e, now)
                         /\ Pending(e, now)' \subseteq Pending(e, now)
  BY <1>11 DEF Own, Reserving, Pending, Kept
<1>13. HeldOnce'
  <2>1. \A e \in Emails : Holders(e)' \subseteq Holders(e)
    BY <1>1, <1>12 DEF Holders, Reserving, Kept
  <2>2. QED
    BY <2>1 DEF HeldOnce
<1>14. ASSUME NEW i \in Ids, calls'[i].pc = "confirm", Valid(calls[i].row, calls[i].at)'
       PROVE  /\ calls'[i] = calls[i] /\ calls[i].row \in Ids
              /\ Valid(calls[i].row, calls[i].at)
              /\ rows'[calls[i].row].kind \in {"change", "enrollment"}
              /\ rows'[calls[i].row].email = rows[calls[i].row].email
              /\ rows'[calls[i].row].until = rows[calls[i].row].until
              /\ rows'[calls[i].row].user = rows[calls[i].row].user
  <2>1. calls'[i] = calls[i] /\ calls[i].row \in Ids
    BY <1>14, <1>3, CallFields DEF InFlight, Advances, Onward
  <2>2. rows'[calls[i].row].state = "live"
    BY <1>14, <2>1 DEF Valid
  <2>3. rows[calls[i].row].kind \in {"change", "enrollment"}
    BY <1>14, <2>1, <2>2, <1>1, RowFields DEF Pointers, Finds
  <2>4. rows'[calls[i].row].kind \in {"change", "enrollment"}
    BY <2>1, <2>2, <2>3, <1>1
  <2>5. QED
    BY <1>14, <2>1, <2>4, <1>1, <1>11
<1>15. Released'
  <2>1. ASSUME NEW j \in Ids, calls'[j].pc = "request"
        PROVE  calls'[j] = calls[j] \/ Advances(j)
    BY <2>1, <1>3 DEF InFlight
  <2>2. ASSUME NEW i \in Ids, NEW j \in Ids,
               calls'[i].pc = "confirm", Valid(calls[i].row, calls[i].at)',
               calls'[j].pc = "request", calls'[j].email = rows'[calls'[i].row].email
        PROVE  rows'[calls'[i].row].until > calls'[j].at
    <3>1. CASE calls'[j] = calls[j]
      BY <1>14, <2>2, <3>1 DEF Released
    <3>2. CASE Advances(j)
      BY <1>14, <2>2, <3>2 DEF Valid
    <3>3. QED
      BY <2>1, <2>2, <3>1, <3>2
  <2>3. QED
    BY <1>14, <2>2 DEF Released
<1>16. Confirmable'
  <2>1. ASSUME NEW i \in Ids, calls'[i].pc = "confirm", Valid(calls[i].row, calls[i].at)',
               NEW s \in Reserving(rows[calls[i].row].email, now)'
        PROVE  rows'[s].user = rows'[calls'[i].row].user
    <3>1. PICK e \in Emails : e = rows[calls[i].row].email /\ e = rows'[calls'[i].row].email
      BY <2>1, <1>14, RowFields DEF Valid
    <3>2. s \in Reserving(e, now)'
      BY <2>1, <3>1 DEF Reserving, Kept
    <3>3. s \in Reserving(e, now) /\ rows'[s].user = rows[s].user
      BY <3>2, <1>1, <1>12 DEF Reserving, Kept
    <3>4. QED
      BY <2>1, <3>1, <3>3, <1>14 DEF Confirmable
  <2>2. QED
    BY <2>1, <1>14 DEF Confirmable
<1>17. MembersWithinLimit'
  BY DEF MembersWithinLimit, Active
<1>18. Lasting
  BY WeakerMeans DEF Lasting
<1>19. QED
  BY <1>18, <1>2, <1>4, <1>5, <1>7, <1>8, <1>9, <1>10, <1>13, <1>15, <1>16, <1>17

(* A request goes on and has changed nothing.                              *)
LEMMA Moving ==
    ASSUME Inv, NEW i \in Ids, NEW pc, <<calls[i].pc, pc>> \in Onward, pc # "request",
           Goto(i, pc), UNCHANGED <<people, rows>>
    PROVE  Inv' /\ Lasting
<1>1. /\ calls' \in [Ids -> AllCalls] /\ calls'[i].pc = pc /\ Advances(i)
      /\ \A j \in Ids \ {i} : calls'[j] = calls[j]
  BY OnwardTypes DEF Inv, Shape
<1>2. rows' \in [Ids -> AllRows] /\ \A r \in Ids : Weaker(r)
  BY DEF Inv, Shape, TypeOK, AllRows, Weaker
<1>3. \A j \in Ids : Advances(j) => j = i
  BY <1>1 DEF Advances, Onward
<1>4. QED
  BY <1>1, <1>2, <1>3, Weakening DEF Goto

(* What a request knows when it starts.                                    *)
Proper(c) ==
    /\ c \in AllCalls
    /\ c.pc \notin {"none", "request"}
    /\ c.pc \in Timed => c.at = now
    /\ c.pc \in {"resend", "drop", "renew", "verify"} =>
          c.row \in Ids /\ rows[c.row].kind = "registration"
    /\ c.pc = "confirm" =>
          /\ c.row \in Ids /\ rows[c.row].kind \in {"change", "enrollment"}
          /\ FreeFor(rows[c.row].user, rows[c.row].email, now)
    /\ c.pc \in {"reinvite", "revoke", "join", "joinNew"} =>
          c.row \in Ids /\ rows[c.row].kind = "invitation"
    /\ c.pc = "invite" => orgs[c.org] # "none"
    /\ c.pc = "member" => c.from.status \in {"active", "suspended"}

(* A request starts.                                                       *)
LEMMA Starting ==
    ASSUME Inv, NEW i \in Ids, Fresh(i), NEW c, Proper(c), Begin(i, c), UNCHANGED <<people, rows>>
    PROVE  Inv' /\ Lasting
<1> USE DEF Inv, Shape, people, Begin
<1>1. /\ i = issued + 1 /\ issued' = i /\ calls'[i] = c /\ calls[i].pc = "none"
      /\ \A j \in Ids \ {i} : calls'[j] = calls[j]
  BY PeopleAssumption DEF Fresh, TypeOK, NoCallYet, NoCall, Ids
<1>2. TypeOK'
  BY PeopleAssumption DEF TypeOK, Proper, AllCalls, Fresh, Ids
<1>3. \A j \in Ids : j > issued' => j > issued /\ j # i
  BY <1>1, PeopleAssumption DEF TypeOK, Ids
<1>4. NothingYet'
  BY <1>1, <1>3 DEF NothingYet, InFlight, TypeOK, Ids
<1>5. NoCallYet'
  BY <1>1, <1>3 DEF NoCallYet
<1>6. \A r \in Ids : r <= issued /\ ~InFlight(r) => r <= issued' /\ ~InFlight(r)'
  BY <1>1 DEF InFlight, TypeOK, Ids
<1>7. ASSUME NEW r \in Ids, rows[r].kind # "none"
      PROVE  r <= issued /\ ~InFlight(r)
  BY <1>7 DEF NothingYet, NoRow, TypeOK, Ids
<1>8. Pointers'
  <2>1. ASSUME NEW j \in Ids, j # i
        PROVE  /\ calls'[j].pc \in {"resend", "drop", "renew", "verify"}
                     => Finds(calls[j].row, {"registration"})'
               /\ calls'[j].pc = "confirm" => Finds(calls[j].row, {"change", "enrollment"})'
               /\ calls'[j].pc \in {"reinvite", "revoke", "join", "joinNew"}
                     => Finds(calls[j].row, {"invitation"})'
    <3>1. calls'[j] = calls[j]
      BY <2>1, <1>1
    <3>2. calls[j].pc \in {"resend", "drop", "renew", "verify", "confirm", "reinvite", "revoke",
                          "join", "joinNew"} =>
             /\ calls[j].row \in Ids
             /\ calls[j].row <= issued' /\ calls'[calls[j].row].pc = "none"
      BY <1>6, CallFields DEF Pointers, Finds, InFlight
    <3>3. QED
      BY <3>1, <3>2 DEF Pointers, Finds, InFlight
  <2>2. /\ c.pc \in {"resend", "drop", "renew", "verify"} => Finds(calls[i].row, {"registration"})'
        /\ c.pc = "confirm" => Finds(calls[i].row, {"change", "enrollment"})'
        /\ c.pc \in {"reinvite", "revoke", "join", "joinNew"} => Finds(calls[i].row, {"invitation"})'
    BY <1>1, <1>6, <1>7 DEF Finds, Proper
  <2>3. QED
    BY <1>1, <2>1, <2>2 DEF Pointers
<1>9. Hosts' /\ Standing'
  BY <1>1 DEF Hosts, Standing, Proper
<1>10. Clocks'
  BY <1>1 DEF Clocks, Proper, TypeOK
<1>11. OneWaits' /\ HeldOnce' /\ MembersWithinLimit'
  BY DEF OneWaits, Unsettled, Kept, HeldOnce, Holders, Own, Reserving, Pending, Valid,
         MembersWithinLimit, Active
<1>12. Released'
  <2>1. ASSUME NEW k \in Ids, NEW j \in Ids,
               calls'[k].pc = "confirm", Valid(calls[k].row, calls[k].at)',
               calls'[j].pc = "request", calls'[j].email = rows'[calls'[k].row].email
        PROVE  rows'[calls'[k].row].until > calls'[j].at
    <3>1. j # i /\ calls'[j] = calls[j]
      BY <2>1, <1>1 DEF Proper
    <3>2. CASE k = i
      <4>1. calls[j].at \in 0..MaxNow /\ calls[j].at <= now
        BY <2>1, <3>1, CallFields DEF Clocks, Timed
      <4>2. c.row \in Ids /\ rows[c.row].until > now /\ rows[c.row].kind # "none"
        BY <2>1, <3>2, <1>1 DEF Proper, Valid, Timed
      <4>3. rows[c.row].until \in Until
        BY <4>2, RowFields
      <4>4. QED
        BY <3>1, <3>2, <4>1, <4>2, <4>3, <1>1, PeopleAssumption DEF Until, TypeOK
    <3>3. CASE k # i
      BY <2>1, <3>1, <3>3, <1>1 DEF Released, Valid
    <3>4. QED
      BY <3>2, <3>3
  <2>2. QED
    BY <2>1 DEF Released
<1>13. Confirmable'
  <2>1. ASSUME NEW k \in Ids, calls'[k].pc = "confirm", Valid(calls[k].row, calls[k].at)',
               NEW s \in Reserving(rows[calls[k].row].email, now)'
        PROVE  rows'[s].user = rows'[calls'[k].row].user
    <3>1. CASE k = i
      BY <2>1, <3>1, <1>1 DEF Proper, FreeFor, Reserving, Kept, Valid
    <3>2. CASE k # i
      BY <2>1, <3>2, <1>1 DEF Confirmable, Reserving, Kept, Valid
    <3>3. QED
      BY <3>1, <3>2
  <2>2. QED
    BY <2>1 DEF Confirmable
<1>14. QED
  BY <1>2, <1>4, <1>5, <1>8, <1>9, <1>10, <1>11, <1>12, <1>13 DEF Lasting

(* The clock goes on.                                                      *)
LEMMA Ticking == ASSUME Inv, Tick PROVE Inv' /\ Lasting /\ Lasting
<1> USE DEF Inv, Shape, people, Tick
<1>1. now' = now + 1 /\ now \in 0..MaxNow /\ UNCHANGED <<people, rows, calls, issued>>
  BY DEF TypeOK
<1>2. TypeOK'
  BY PeopleAssumption DEF TypeOK
<1>3. NothingYet' /\ NoCallYet' /\ Pointers' /\ Hosts' /\ Standing' /\ OneWaits'
         /\ MembersWithinLimit'
  BY DEF NothingYet, NoCallYet, Pointers, Finds, InFlight, Hosts, Standing, OneWaits, Unsettled,
         Kept, MembersWithinLimit, Active
<1>4. Clocks'
  BY <1>1, CallFields, PeopleAssumption DEF Clocks
<1>5. \A r \in Ids : Valid(r, now)' => Valid(r, now)
  BY <1>1, RowFields, PeopleAssumption DEF Valid, Until
<1>6. HeldOnce'
  <2>1. \A e \in Emails : Holders(e)' \subseteq Holders(e)
    BY <1>5 DEF Holders, Own, Reserving, Pending, Kept
  <2>2. QED
    BY <2>1 DEF HeldOnce
<1>7. Released'
  BY DEF Released, Valid
<1>8. Confirmable'
  <2>1. \A i \in Ids : Reserving(rows[i].email, now)' \subseteq Reserving(rows[i].email, now)
    BY <1>5 DEF Reserving, Kept
  <2>2. QED
    BY <2>1, CallFields DEF Confirmable, Valid
<1>9. QED
  BY <1>2, <1>3, <1>4, <1>6, <1>7, <1>8 DEF Lasting

(* Every request knows what is proper when it starts.                      *)
LEMMA Starts ==
    ASSUME Inv, NEW i \in Ids,
           \/ StartRegister(i) \/ StartResend(i) \/ StartVerify(i) \/ StartRequest(i)
           \/ StartConfirm(i) \/ StartInvite(i) \/ StartReinvite(i) \/ StartRevoke(i)
           \/ StartJoin(i) \/ StartJoinNew(i) \/ StartMember(i) \/ StartDelete(i)
    PROVE  Inv' /\ Lasting
<1> USE DEF Inv, Shape, Timed
<1>1. /\ now \in 0..MaxNow
      /\ \A u \in Users : users[u].email \in Addresses
      /\ \A o \in Orgs, u \in Users : members[o][u] \in MemberRows
  BY DEF TypeOK, UserRows
<1>2. CASE StartRegister(i)
  <2>1. PICK e \in Emails : Begin(i, [pc |-> "register", email |-> e, at |-> now])
    BY <1>2 DEF StartRegister
  <2>2. Proper([pc |-> "register", email |-> e, at |-> now])
    BY <1>1 DEF Proper, AllCalls, RegistrationCalls
  <2>3. QED
    BY <1>2, <2>1, <2>2, Starting DEF StartRegister
<1>3. CASE StartResend(i)
  <2>1. PICK r \in Kept({"registration"}) : Begin(i, [pc |-> "resend", row |-> r, at |-> now])
    BY <1>3 DEF StartResend
  <2>2. Proper([pc |-> "resend", row |-> r, at |-> now])
    BY <1>1 DEF Proper, AllCalls, RegistrationCalls, Kept
  <2>3. QED
    BY <1>3, <2>1, <2>2, Starting DEF StartResend
<1>4. CASE StartVerify(i)
  <2>1. PICK r \in Kept({"registration"}) :
           Begin(i, [pc |-> "verify", row |-> r, token |-> rows[r].token, at |-> now])
    BY <1>4 DEF StartVerify
  <2>2. r \in Ids /\ rows[r].kind = "registration" /\ rows[r].token \in Nat
    BY RowFields DEF Kept, Registrations
  <2>3. Proper([pc |-> "verify", row |-> r, token |-> rows[r].token, at |-> now])
    BY <1>1, <2>2 DEF Proper, AllCalls, RegistrationCalls
  <2>4. QED
    BY <1>4, <2>1, <2>3, Starting DEF StartVerify
<1>5. CASE StartRequest(i)
  <2>1. PICK u \in Users, e \in Emails, kind \in {"change", "enrollment"} :
           Begin(i, [pc |-> "release", user |-> u, old |-> users[u].email, email |-> e,
                     kind |-> kind, at |-> now])
    BY <1>5 DEF StartRequest
  <2>2. Proper([pc |-> "release", user |-> u, old |-> users[u].email, email |-> e,
                kind |-> kind, at |-> now])
    BY <1>1 DEF Proper, AllCalls, RequestCalls
  <2>3. QED
    BY <1>5, <2>1, <2>2, Starting DEF StartRequest
<1>6. CASE StartConfirm(i)
  <2>1. PICK r \in Kept({"change", "enrollment"}) :
           /\ FreeFor(rows[r].user, rows[r].email, now)
           /\ Begin(i, [pc |-> "confirm", row |-> r, at |-> now])
    BY <1>6 DEF StartConfirm
  <2>2. Proper([pc |-> "confirm", row |-> r, at |-> now])
    BY <1>1, <2>1 DEF Proper, AllCalls, RequestCalls, Kept
  <2>3. QED
    BY <1>6, <2>1, <2>2, Starting DEF StartConfirm
<1>7. CASE StartInvite(i)
  <2>1. PICK o \in Orgs, e \in Emails, role \in Roles :
           /\ orgs[o] = "active"
           /\ Begin(i, [pc |-> "invite", org |-> o, email |-> e, role |-> role, at |-> now])
    BY <1>7 DEF StartInvite, SignedIn
  <2>2. Proper([pc |-> "invite", org |-> o, email |-> e, role |-> role, at |-> now])
    BY <1>1, <2>1 DEF Proper, AllCalls, InvitationCalls
  <2>3. QED
    BY <1>7, <2>1, <2>2, Starting DEF StartInvite
<1>8. ASSUME NEW r \in Kept({"invitation"})
      PROVE  r \in Ids /\ rows[r].kind = "invitation" /\ rows[r].token \in Nat
  BY <1>8, RowFields DEF Kept, Invitations
<1>9. CASE StartReinvite(i)
  <2>1. PICK r \in Kept({"invitation"}) :
           Begin(i, [pc |-> "reinvite", row |-> r, token |-> rows[r].token, at |-> now])
    BY <1>9 DEF StartReinvite
  <2>2. Proper([pc |-> "reinvite", row |-> r, token |-> rows[r].token, at |-> now])
    BY <1>1, <1>8 DEF Proper, AllCalls, InvitationCalls
  <2>3. QED
    BY <1>9, <2>1, <2>2, Starting DEF StartReinvite
<1>10. CASE StartRevoke(i)
  <2>1. PICK r \in Kept({"invitation"}) : Begin(i, [pc |-> "revoke", row |-> r])
    BY <1>10 DEF StartRevoke
  <2>2. Proper([pc |-> "revoke", row |-> r])
    BY <1>8 DEF Proper, AllCalls, InvitationCalls
  <2>3. QED
    BY <1>10, <2>1, <2>2, Starting DEF StartRevoke
<1>11. CASE StartJoin(i)
  <2>1. PICK r \in Kept({"invitation"}), u \in Users, returns \in BOOLEAN :
           Begin(i, [pc |-> "join", row |-> r, token |-> rows[r].token, user |-> u, at |-> now,
                     returns |-> returns])
    BY <1>11 DEF StartJoin
  <2>2. Proper([pc |-> "join", row |-> r, token |-> rows[r].token, user |-> u, at |-> now,
                returns |-> returns])
    BY <1>1, <1>8 DEF Proper, AllCalls, InvitationCalls
  <2>3. QED
    BY <1>11, <2>1, <2>2, Starting DEF StartJoin
<1>12. CASE StartJoinNew(i)
  <2>1. PICK r \in Kept({"invitation"}) :
           Begin(i, [pc |-> "joinNew", row |-> r, token |-> rows[r].token, at |-> now])
    BY <1>12 DEF StartJoinNew
  <2>2. Proper([pc |-> "joinNew", row |-> r, token |-> rows[r].token, at |-> now])
    BY <1>1, <1>8 DEF Proper, AllCalls, InvitationCalls
  <2>3. QED
    BY <1>12, <2>1, <2>2, Starting DEF StartJoinNew
<1>13. CASE StartMember(i)
  <2>1. PICK o \in Orgs, v \in Users, role \in Roles,
             status \in {"active", "suspended", "removed"} :
           /\ members[o][v].status \in {"active", "suspended"}
           /\ Begin(i, [pc |-> "member", org |-> o, user |-> v, from |-> members[o][v],
                        role |-> role, status |-> status])
    BY <1>13 DEF StartMember
  <2>2. Proper([pc |-> "member", org |-> o, user |-> v, from |-> members[o][v],
                role |-> role, status |-> status])
    BY <1>1, <2>1 DEF Proper, AllCalls, MemberCalls
  <2>3. QED
    BY <1>13, <2>1, <2>2, Starting DEF StartMember
<1>14. CASE StartDelete(i)
  <2>1. PICK u \in Users : Begin(i, [pc |-> "owners", user |-> u, email |-> users[u].email])
    BY <1>14 DEF StartDelete
  <2>2. Proper([pc |-> "owners", user |-> u, email |-> users[u].email])
    BY <1>1 DEF Proper, AllCalls, MemberCalls
  <2>3. QED
    BY <1>14, <2>1, <2>2, Starting DEF StartDelete
<1>15. QED
  BY <1>2, <1>3, <1>4, <1>5, <1>6, <1>7, <1>9, <1>10, <1>11, <1>12, <1>13, <1>14

(* A request ends.                                                         *)
LEMMA Ends ==
    ASSUME Inv, NEW i \in Ids, End(i)
    PROVE  /\ calls' \in [Ids -> AllCalls]
           /\ calls'[i] = NoCall
           /\ \A j \in Ids \ {i} : calls'[j] = calls[j]
           /\ \A j \in Ids : calls'[j] \in {calls[j], NoCall} /\ ~Advances(j)
           /\ UNCHANGED <<now, issued>>
  BY DEF Inv, Shape, TypeOK, AllCalls, End, Advances, Onward, NoCall

(* The steps that end a request or let it go on, and weaken rows at most.  *)
LEMMA Lessening ==
    ASSUME Inv, NEW i \in Ids,
           \/ GiveUp(i) \/ Prune(i) \/ CheckRegister(i) \/ WithdrawRegistration(i)
           \/ CheckResend(i) \/ DropRegistration(i) \/ RenewRegistration(i)
           \/ Reinvite(i) \/ Revoke(i) \/ CheckOwners(i) \/ CheckWorkspace(i)
    PROVE  Inv' /\ Lasting
<1> USE DEF Inv, Shape
<1>1. /\ rows \in [Ids -> AllRows] /\ calls \in [Ids -> AllCalls] /\ NoRow \in AllRows
      /\ \A r \in Ids : rows[r].state = "live" =>
            rows[r] \in Registrations \cup Requests \cup Invitations
  BY DEF TypeOK, AllRows, AllCalls, NoRow
<1>2. ASSUME End(i), UNCHANGED <<people, rows>> PROVE Inv' /\ Lasting
  BY <1>1, <1>2, Ends, Weakening DEF Weaker, End
<1>3. ASSUME NEW gone \in SUBSET Ids, \A r \in gone : rows[r].state = "live",
             rows' = Revoked(gone), End(i), UNCHANGED people
      PROVE  Inv' /\ Lasting
  <2>1. \A r \in Ids : Weaker(r)
    BY <1>3, RevokedWeakens DEF Weaker
  <2>2. rows' \in [Ids -> AllRows]
    <3>1. \A r \in Ids : rows'[r] \in AllRows
      BY <2>1, WeakerMeans
    <3>2. QED
      BY <1>3, <3>1 DEF Revoked
  <2>3. QED
    BY <1>3, <2>1, <2>2, Ends, Weakening DEF End
<1>4. ASSUME NEW r \in Ids, NEW row, rows' = [rows EXCEPT ![r] = row], Weaker(r),
             UNCHANGED people, End(i) \/ UNCHANGED <<calls, now, issued>>
      PROVE  Inv' /\ Lasting
  <2>1. \A s \in Ids : Weaker(s)
    BY <1>1, <1>4 DEF Weaker
  <2>2. rows' \in [Ids -> AllRows]
    BY <1>1, <1>4, WeakerMeans
  <2>3. QED
    <3>1. calls' = calls => \A j \in Ids : ~Advances(j)
      BY DEF Advances, Onward
    <3>2. QED
      BY <1>1, <1>4, <2>1, <2>2, <3>1, Ends, Weakening DEF End
<1>5. CASE GiveUp(i)
  BY <1>2, <1>5 DEF GiveUp
<1>6. CASE Prune(i)
  BY <1>1, <1>4, <1>6 DEF Prune, Weaker
<1>7. CASE CheckRegister(i)
  BY <1>2, <1>7, Moving DEF CheckRegister, Onward
<1>8. CASE WithdrawRegistration(i)
  BY <1>3, <1>8 DEF WithdrawRegistration, Unsettled, Kept
<1>9. CASE CheckResend(i)
  BY <1>9, Moving DEF CheckResend, Onward
<1>10. CASE DropRegistration(i)
  BY <1>3, <1>10 DEF DropRegistration, Unsettled, Kept
<1>11. CASE RenewRegistration(i)
  <2> DEFINE r == calls[i].row
  <2>1. r \in Ids
    BY <1>11, CallFields DEF RenewRegistration
  <2>2. CASE Valid(r, calls[i].at) /\ FreeToRegister(rows[r].email, calls[i].at)
    <3>1. rows' = [rows EXCEPT ![r] = [rows[r] EXCEPT !.token = @ + 1]]
      BY <1>11, <2>1, <2>2 DEF RenewRegistration
    <3>2. Weaker(r)
      BY <1>1, <2>1, <2>2, <3>1 DEF Weaker, Valid
    <3>3. QED
      BY <1>4, <1>11, <2>1, <3>1, <3>2 DEF RenewRegistration
  <2>3. QED
    BY <1>2, <1>11, <2>2 DEF RenewRegistration
<1>12. CASE Reinvite(i)
  <2> DEFINE r == calls[i].row
  <2>1. r \in Ids /\ Finds(r, {"invitation"}) /\ calls[i].at \in 0..MaxNow
    BY <1>12, CallFields DEF Reinvite, Pointers, Timed
  <2>2. CASE rows' = [rows EXCEPT ![r].token = @ + 1, ![r].until = calls[i].at + 1]
                /\ Valid(r, calls[i].at)
    <3>1. rows' = [rows EXCEPT ![r] = [rows[r] EXCEPT !.token = @ + 1, !.until = calls[i].at + 1]]
      BY <2>1, <2>2, <1>1
    <3>2. rows[r].kind = "invitation"
      BY <2>1, <2>2, RowFields DEF Finds, Valid
    <3>3. Weaker(r)
      BY <1>1, <2>1, <2>2, <3>1, <3>2 DEF Weaker, Valid
    <3>4. QED
      BY <1>4, <1>12, <2>1, <3>1, <3>3 DEF Reinvite
  <2>3. QED
    BY <1>2, <1>12, <2>2 DEF Reinvite
<1>13. CASE Revoke(i)
  BY <1>3, <1>13 DEF Revoke, Revocable, Unsettled, Kept
<1>14. CASE CheckOwners(i)
  BY <1>2, <1>14, Moving DEF CheckOwners, Onward
<1>15. CASE CheckWorkspace(i)
  BY <1>2, <1>15, Moving DEF CheckWorkspace, Onward
<1>16. QED
  BY <1>5, <1>6, <1>7, <1>8, <1>9, <1>10, <1>11, <1>12, <1>13, <1>14, <1>15

(* A request ends and has weakened the rows but its own, which it may have *)
(* created.  What is left is what the addresses and the members say.       *)
LEMMA Ending ==
    ASSUME Inv, NEW i \in Ids, InFlight(i), End(i),
           users' \in [Users -> UserRows], orgs' \in [Orgs -> OrgStates],
           members' \in [Orgs -> [Users -> MemberRows]], rows' \in [Ids -> AllRows],
           \A r \in Ids \ {i} : Weaker(r),
           \A u \in Ids \ {i} :
              /\ users[u] = NoUser => users'[u] = NoUser
              /\ orgs[u] = "none" => orgs'[u] = "none"
              /\ \A o \in Orgs : members[o][u].status = "none" => members'[o][u].status = "none",
           \A o \in Orgs : orgs[o] # "none" => orgs'[o] # "none",
           \A o \in Orgs, u \in Users :
              members'[o][u].status # "none" => members[o][u].status # "none" \/ orgs'[o] # "none",
           rows'[i].kind = "invitation" => orgs[rows'[i].org] # "none",
           rows'[i].kind = "registration" =>
              \A s \in Unsettled({"registration"})' : rows'[s].email = rows'[i].email => s = i,
           rows'[i].kind \in {"change", "enrollment"} =>
              \A k \in Ids : /\ calls[k].pc = "confirm" /\ Valid(calls[k].row, calls[k].at)
                             /\ rows[calls[k].row].email = rows'[i].email
                             => rows'[i].user = rows[calls[k].row].user
    PROVE  Shape' /\ Clocks' /\ OneWaits' /\ Released' /\ Confirmable' /\ Lasting
<1> USE DEF Inv, Shape
<1>1. /\ calls' \in [Ids -> AllCalls]
      /\ calls'[i].pc = "none"
      /\ \A j \in Ids \ {i} : calls'[j] = calls[j]
      /\ \A j \in Ids : calls'[j].pc # "none" => calls'[j] = calls[j] /\ j # i
      /\ UNCHANGED <<now, issued>>
  BY Ends DEF NoCall
<1>2. \A r \in Ids \ {i} :
        /\ rows'[r].kind \in {rows[r].kind, "none"}
        /\ rows[r] = NoRow => rows'[r] = NoRow
        /\ rows'[r].kind # "none" => rows'[r].email = rows[r].email
        /\ rows'[r].kind = "invitation" => rows'[r].org = rows[r].org
        /\ rows'[r].kind \in {"change", "enrollment"} => rows'[r].user = rows[r].user
        /\ rows'[r].state = "live" =>
              /\ rows[r].state = "live" /\ rows'[r].kind = rows[r].kind
              /\ rows[r].kind # "invitation" => rows'[r].until = rows[r].until
  BY WeakerMeans
<1>3. TypeOK'
  BY <1>1 DEF TypeOK, AllRows, AllCalls
<1>4. \A j \in Ids : InFlight(j)' => InFlight(j) /\ j # i
  BY <1>1 DEF InFlight
<1>5. i <= issued
  BY DEF NoCallYet, NoCall, InFlight, TypeOK, Ids
<1>6. NothingYet'
  BY <1>1, <1>2, <1>4, <1>5 DEF NothingYet, TypeOK, Ids
<1>7. NoCallYet'
  BY <1>1, <1>5 DEF NoCallYet, TypeOK, Ids
<1>8. \A r \in Ids : \A kinds : Finds(r, kinds) => Finds(r, kinds)' /\ r # i
  BY <1>1, <1>2, <1>4 DEF Finds
<1>9. Pointers'
  <2>1. ASSUME NEW j \in Ids, calls'[j].pc # "none"
        PROVE  calls'[j] = calls[j] /\ calls[j].pc # "none"
    BY <2>1, <1>1
  <2>2. QED
    BY <2>1, <1>8, CallFields DEF Pointers
<1>10. Hosts'
  <2>1. \A r \in Ids : rows'[r].kind = "invitation" => orgs'[rows'[r].org] # "none"
    <3>1. \A r \in Ids : rows'[r].kind = "invitation" => rows'[r].org \in Orgs
      BY <1>3, RowFields DEF TypeOK, Registrations, Requests, Invitations, NoRow
    <3>2. QED
      BY <1>2, <3>1 DEF Hosts
  <2>2. \A j \in Ids : calls'[j].pc = "invite" => orgs'[calls'[j].org] # "none"
    BY <1>1, CallFields DEF Hosts
  <2>3. QED
    BY <2>1, <2>2 DEF Hosts
<1>11. Standing' /\ Clocks'
  BY <1>1 DEF Standing, Clocks, Timed
<1>12. OneWaits'
  BY <1>2 DEF OneWaits, Unsettled, Kept
<1>13. ASSUME NEW k \in Ids, calls'[k].pc = "confirm", Valid(calls[k].row, calls[k].at)'
       PROVE  /\ calls'[k] = calls[k] /\ calls[k].row \in Ids
              /\ Valid(calls[k].row, calls[k].at)
              /\ rows'[calls[k].row].kind \in {"change", "enrollment"}
              /\ rows'[calls[k].row].email = rows[calls[k].row].email
              /\ rows'[calls[k].row].until = rows[calls[k].row].until
              /\ rows'[calls[k].row].user = rows[calls[k].row].user
  <2>1. calls'[k] = calls[k] /\ calls[k].row \in Ids
    BY <1>13, <1>1, CallFields
  <2>2. Finds(calls[k].row, {"change", "enrollment"}) /\ calls[k].row # i
    BY <1>13, <2>1, <1>8 DEF Pointers
  <2>3. rows'[calls[k].row].state = "live"
    BY <1>13, <2>1 DEF Valid
  <2>4. rows[calls[k].row].state = "live"
    BY <2>1, <2>2, <2>3, <1>2
  <2>5. rows[calls[k].row].kind \in {"change", "enrollment"}
    BY <2>1, <2>2, <2>4, RowFields DEF Finds
  <2>6. QED
    BY <1>13, <2>1, <2>2, <2>3, <2>5, <1>2 DEF Valid
<1>14. Released'
  <2>1. ASSUME NEW j \in Ids, calls'[j].pc = "request" PROVE calls'[j] = calls[j]
    BY <2>1, <1>1
  <2>2. QED
    BY <1>13, <2>1 DEF Released
<1>15. Confirmable'
  <2>1. ASSUME NEW k \in Ids, calls'[k].pc = "confirm", Valid(calls[k].row, calls[k].at)',
               NEW s \in Reserving(rows[calls[k].row].email, now)'
        PROVE  rows'[s].user = rows'[calls'[k].row].user
    <3>1. CASE s = i
      BY <2>1, <3>1, <1>13 DEF Reserving, Kept
    <3>2. CASE s # i
      <4>1. s \in Reserving(rows[calls[k].row].email, now) /\ rows'[s].user = rows[s].user
        BY <2>1, <3>2, <1>1, <1>2, <1>13 DEF Reserving, Kept, Valid
      <4>2. QED
        BY <2>1, <4>1, <1>13 DEF Confirmable
    <3>3. QED
      BY <3>1, <3>2
  <2>2. QED
    BY <2>1, <1>13 DEF Confirmable
<1>16. Lasting
  <2>1. rows[i] = NoRow
    BY DEF NothingYet
  <2>2. QED
    BY <2>1, WeakerMeans DEF Lasting, NoRow
<1>17. QED
  BY <1>16, <1>3, <1>6, <1>7, <1>9, <1>10, <1>11, <1>12, <1>14, <1>15

(* Who does not get an address, and creates no row but an invitation, takes*)
(* no address.                                                             *)
LEMMA Holding ==
    ASSUME Inv, NEW i \in Ids, now' = now, TypeOK',
           \A u \in Users : users'[u].email \in {users[u].email, NoEmail},
           \A r \in Ids \ {i} : Weaker(r), rows'[i].kind \in {"none", "invitation"}
    PROVE  HeldOnce'
<1> USE DEF Inv, Shape
<1>1. \A r \in Ids \ {i} :
        /\ rows'[r].kind \in {rows[r].kind, "none"}
        /\ rows'[r].kind # "none" => rows'[r].email = rows[r].email
        /\ rows'[r].kind \in {"change", "enrollment"} => rows'[r].user = rows[r].user
        /\ rows'[r].state = "live" =>
              /\ rows[r].state = "live" /\ rows'[r].kind = rows[r].kind
              /\ rows[r].kind # "invitation" => rows'[r].until = rows[r].until
  BY WeakerMeans
<1>2. \A e \in Emails : Own(e)' \subseteq Own(e)
  BY PeopleAssumption DEF Own
<1>3. \A e \in Emails : /\ Reserving(e, now)' \subseteq Reserving(e, now)
                        /\ \A r \in Reserving(e, now)' : rows'[r].user = rows[r].user
                        /\ Pending(e, now)' \subseteq Pending(e, now)
  BY <1>1 DEF Reserving, Pending, Kept, Valid
<1>4. \A e \in Emails : Holders(e)' \subseteq Holders(e)
  BY <1>2, <1>3 DEF Holders
<1>5. QED
  BY <1>4 DEF HeldOnce

-----------------------------------------------------------------------------
(* The steps that create, claim or change something *)

(* What a step that changes only rows has to show for Ending.              *)
LEMMA EndingRows ==
    ASSUME Inv, NEW i \in Ids, InFlight(i), End(i), UNCHANGED people,
           NEW gone \in SUBSET Ids, \A r \in gone : rows[r].state = "live",
           NEW row \in AllRows, rows' = [Revoked(gone) EXCEPT ![i] = row]
    PROVE  /\ rows' \in [Ids -> AllRows] /\ rows'[i] = row
           /\ \A r \in Ids \ {i} : Weaker(r)
           /\ \A r \in Ids \ {i} : r \in gone => rows'[r].state = "revoked"
           /\ \A r \in Ids \ {i} : r \notin gone => rows'[r] = rows[r]
           /\ MembersWithinLimit'
<1>1. TypeOK /\ rows \in [Ids -> AllRows]
  BY DEF Inv, Shape, TypeOK, AllRows
<1>2. \A r \in Ids : /\ r \in gone => Revoked(gone)[r] = [rows[r] EXCEPT !.state = "revoked"]
                     /\ r \notin gone => Revoked(gone)[r] = rows[r]
  BY <1>1, RevokedWeakens
<1>3. \A r \in Ids \ {i} : rows'[r] = Revoked(gone)[r]
  BY DEF Revoked
<1>4. \A r \in Ids \ {i} : Weaker(r)
  BY <1>2, <1>3 DEF Weaker
<1>5. rows'[i] = row /\ \A r \in Ids \ {i} : rows'[r] \in AllRows
  BY <1>1, <1>4, WeakerMeans DEF Revoked
<1>6. rows' \in [Ids -> AllRows]
  BY <1>5 DEF Revoked
<1>7. \A r \in gone : rows[r] \in Registrations \cup Requests \cup Invitations
  BY <1>1, RowFields DEF AllRows, NoRow
<1>8. ASSUME NEW r \in Ids \ {i}, r \in gone PROVE rows'[r].state = "revoked"
  <2>1. rows'[r] = [rows[r] EXCEPT !.state = "revoked"]
    BY <1>2, <1>3, <1>8
  <2>2. CASE rows[r] \in Registrations
    BY <2>1, <2>2 DEF Registrations
  <2>3. CASE rows[r] \in Requests
    BY <2>1, <2>3 DEF Requests
  <2>4. CASE rows[r] \in Invitations
    BY <2>1, <2>4 DEF Invitations
  <2>5. QED
    BY <1>7, <1>8, <2>2, <2>3, <2>4
<1>9. MembersWithinLimit'
  BY DEF Inv, MembersWithinLimit, Active, people
<1>10. QED
  BY <1>2, <1>3, <1>4, <1>5, <1>6, <1>8, <1>9

LEMMA Inserting == ASSUME Inv, NEW i \in Ids, InsertRegistration(i) PROVE Inv' /\ Lasting
<1> USE DEF Inv, Shape
<1>0. PICK e \in Emails, at \in 0..MaxNow : e = calls[i].email /\ at = calls[i].at
  BY CallFields DEF InsertRegistration, Timed
<1> DEFINE gone == Expired({"registration", "change", "enrollment"}, e, at)
           row == IF Registrable(e, at)
                  THEN [kind |-> "registration", state |-> "live", email |-> e,
                        until |-> at + 1, token |-> 1]
                  ELSE NoRow
<1>1. /\ at <= now /\ now \in 0..MaxNow
      /\ InFlight(i) /\ End(i) /\ rows[i] = NoRow /\ UNCHANGED people
      /\ rows \in [Ids -> AllRows]
  BY <1>0 DEF InsertRegistration, Timed, InFlight, NothingYet, Clocks, TypeOK, AllRows
<1>2. row \in AllRows
  BY <1>1, PeopleAssumption DEF AllRows, Registrations, States, Until
<1>3. gone \in SUBSET Ids /\ \A r \in gone : rows[r].state = "live"
  BY DEF Expired, Unsettled, Kept
<1>4. rows' = [Revoked(gone) EXCEPT ![i] = row]
  <2>1. /\ Revoked(gone) = [Revoked(gone) EXCEPT ![i] = Revoked(gone)[i]]
        /\ Revoked(gone)[i] = rows[i]
    BY <1>1, <1>3 DEF Revoked, NoRow
  <2>2. rows' = IF Registrable(e, at)
                THEN [Revoked(gone) EXCEPT ![i] =
                        [kind |-> "registration", state |-> "live", email |-> e,
                         until |-> at + 1, token |-> 1]]
                ELSE Revoked(gone)
    BY <1>0 DEF InsertRegistration
  <2>3. QED
    BY <1>1, <2>1, <2>2
<1> HIDE DEF row, gone
<1>5. /\ rows' \in [Ids -> AllRows] /\ rows'[i] = row
      /\ \A r \in Ids \ {i} : Weaker(r)
      /\ \A r \in Ids \ {i} : r \in gone => rows'[r].state = "revoked"
      /\ \A r \in Ids \ {i} : r \notin gone => rows'[r] = rows[r]
      /\ MembersWithinLimit'
  BY <1>1, <1>2, <1>3, <1>4, EndingRows
<1>6. rows'[i].kind \in {"none", "registration"}
  BY <1>5 DEF row, NoRow
<1>7. ASSUME NEW r \in Ids, rows[r].until > now, rows[r].kind # "none" PROVE rows[r].until > at
  BY <1>7, <1>1, RowFields, PeopleAssumption DEF Until
<1>8. rows'[i].kind = "registration" => Registrable(e, at) /\ rows'[i].email = e
  BY <1>5 DEF row, NoRow
<1>9. ASSUME rows'[i].kind = "registration",
             NEW s \in Unsettled({"registration"})', rows'[s].email = rows'[i].email, s # i
      PROVE  FALSE
  <2>1. s \in Ids /\ rows'[s] = rows[s] /\ s \notin gone
    BY <1>5, <1>9 DEF Unsettled, Kept
  <2>2. rows[s].kind = "registration" /\ rows[s].state = "live" /\ rows[s].email = e
    BY <1>8, <1>9, <2>1 DEF Unsettled, Kept
  <2>3. ~(rows[s].until <= at) /\ rows[s].until \in Until
    BY <2>1, <2>2, RowFields DEF gone, Expired, Unsettled, Kept
  <2>4. s \in Pending(e, at)
    BY <1>1, <2>1, <2>2, <2>3, PeopleAssumption DEF Pending, Kept, Valid, Until
  <2>5. QED
    BY <1>8, <1>9, <2>4 DEF Registrable
<1>10. Shape' /\ Clocks' /\ OneWaits' /\ Released' /\ Confirmable' /\ Lasting
  <2>1. UNCHANGED <<users, orgs, members>>
    BY <1>1 DEF people
  <2>2. QED
    BY <1>1, <1>5, <1>6, <1>9, <2>1, Ending DEF TypeOK
<1>11. HeldOnce'
  <2>1. now' = now /\ UNCHANGED users
    BY <1>1 DEF End, people
  <2>2. \A r \in Ids \ {i} : Valid(r, now)' => rows'[r] = rows[r] /\ Valid(r, now)
    BY <1>5, <2>1 DEF Valid
  <2>3. ASSUME NEW f \in Emails, f # e \/ rows'[i].kind # "registration"
        PROVE  Holders(f)' \subseteq Holders(f)
    BY <1>6, <1>8, <2>1, <2>2, <2>3 DEF Holders, Own, Reserving, Pending, Kept
  <2>4. ASSUME rows'[i].kind = "registration"
        PROVE  Holders(e)' \subseteq {<<"registration", i>>}
    <3>1. Own(e) = {} /\ Reserving(e, at) = {} /\ Pending(e, at) = {}
      BY <1>8, <2>4 DEF Registrable, FreeToRegister
    <3>2. Own(e)' = {}
      BY <2>1, <3>1 DEF Own
    <3>3. Reserving(e, now)' = {} /\ Pending(e, now)' \subseteq {i}
      BY <1>6, <1>7, <2>1, <2>2, <2>4, <3>1 DEF Reserving, Pending, Kept, Valid
    <3>4. QED
      BY <3>2, <3>3 DEF Holders
  <2>5. QED
    BY <2>3, <2>4 DEF HeldOnce
<1>12. QED
  BY <1>5, <1>10, <1>11


(* The requests for the address that have expired are released, so those   *)
(* that are left outlive the time the request compares with.               *)
LEMMA Releasing == ASSUME Inv, NEW i \in Ids, ReleaseExpired(i) PROVE Inv' /\ Lasting
<1> USE DEF Inv, Shape
<1>0. PICK e \in Emails, at \in 0..MaxNow : e = calls[i].email /\ at = calls[i].at
  BY CallFields DEF ReleaseExpired, Timed
<1> DEFINE gone == Expired({"change", "enrollment"}, e, at)
<1>1. /\ calls' \in [Ids -> AllCalls] /\ calls'[i].pc = "request" /\ Advances(i)
      /\ calls'[i].email = e /\ calls'[i].at = at
      /\ \A j \in Ids \ {i} : calls'[j] = calls[j]
  BY <1>0, OnwardTypes DEF ReleaseExpired, Onward
<1>2. gone \in SUBSET Ids /\ \A r \in gone : rows[r].state = "live"
  BY DEF Expired, Unsettled, Kept
<1>3. rows' = Revoked(gone)
  BY <1>0 DEF ReleaseExpired
<1> HIDE DEF gone
<1>4. \A r \in Ids : Weaker(r)
  BY <1>2, <1>3, RevokedWeakens DEF Weaker
<1>5. rows' \in [Ids -> AllRows]
  <2>1. \A r \in Ids : rows'[r] \in AllRows
    BY <1>4, WeakerMeans
  <2>2. QED
    BY <1>3, <2>1 DEF Revoked
<1>6. \A j \in Ids : Advances(j) => j = i
  BY <1>1 DEF Advances, Onward
<1>7. ASSUME NEW r \in Ids, rows'[r].kind \in {"change", "enrollment"},
             rows'[r].state = "live", rows'[r].email = e
      PROVE  rows'[r].until > at
  <2>1. /\ rows[r].kind \in {"change", "enrollment"} /\ rows[r].state = "live"
        /\ rows[r].email = e /\ rows'[r].until = rows[r].until
    BY <1>4, <1>7, WeakerMeans
  <2>2. r \in gone => rows'[r] = [rows[r] EXCEPT !.state = "revoked"]
    BY <1>2, <1>3, RevokedWeakens
  <2>3. r \notin gone
    BY <1>7, <2>1, <2>2, RowFields DEF Requests
  <2>4. ~(rows[r].until <= at) /\ rows[r].until \in Until
    BY <2>1, <2>3, RowFields DEF gone, Expired, Unsettled, Kept
  <2>5. QED
    BY <2>1, <2>4, PeopleAssumption DEF Until
<1>8. QED
  BY <1>1, <1>4, <1>5, <1>6, <1>7, Weakening DEF ReleaseExpired, Goto

LEMMA Requesting == ASSUME Inv, NEW i \in Ids, Request(i) PROVE Inv' /\ Lasting
<1> USE DEF Inv, Shape
<1>0. PICK e \in Emails, at \in 0..MaxNow, kind \in {"change", "enrollment"}, u \in Users,
           old \in Addresses :
         /\ e = calls[i].email /\ at = calls[i].at /\ kind = calls[i].kind
         /\ u = calls[i].user /\ old = calls[i].old
  BY CallFields DEF Request, Timed
<1> DEFINE gone == {r \in Unsettled({"change", "enrollment"}) : rows[r].user = u}
           row == [kind |-> kind, state |-> "live", email |-> e,
                   until |-> at + 1, token |-> 1, user |-> u, old |-> old]
<1>1. CASE UNCHANGED rows
  <2>1. GiveUp(i)
    BY <1>1 DEF Request, GiveUp, Flying
  <2>2. QED
    BY <2>1, Lessening
<1>2. ASSUME FreeFor(u, e, at), rows' = [Revoked(gone) EXCEPT ![i] = row] PROVE Inv' /\ Lasting
  <2>1. /\ calls[i].pc = "request" /\ at <= now /\ now \in 0..MaxNow
        /\ InFlight(i) /\ End(i) /\ rows[i] = NoRow /\ UNCHANGED people
        /\ rows \in [Ids -> AllRows]
    BY <1>0 DEF Request, Timed, InFlight, NothingYet, Clocks, TypeOK, AllRows
  <2>2. row \in AllRows
    BY <2>1, PeopleAssumption DEF AllRows, Requests, States, Until
  <2>3. gone \in SUBSET Ids /\ \A r \in gone : rows[r].state = "live"
    BY DEF Unsettled, Kept
  <2> HIDE DEF gone
  <2>4. /\ rows' \in [Ids -> AllRows] /\ rows'[i] = row
        /\ \A r \in Ids \ {i} : Weaker(r)
        /\ \A r \in Ids \ {i} : r \in gone => rows'[r].state = "revoked"
        /\ \A r \in Ids \ {i} : r \notin gone => rows'[r] = rows[r]
        /\ MembersWithinLimit'
    BY <1>2, <2>1, <2>2, <2>3, EndingRows
  <2>5. rows'[i].kind = kind /\ rows'[i].email = e /\ rows'[i].user = u
    BY <2>4
  <2>6. ASSUME NEW k \in Ids, calls[k].pc = "confirm", Valid(calls[k].row, calls[k].at),
               rows[calls[k].row].email = e
        PROVE  rows[calls[k].row].user = u
    <3>1. calls[k].row \in Ids /\ rows[calls[k].row].until > at
      BY <1>0, <2>1, <2>6, CallFields DEF Released
    <3>2. rows[calls[k].row].kind \in {"change", "enrollment"}
      BY <2>6, <3>1, RowFields DEF Pointers, Finds, Valid
    <3>3. calls[k].row \in Reserving(e, at)
      BY <2>6, <3>1, <3>2 DEF Reserving, Kept, Valid
    <3>4. QED
      BY <1>2, <3>3 DEF FreeFor
  <2>7. Shape' /\ Clocks' /\ OneWaits' /\ Released' /\ Confirmable' /\ Lasting
    <3>1. UNCHANGED <<users, orgs, members>>
      BY <2>1 DEF people
    <3>2. QED
      BY <2>1, <2>4, <2>5, <2>6, <3>1, Ending DEF TypeOK
  <2>8. HeldOnce'
    <3>1. now' = now /\ UNCHANGED users
      BY <2>1 DEF End, people
    <3>2. \A r \in Ids \ {i} : Valid(r, now)' => rows'[r] = rows[r] /\ Valid(r, now)
      BY <2>4, <3>1 DEF Valid
    <3>3. \A f \in Emails \ {e} : Holders(f)' \subseteq Holders(f)
      BY <2>5, <3>1, <3>2 DEF Holders, Own, Reserving, Pending, Kept
    <3>4. Own(e)' \subseteq {u}
      BY <1>2, <3>1 DEF Own, FreeFor
    <3>5. \A r \in Ids : rows[r].kind # "none" /\ rows[r].until > now => rows[r].until > at
      BY <2>1, RowFields, PeopleAssumption DEF Until
    <3>6. Pending(e, now)' = {} /\ \A r \in Reserving(e, now)' : rows'[r].user = u
      BY <1>2, <2>5, <3>1, <3>2, <3>5 DEF FreeFor, Reserving, Pending, Kept, Valid
    <3>7. Holders(e)' \subseteq {<<"user", u>>}
      BY <3>4, <3>6 DEF Holders
    <3>8. QED
      BY <3>3, <3>7 DEF HeldOnce
  <2>9. QED
    BY <2>4, <2>7, <2>8
<1>3. QED
  BY <1>0, <1>1, <1>2 DEF Request, Requestable


LEMMA InvitingSafely == ASSUME Inv, NEW i \in Ids, Invite(i) PROVE Inv' /\ Lasting
<1> USE DEF Inv, Shape
<1>0. PICK o \in Orgs, e \in Emails, role \in Roles, at \in 0..MaxNow :
         o = calls[i].org /\ e = calls[i].email /\ role = calls[i].role /\ at = calls[i].at
  BY CallFields DEF Invite, Timed
<1> DEFINE gone == {r \in Unsettled({"invitation"}) \cap Invited(o) : rows[r].email = e}
           row == [kind |-> "invitation", state |-> "live", email |-> e,
                   until |-> at + 1, token |-> 1, org |-> o, role |-> role]
<1>1. CASE UNCHANGED rows
  <2>1. GiveUp(i)
    BY <1>1 DEF Invite, GiveUp, Flying
  <2>2. QED
    BY <2>1, Lessening
<1>2. ASSUME rows' = [Revoked(gone) EXCEPT ![i] = row] PROVE Inv' /\ Lasting
  <2>1. /\ orgs[o] # "none" /\ InFlight(i) /\ End(i) /\ UNCHANGED people
        /\ rows \in [Ids -> AllRows]
    BY <1>0 DEF Invite, InFlight, Hosts, TypeOK, AllRows
  <2>2. row \in AllRows
    BY PeopleAssumption DEF AllRows, Invitations, States, Until
  <2>3. gone \in SUBSET Ids /\ \A r \in gone : rows[r].state = "live"
    BY DEF Unsettled, Kept
  <2> HIDE DEF gone
  <2>4. /\ rows' \in [Ids -> AllRows] /\ rows'[i] = row
        /\ \A r \in Ids \ {i} : Weaker(r)
        /\ MembersWithinLimit'
    BY <1>2, <2>1, <2>2, <2>3, EndingRows
  <2>5. rows'[i].kind = "invitation" /\ rows'[i].org = o
    BY <2>4
  <2>6. UNCHANGED <<users, orgs, members>>
    BY <2>1 DEF people
  <2>7. Shape' /\ Clocks' /\ OneWaits' /\ Released' /\ Confirmable' /\ Lasting
    BY <2>1, <2>4, <2>5, <2>6, Ending DEF TypeOK
  <2>8. HeldOnce'
    BY <2>1, <2>4, <2>5, <2>6, <2>7, Holding DEF End
  <2>9. QED
    BY <2>4, <2>7, <2>8
<1>3. QED
  BY <1>0, <1>1, <1>2 DEF Invite

(* What settles or claims a row keeps the others weaker.                   *)
LEMMA ClaimWeakens ==
    ASSUME Inv, NEW gone \in SUBSET Ids, \A s \in gone : rows[s].state = "live",
           NEW r \in Ids, rows[r].state = "live", r \notin gone,
           rows' = [Revoked(gone) EXCEPT ![r].state = "done"]
    PROVE  /\ rows' \in [Ids -> AllRows]
           /\ \A s \in Ids : Weaker(s)
           /\ rows'[r] = [rows[r] EXCEPT !.state = "done"]
           /\ rows'[r].state = "done"
           /\ \A s \in gone : rows'[s].state = "revoked"
           /\ \A s \in Ids \ {r} : s \notin gone => rows'[s] = rows[s]
<1> USE DEF Inv, Shape
<1>1. \A s \in Ids : /\ s \in gone => Revoked(gone)[s] = [rows[s] EXCEPT !.state = "revoked"]
                     /\ s \notin gone => Revoked(gone)[s] = rows[s]
  BY RevokedWeakens
<1>2. /\ \A s \in Ids \ {r} : rows'[s] = Revoked(gone)[s]
      /\ rows'[r] = [rows[r] EXCEPT !.state = "done"]
  BY <1>1 DEF Revoked
<1>3. \A s \in Ids : Weaker(s)
  BY <1>1, <1>2 DEF Weaker
<1>4. rows' \in [Ids -> AllRows]
  <2>1. \A s \in Ids : rows'[s] \in AllRows
    BY <1>3, WeakerMeans
  <2>2. QED
    BY <2>1 DEF Revoked
<1>5. ASSUME NEW s \in Ids, rows[s].state = "live", NEW st,
             rows'[s] = [rows[s] EXCEPT !.state = st]
      PROVE  rows'[s].state = st
  <2>1. rows[s] \in Registrations \cup Requests \cup Invitations
    BY <1>5, RowFields DEF AllRows
  <2>2. CASE rows[s] \in Registrations
    BY <1>5, <2>2 DEF Registrations
  <2>3. CASE rows[s] \in Requests
    BY <1>5, <2>3 DEF Requests
  <2>4. CASE rows[s] \in Invitations
    BY <1>5, <2>4 DEF Invitations
  <2>5. QED
    BY <2>1, <2>2, <2>3, <2>4
<1>6. QED
  BY <1>1, <1>2, <1>3, <1>4, <1>5

LEMMA UsersFinite ==
    /\ IsFiniteSet(Users)
    /\ \A o \in Orgs : IsFiniteSet(Active(o)) /\ IsFiniteSet(Active(o)')
<1>1. IsFiniteSet(Ids)
  BY FS_Interval, PeopleAssumption DEF Ids
<1>2. IsFiniteSet(Users)
  BY <1>1, FS_Union, PeopleAssumption DEF Users
<1>3. QED
  BY <1>2, FS_Subset DEF Active

(* An organization gains at most one member, and only while it has room.   *)
LEMMA Places ==
    ASSUME MembersWithinLimit,
           \A o \in Orgs : \/ Active(o)' \subseteq Active(o)
                           \/ \E u \in Users : /\ Active(o)' \subseteq Active(o) \cup {u}
                                               /\ ~Full(o, u)
    PROVE  MembersWithinLimit'
<1> SUFFICES ASSUME NEW o \in Orgs PROVE Cardinality(Active(o)') <= MemberLimit
  BY DEF MembersWithinLimit
<1>1. Cardinality(Active(o)) \in Nat /\ Cardinality(Active(o)') \in Nat
  BY UsersFinite, FS_CardinalityType
<1>2. CASE Active(o)' \subseteq Active(o)
  <2>1. Cardinality(Active(o)') <= Cardinality(Active(o))
    BY <1>2, UsersFinite, FS_Subset
  <2>2. QED
    BY <1>1, <2>1, LimitsAssumption DEF MembersWithinLimit
<1>3. ASSUME NEW u \in Users, u \notin Active(o), Active(o)' \subseteq Active(o) \cup {u},
             ~Full(o, u)
      PROVE  Cardinality(Active(o)') <= MemberLimit
  <2>1. Cardinality(Active(o)) < MemberLimit
    BY <1>1, <1>3, LimitsAssumption DEF Full, Active
  <2>2. /\ IsFiniteSet(Active(o) \cup {u})
        /\ Cardinality(Active(o) \cup {u}) = Cardinality(Active(o)) + 1
    BY <1>3, UsersFinite, FS_AddElement
  <2>3. Cardinality(Active(o)') <= Cardinality(Active(o) \cup {u})
    BY <1>3, <2>2, FS_Subset
  <2>4. QED
    BY <1>1, <2>1, <2>2, <2>3, LimitsAssumption
<1>4. QED
  BY <1>2, <1>3


LEMMA Verifying == ASSUME Inv, NEW i \in Ids, Verify(i) PROVE Inv' /\ Lasting
<1> USE DEF Inv, Shape
<1>0. PICK r \in Ids, at \in 0..MaxNow : r = calls[i].row /\ at = calls[i].at
  BY CallFields DEF Verify, Timed
<1>1. CASE UNCHANGED <<people, rows>>
  <2>1. GiveUp(i)
    BY <1>1 DEF Verify, GiveUp, Flying
  <2>2. QED
    BY <2>1, Lessening
<1>2. CASE Verifiable(r, calls[i].token, at)
  <2>1. /\ at <= now /\ now \in 0..MaxNow /\ InFlight(i) /\ End(i)
        /\ rows[i] = NoRow /\ users[i] = NoUser /\ orgs[i] = "none"
        /\ rows[r].state = "live" /\ i # r
        /\ Own(rows[r].email) = {} /\ Reserving(rows[r].email, at) = {}
    BY <1>0, <1>2 DEF Verify, Timed, InFlight, NothingYet, Clocks, TypeOK, Verifiable, Valid,
                      FreeToRegister, NoRow
  <2>2. rows[r].kind = "registration" /\ rows[r].email \in Emails
    BY <1>0, <2>1, RowFields DEF Verify, Pointers, Finds
  <2>3. PICK e \in Emails : e = rows[r].email
    BY <2>2
  <2>4. /\ rows' = [rows EXCEPT ![r].state = "done"]
        /\ users' = [users EXCEPT ![i] = [status |-> "active", email |-> e]]
        /\ orgs' = [orgs EXCEPT ![i] = "active"]
        /\ members' = [members EXCEPT ![i][i] =
                         [status |-> "active", role |-> "owner", version |-> 0]]
    BY <1>0, <1>2, <2>3 DEF Verify
  <2>5. Revoked({}) = rows
    BY DEF Revoked, TypeOK
  <2>6. /\ rows' \in [Ids -> AllRows] /\ \A s \in Ids : Weaker(s)
        /\ rows'[r].state = "done" /\ \A s \in Ids \ {r} : rows'[s] = rows[s]
    BY <2>1, <2>4, <2>5, ClaimWeakens
  <2>7. i \in Users /\ i \in Orgs
    BY DEF Users, Orgs
  <2>8. users' \in [Users -> UserRows] /\ orgs' \in [Orgs -> OrgStates]
    BY <2>4 DEF TypeOK, UserRows, OrgStates, Addresses
  <2>9. members' \in [Orgs -> [Users -> MemberRows]]
    BY <2>4, <2>7 DEF TypeOK, MemberRows, Roles
  <2>10. /\ \A o \in Orgs \ {i} : members'[o] = members[o]
         /\ \A u \in Users \ {i} : members'[i][u] = members[i][u]
    BY <2>4, <2>7 DEF TypeOK
  <2>11. Shape' /\ Clocks' /\ OneWaits' /\ Released' /\ Confirmable' /\ Lasting
    <3>1. \A u \in Ids \ {i} :
              /\ users[u] = NoUser => users'[u] = NoUser
              /\ orgs[u] = "none" => orgs'[u] = "none"
              /\ \A o \in Orgs : members[o][u].status = "none" => members'[o][u].status = "none"
      BY <2>4, <2>10 DEF TypeOK, Users, Orgs
    <3>2. /\ orgs'[i] # "none"
          /\ \A o \in Orgs : orgs[o] # "none" => orgs'[o] # "none"
      BY <2>4, <2>7 DEF TypeOK
    <3>3. rows'[i].kind = "none"
      BY <2>1, <2>6 DEF NoRow
    <3>4. QED
      BY <2>1, <2>6, <2>7, <2>8, <2>9, <2>10, <3>1, <3>2, <3>3, Ending
  <2>12. MembersWithinLimit'
    <3>1. Active(i) = {}
      BY <2>1, <2>7 DEF Hosts, Active
    <3>2. Active(i)' \subseteq Active(i) \cup {i}
      BY <2>10 DEF Active
    <3>3. members[i][i].status # "active" /\ Cardinality(Active(i)) = 0
      BY <2>7, <3>1, FS_EmptySet DEF Active
    <3>4. ~Full(i, i)
      BY <3>3, LimitsAssumption DEF Full
    <3>5. \A o \in Orgs \ {i} : Active(o)' \subseteq Active(o)
      BY <2>10 DEF Active
    <3>6. QED
      BY <2>7, <3>2, <3>4, <3>5, Places
  <2>13. HeldOnce'
    <3>1. \A u \in Users : users'[u].email = IF u = i THEN e ELSE users[u].email
      BY <2>4 DEF TypeOK
    <3>2. \A f \in Emails \ {e} : Own(f)' \subseteq Own(f)
      BY <3>1 DEF Own
    <3>3. now' = now
      BY <2>1 DEF End
    <3>4. \A s \in Ids : Valid(s, now)' => s # r /\ Valid(s, now) /\ rows'[s] = rows[s]
      BY <2>6, <3>3 DEF Valid
    <3>5. \A f \in Emails \ {e} : Holders(f)' \subseteq Holders(f)
      BY <3>2, <3>3, <3>4 DEF Holders, Reserving, Pending, Kept
    <3>6. Own(e)' \subseteq {i}
      BY <2>1, <2>3, <3>1 DEF Own
    <3>7. Pending(e, now)' = {}
      BY <2>1, <2>2, <2>3, <3>3, <3>4 DEF Pending, Kept, OneWaits, Unsettled, Valid
    <3>8. \A s \in Ids : rows[s].kind # "none" /\ rows[s].until > now => rows[s].until > at
      BY <2>1, RowFields, PeopleAssumption DEF Until
    <3>9. Reserving(e, now)' = {}
      BY <2>1, <2>3, <3>3, <3>4, <3>8 DEF Reserving, Kept, Valid
    <3>10. Holders(e)' \subseteq {<<"user", i>>}
      BY <3>6, <3>7, <3>9 DEF Holders
    <3>11. QED
      BY <3>5, <3>10 DEF HeldOnce
  <2>14. QED
    BY <2>11, <2>12, <2>13
<1>3. QED
  BY <1>0, <1>1, <1>2 DEF Verify, people

LEMMA Confirming == ASSUME Inv, NEW i \in Ids, Confirm(i) PROVE Inv' /\ Lasting
<1> USE DEF Inv, Shape
<1>0. PICK r \in Ids, at \in 0..MaxNow : r = calls[i].row /\ at = calls[i].at
  BY CallFields DEF Confirm, Timed
<1>1. CASE UNCHANGED <<people, rows>>
  <2>1. GiveUp(i)
    BY <1>1 DEF Confirm, GiveUp, Flying
  <2>2. QED
    BY <2>1, Lessening
<1>2. ASSUME Valid(r, at), rows' = [Revoked(SettledWith(r)) EXCEPT ![r].state = "done"]
      PROVE  Inv' /\ Lasting
  <2>1. /\ calls[i].pc = "confirm" /\ InFlight(i) /\ End(i) /\ now' = now
        /\ rows[i] = NoRow /\ rows[r].state = "live" /\ i # r /\ UNCHANGED <<orgs, members>>
    BY <1>2 DEF Confirm, InFlight, NothingYet, Valid, NoRow, End
  <2>2. rows[r].kind \in {"change", "enrollment"} /\ rows[r] \in Requests
    BY <1>0, <2>1, RowFields DEF Pointers, Finds
  <2>3. PICK e \in Emails, u \in Users : e = rows[r].email /\ u = rows[r].user
    BY <2>2 DEF Requests
  <2>4. /\ SettledWith(r) \in SUBSET Ids /\ r \notin SettledWith(r)
        /\ \A s \in SettledWith(r) : rows[s].state = "live"
    BY <2>2 DEF SettledWith, Unsettled, Kept
  <2>5. /\ rows' \in [Ids -> AllRows] /\ \A s \in Ids : Weaker(s)
        /\ rows'[r].state = "done"
        /\ \A s \in SettledWith(r) : rows'[s].state = "revoked"
        /\ \A s \in Ids \ {r} : s \notin SettledWith(r) => rows'[s] = rows[s]
    BY <1>2, <2>1, <2>4, ClaimWeakens
  <2>6. \/ users' = [users EXCEPT ![u].email = e] /\ Own(e) \subseteq {u}
              /\ users[u].status = "active"
        \/ users' = users
    BY <1>0, <2>3 DEF Confirm
  <2>7. users' \in [Users -> UserRows]
    BY <2>6 DEF TypeOK, UserRows, Addresses
  <2>8. rows'[i].kind = "none"
    BY <2>1, <2>5, WeakerMeans DEF NoRow
  <2>9. MembersWithinLimit'
    BY <2>1 DEF MembersWithinLimit, Active
  <2>10. Shape' /\ Clocks' /\ OneWaits' /\ Released' /\ Confirmable' /\ Lasting
    <3>1. \A v \in Users : users[v] = NoUser => users'[v] = NoUser
      BY <2>6 DEF TypeOK, NoUser
    <3>2. \A v \in Ids : v \in Users
      BY DEF Users
    <3>3. QED
      BY <2>1, <2>5, <2>7, <2>8, <3>1, <3>2, Ending DEF TypeOK
  <2>11. HeldOnce'
    <3>1. CASE users' = users
      BY <2>1, <2>5, <2>8, <2>10, <3>1, Holding
    <3>2. CASE users' = [users EXCEPT ![u].email = e] /\ Own(e) \subseteq {u}
      <4>1. \A v \in Users : users'[v].email = IF v = u THEN e ELSE users[v].email
        BY <3>2 DEF TypeOK, UserRows
      <4>2. \A s \in Ids : Valid(s, now)' =>
               Valid(s, now) /\ rows'[s] = rows[s] /\ s # r /\ s \notin SettledWith(r)
        BY <2>1, <2>5 DEF Valid
      <4>3. \A f \in Emails \ {e} : Holders(f)' \subseteq Holders(f)
        BY <2>1, <4>1, <4>2 DEF Holders, Own, Reserving, Pending, Kept
      <4>4. Own(e)' \subseteq {u}
        BY <3>2, <4>1 DEF Own
      <4>5. Pending(e, now)' = {}
        BY <2>1, <2>3, <4>2 DEF Pending, Kept, SettledWith, Unsettled, Valid
      <4>6. \A s \in Reserving(e, now) : rows[s].user = u
        BY <1>0, <1>2, <2>1, <2>3 DEF Confirmable
      <4>7. \A s \in Reserving(e, now)' : rows'[s].user = u
        BY <2>1, <4>2, <4>6 DEF Reserving, Kept
      <4>8. Holders(e)' \subseteq {<<"user", u>>}
        BY <4>4, <4>5, <4>7 DEF Holders
      <4>9. QED
        BY <4>3, <4>8 DEF HeldOnce
    <3>3. QED
      BY <2>6, <3>1, <3>2
  <2>12. QED
    BY <2>9, <2>10, <2>11
<1>3. QED
  BY <1>0, <1>1, <1>2 DEF Confirm, people


(* The user the batch creates has no row among the members, so the trigger *)
(* refuses the claim, and the batch fails.                                 *)
LEMMA JoiningNew == ASSUME Inv, NEW i \in Ids, JoinNew(i) PROVE Inv' /\ Lasting
<1> USE DEF Inv, Shape
<1>1. CASE UNCHANGED <<people, rows>>
  <2>1. GiveUp(i)
    BY <1>1 DEF JoinNew, GiveUp, Flying
  <2>2. QED
    BY <2>1, Lessening
<1>2. ASSUME MayJoinNew(i), Nameable(rows[calls[i].row].org, i) PROVE FALSE
  <2>1. calls[i].pc = "joinNew" /\ calls[i].row \in Ids /\ rows[calls[i].row].state = "live"
    BY <1>2, CallFields DEF JoinNew, MayJoinNew, Claims, Valid
  <2>2. rows[calls[i].row].kind = "invitation"
    BY <2>1, RowFields DEF Pointers, Finds
  <2>3. rows[calls[i].row].org \in Orgs
    BY <2>1, <2>2, RowFields DEF Invitations
  <2>4. QED
    BY <1>2, <2>1, <2>3 DEF NothingYet, InFlight, Nameable
<1>3. QED
  BY <1>1, <1>2 DEF JoinNew, people

LEMMA Joining == ASSUME Inv, NEW i \in Ids, Join(i) PROVE Inv' /\ Lasting
<1> USE DEF Inv, Shape
<1>0. PICK r \in Ids, u \in Users : r = calls[i].row /\ u = calls[i].user
  BY CallFields DEF Join
<1>1. CASE UNCHANGED <<people, rows>>
  <2>1. GiveUp(i)
    BY <1>1 DEF Join, GiveUp, Flying
  <2>2. QED
    BY <2>1, Lessening
<1>2. ASSUME rows[r].state = "live", rows' = [rows EXCEPT ![r].state = "done"],
             \/ members[rows[r].org][u].status = "removed" /\ ~Full(rows[r].org, u)
                   /\ Enter(rows[r].org, u, rows[r].role)
             \/ UNCHANGED members
      PROVE  Inv' /\ Lasting
  <2>1. /\ calls[i].pc = "join" /\ InFlight(i) /\ End(i) /\ rows[i] = NoRow /\ i # r
        /\ UNCHANGED <<users, orgs, now>>
    BY <1>2 DEF Join, InFlight, NothingYet, NoRow, End
  <2>2. rows[r] \in Invitations
    BY <1>0, <1>2, <2>1, RowFields DEF Pointers, Finds
  <2>3. PICK o \in Orgs, role \in Roles : o = rows[r].org /\ role = rows[r].role
    BY <2>2 DEF Invitations
  <2>4. Revoked({}) = rows
    BY DEF Revoked, TypeOK
  <2>5. rows' \in [Ids -> AllRows] /\ \A s \in Ids : Weaker(s)
    BY <1>2, <2>4, ClaimWeakens
  <2>6. rows'[i].kind = "none"
    BY <2>1, <2>5, WeakerMeans DEF NoRow
  <2>7. \/ /\ members[o][u].status = "removed" /\ ~Full(o, u)
           /\ members' = [members EXCEPT ![o][u] =
                [status |-> "active", role |-> role, version |-> members[o][u].version + 1]]
        \/ members' = members
    BY <1>2, <2>3 DEF Enter
  <2>8. members[o][u].version \in Nat
    BY DEF TypeOK, MemberRows
  <2>9. members' \in [Orgs -> [Users -> MemberRows]]
    <3>1. PICK row \in MemberRows :
             row = [status |-> "active", role |-> role, version |-> members[o][u].version + 1]
      <4>1. [status |-> "active", role |-> role, version |-> members[o][u].version + 1]
               \in MemberRows
        BY <2>8 DEF MemberRows
      <4>2. QED
        BY <4>1
    <3>2. members' \in {members, [members EXCEPT ![o][u] = row]}
      BY <2>7, <3>1
    <3>3. QED
      BY <3>2 DEF TypeOK
  <2>10. /\ \A p \in Orgs, v \in Users : p # o \/ v # u => members'[p][v] = members[p][v]
         /\ members[o][u].status # "none" \/ members'[o][u] = members[o][u]
         /\ ~Full(o, u) \/ members'[o][u] = members[o][u]
    BY <2>7 DEF TypeOK
  <2>11. Shape' /\ Clocks' /\ OneWaits' /\ Released' /\ Confirmable' /\ Lasting
    <3>1. /\ \A p \in Orgs, v \in Users :
                members[p][v].status = "none" => members'[p][v].status = "none"
          /\ \A v \in Ids : v \in Users
      BY <2>10 DEF Users
    <3>2. QED
      BY <2>1, <2>5, <2>6, <2>9, <3>1, Ending DEF TypeOK
  <2>12. MembersWithinLimit'
    <3>1. \A p \in Orgs : \/ Active(p)' \subseteq Active(p)
                          \/ \E v \in Users : /\ Active(p)' \subseteq Active(p) \cup {v}
                                              /\ ~Full(p, v)
      BY <2>10 DEF Active
    <3>2. QED
      BY <3>1, Places
  <2>13. HeldOnce'
    BY <2>1, <2>5, <2>6, <2>11, Holding
  <2>14. QED
    BY <2>11, <2>12, <2>13
<1>3. QED
  BY <1>0, <1>1, <1>2 DEF Join, Claims, Valid, people

LEMMA Updating == ASSUME Inv, NEW i \in Ids, UpdateMember(i) PROVE Inv' /\ Lasting
<1> USE DEF Inv, Shape
<1>0. PICK o \in Orgs, u \in Users, role \in Roles, status \in {"active", "suspended", "removed"} :
         /\ o = calls[i].org /\ u = calls[i].user
         /\ role = calls[i].role /\ status = calls[i].status
  BY CallFields DEF UpdateMember
<1>1. CASE UNCHANGED members
  <2>1. GiveUp(i)
    BY <1>1 DEF UpdateMember, GiveUp, Flying, people
  <2>2. QED
    BY <2>1, Lessening
<1>2. ASSUME members[o][u] = calls[i].from, status = "active" => ~Full(o, u),
             members' = [members EXCEPT ![o][u] =
                           [status |-> status, role |-> role, version |-> @.version + 1]]
      PROVE  Inv' /\ Lasting
  <2>1. /\ calls[i].pc = "member" /\ InFlight(i) /\ End(i) /\ rows[i] = NoRow
        /\ UNCHANGED <<users, orgs, rows, now>>
    BY DEF UpdateMember, InFlight, NothingYet, End
  <2>2. members[o][u].version \in Nat /\ members[o][u].status # "none"
    BY <1>2, <2>1 DEF TypeOK, MemberRows, Standing
  <2>3. members' \in [Orgs -> [Users -> MemberRows]]
    BY <1>2, <2>2 DEF TypeOK, MemberRows
  <2>4. /\ \A p \in Orgs, v \in Users : p # o \/ v # u => members'[p][v] = members[p][v]
        /\ members'[o][u].status = status
    BY <1>2 DEF TypeOK
  <2>5. rows' \in [Ids -> AllRows] /\ \A r \in Ids : Weaker(r)
    BY <2>1 DEF TypeOK, AllRows, Weaker
  <2>6. rows'[i].kind = "none"
    BY <2>1 DEF NoRow
  <2>7. Shape' /\ Clocks' /\ OneWaits' /\ Released' /\ Confirmable' /\ Lasting
    <3>1. \A p \in Orgs, v \in Users :
             members[p][v].status = "none" <=> members'[p][v].status = "none"
      BY <2>2, <2>4
    <3>2. \A v \in Ids : v \in Users
      BY DEF Users
    <3>3. QED
      BY <2>1, <2>3, <2>5, <2>6, <3>1, <3>2, Ending DEF TypeOK
  <2>8. MembersWithinLimit'
    <3>1. \A p \in Orgs \ {o} : Active(p)' \subseteq Active(p)
      BY <2>4 DEF Active
    <3>2. status = "active" => Active(o)' \subseteq Active(o) \cup {u} /\ ~Full(o, u)
      BY <1>2, <2>4 DEF Active
    <3>3. status # "active" => Active(o)' \subseteq Active(o)
      BY <2>4 DEF Active
    <3>4. QED
      BY <3>1, <3>2, <3>3, Places
  <2>9. HeldOnce'
    BY <2>1, <2>5, <2>6, <2>7, Holding
  <2>10. QED
    BY <2>7, <2>8, <2>9
<1>3. QED
  BY <1>0, <1>1, <1>2 DEF UpdateMember

LEMMA Deleting == ASSUME Inv, NEW i \in Ids, Delete(i) PROVE Inv' /\ Lasting
<1> USE DEF Inv, Shape
<1>0. PICK u \in Users : u = calls[i].user
  BY CallFields DEF Delete
<1> DEFINE gone == Dropped(u, calls[i].email)
<1>1. /\ InFlight(i) /\ End(i) /\ rows[i] = NoRow /\ now' = now /\ rows' = Revoked(gone)
  BY <1>0 DEF Delete, InFlight, NothingYet, End
<1>2. gone \in SUBSET Ids /\ \A r \in gone : rows[r].state = "live"
  BY DEF Dropped, Unsettled, Kept
<1> HIDE DEF gone
<1>3. \A r \in Ids : Weaker(r)
  BY <1>1, <1>2, RevokedWeakens DEF Weaker
<1>4. rows' \in [Ids -> AllRows] /\ rows'[i].kind = "none"
  <2>1. \A r \in Ids : rows'[r] \in AllRows
    BY <1>3, WeakerMeans
  <2>2. QED
    BY <1>1, <1>3, <2>1, WeakerMeans DEF Revoked, NoRow
<1>5. /\ orgs' \in [Orgs -> OrgStates]
      /\ \A o \in Orgs : orgs[o] = "none" <=> orgs'[o] = "none"
  BY <1>0 DEF Delete, TypeOK, OrgStates
<1>6. /\ users' \in [Users -> UserRows]
      /\ \A v \in Users : users'[v].email \in {users[v].email, NoEmail}
      /\ \A v \in Users : users[v] = NoUser => users'[v] = NoUser
  <2>1. users' \in {users, [users EXCEPT ![u] = [status |-> "deleted", email |-> NoEmail]]}
    BY <1>0 DEF Delete
  <2>2. [status |-> "deleted", email |-> NoEmail] \in UserRows
    BY DEF UserRows, Addresses
  <2>3. users[u].status = "active" \/ users' = users
    BY <1>0 DEF Delete
  <2>4. \A v \in Users \ {u} : users'[v] = users[v]
    BY <2>1 DEF TypeOK
  <2>5. \/ users'[u] = users[u]
        \/ users[u].status = "active" /\ users'[u] = [status |-> "deleted", email |-> NoEmail]
    <3>1. CASE users' = users
      <4>1. users'[u] = users[u]
        BY <3>1
      <4>2. QED
        BY <4>1
    <3>2. CASE users' = [users EXCEPT ![u] = [status |-> "deleted", email |-> NoEmail]]
      <4>1. users'[u] = [status |-> "deleted", email |-> NoEmail]
        BY <3>2 DEF TypeOK
      <4>2. QED
        BY <2>3, <4>1
    <3>3. QED
      BY <2>1, <3>1, <3>2
  <2>6. users' \in [Users -> UserRows]
    BY <2>1, <2>2 DEF TypeOK
  <2>7. QED
    BY <2>4, <2>5, <2>6 DEF NoUser
<1>7. ASSUME NEW o \in Orgs, NEW v \in Users
      PROVE  /\ members'[o][v] \in MemberRows
             /\ members[o][v].status = "none" <=> members'[o][v].status = "none"
             /\ members'[o][v].status = "active" => members[o][v].status = "active"
  <2>1. /\ members'[o] = [members[o] EXCEPT ![u] = Left(members[o][u])]
        /\ members[o] \in [Users -> MemberRows] /\ members[o][v] \in MemberRows
    BY <1>0 DEF Delete, TypeOK
  <2>2. members'[o][v] \in {members[o][v], Left(members[o][v])}
    BY <2>1
  <2>3. CASE members[o][v].status \in {"active", "suspended"}
    <3>1. Left(members[o][v]) \in MemberRows /\ Left(members[o][v]).status = "removed"
      <4>1. PICK m \in MemberRows : m = members[o][v]
        BY <2>1
      <4>2. PICK n \in Nat : n = m.version + 1
        BY DEF MemberRows
      <4>3. Left(m) = [m EXCEPT !.status = "removed", !.version = n]
        BY <2>3, <4>1, <4>2 DEF Left
      <4>4. QED
        BY <4>1, <4>3 DEF MemberRows
    <3>2. QED
      BY <2>1, <2>2, <2>3, <3>1
  <2>4. CASE members[o][v].status \notin {"active", "suspended"}
    BY <2>1, <2>2, <2>4 DEF Left
  <2>5. QED
    BY <2>3, <2>4
<1>8. members' \in [Orgs -> [Users -> MemberRows]]
  <2>1. \A o \in Orgs : members'[o] = [v \in Users |-> members'[o][v]]
    BY <1>0 DEF Delete, TypeOK
  <2>2. \A o \in Orgs : members'[o] \in [Users -> MemberRows]
    BY <1>7, <2>1
  <2>3. QED
    BY <2>2 DEF Delete
<1>9. Shape' /\ Clocks' /\ OneWaits' /\ Released' /\ Confirmable' /\ Lasting
  <2>1. \A v \in Ids : v \in Users /\ v \in Orgs
    BY DEF Users, Orgs
  <2>2. QED
    BY <1>1, <1>3, <1>4, <1>5, <1>6, <1>7, <1>8, <2>1, Ending DEF Hosts
<1>10. MembersWithinLimit'
  <2>1. \A o \in Orgs : Active(o)' \subseteq Active(o)
    BY <1>7 DEF Active
  <2>2. QED
    BY <2>1, Places
<1>11. HeldOnce'
  BY <1>1, <1>3, <1>4, <1>6, <1>9, Holding
<1>12. QED
  BY <1>9, <1>10, <1>11


-----------------------------------------------------------------------------
(* The invariant *)

LEMMA Initially == ASSUME Init PROVE Inv
<1> USE DEF Init, PeopleInit
<1>1. PICK first \in Beginnings :
         /\ users = [u \in Users |->
                       IF u \in Founders THEN [status |-> "active", email |-> first.email[u]]
                       ELSE NoUser]
         /\ members = [o \in Orgs |-> [u \in Users |->
                         IF o \in Bases /\ u \in Founders THEN first.members[o][u]
                         ELSE NoMember]]
  OBVIOUS
<1>2. /\ first.email \in [Founders -> Addresses]
      /\ first.members \in [Bases -> [Founders -> MemberRows]]
      /\ \A u, v \in Founders :
            first.email[u] = first.email[v] => u = v \/ first.email[u] = NoEmail
  BY BeginningsAssumption
<1>3. NoUser \in UserRows /\ NoMember \in MemberRows
  BY DEF NoUser, NoMember, UserRows, MemberRows, Addresses, Roles
<1>4. users \in [Users -> UserRows]
  BY <1>1, <1>2, <1>3 DEF UserRows
<1>5. members \in [Orgs -> [Users -> MemberRows]]
  BY <1>1, <1>2, <1>3
<1>6. TypeOK
  BY <1>4, <1>5, PeopleAssumption DEF TypeOK, OrgStates
<1>7. \A i \in Ids : i \in Users /\ i \notin Founders /\ i \notin Bases
  BY PeopleAssumption DEF Users, Ids
<1>8. NothingYet
  BY <1>1, <1>7 DEF NothingYet, InFlight, NoCall, NoUser, NoMember, Orgs
<1>9. NoCallYet /\ Pointers /\ Standing /\ Clocks /\ Released /\ Confirmable
  BY DEF NoCallYet, Pointers, Standing, Clocks, Released, Confirmable, NoCall, Timed
<1>10. Hosts
  BY <1>1 DEF Hosts, NoCall, NoRow, NoMember
<1>11. OneWaits
  BY DEF OneWaits, Unsettled, Kept, NoRow
<1>12. HeldOnce
  <2>1. \A e \in Emails : Reserving(e, now) = {} /\ Pending(e, now) = {}
    BY DEF Reserving, Pending, Kept, NoRow
  <2>2. ASSUME NEW e \in Emails, NEW u \in Own(e) PROVE u \in Founders /\ first.email[u] = e
    BY <1>1, <2>2, PeopleAssumption DEF Own, NoUser
  <2>3. \A e \in Emails : \A u, v \in Own(e) : u = v
    BY <1>2, <2>2, PeopleAssumption
  <2>4. QED
    BY <2>1, <2>3 DEF HeldOnce, Holders
<1>13. MembersWithinLimit
  <2>1. ASSUME NEW o \in Orgs PROVE Cardinality(Active(o)) <= MemberLimit
    <3>1. CASE o \in Bases
      <4>1. Active(o) = {u \in Founders : first.members[o][u].status = "active"}
        BY <1>1, <2>1, <3>1 DEF Active, NoMember, Users
      <4>2. QED
        BY <3>1, <4>1, LimitsAssumption
    <3>2. CASE o \notin Bases
      <4>1. Active(o) = {}
        BY <1>1, <2>1, <3>2 DEF Active, NoMember
      <4>2. QED
        BY <4>1, FS_EmptySet, LimitsAssumption
    <3>3. QED
      BY <3>1, <3>2
  <2>2. QED
    BY <2>1 DEF MembersWithinLimit
<1>14. QED
  BY <1>6, <1>8, <1>9, <1>10, <1>11, <1>12, <1>13 DEF Inv, Shape

LEMMA Stepwise == ASSUME Inv, Next PROVE Inv' /\ Lasting
<1>1. CASE Tick
  BY <1>1, Ticking
<1>2. ASSUME NEW i \in Ids,
             Addressing(i) \/ Inviting(i) \/ Managing(i) \/ GiveUp(i) \/ Prune(i)
      PROVE  Inv' /\ Lasting
  <2>1. CASE Addressing(i)
    BY <2>1, Starts, Lessening, Inserting, Verifying, Releasing, Requesting, Confirming
       DEF Addressing
  <2>2. CASE Inviting(i)
    BY <2>2, Starts, Lessening, InvitingSafely, Joining, JoiningNew DEF Inviting
  <2>3. CASE Managing(i)
    BY <2>3, Starts, Lessening, Updating, Deleting DEF Managing
  <2>4. QED
    BY <1>2, <2>1, <2>2, <2>3, Lessening
<1>3. QED
  BY <1>1, <1>2 DEF Next

LEMMA Stuttering == ASSUME Inv, UNCHANGED vars PROVE Inv'
  BY DEF Inv, Shape, TypeOK, NothingYet, InFlight, NoCallYet, Pointers, Finds, Hosts, Standing,
         Clocks, OneWaits, Unsettled, Kept, Released, Confirmable, HeldOnce, Holders, Own,
         Reserving, Pending, Valid, MembersWithinLimit, Active, vars, people

LEMMA Invariance == Spec => []Inv
<1>1. Init => Inv
  BY Initially
<1>2. Inv /\ [Next]_vars => Inv'
  BY Stepwise, Stuttering
<1>3. QED
  BY <1>1, <1>2, PTL DEF Spec

(* Every table and every request in flight has its shape.                  *)
THEOREM Typing == Spec => []TypeOK
<1>1. Inv => TypeOK
  BY DEF Inv, Shape
<1>2. QED
  BY <1>1, Invariance, PTL

(* No organization has more active members than its limit.                 *)
THEOREM Limited == Spec => []MembersWithinLimit
<1>1. Inv => MembersWithinLimit
  BY DEF Inv
<1>2. QED
  BY <1>1, Invariance, PTL

(* No address is held twice, over the users and the three tables of those  *)
(* who want one.                                                           *)
THEOREM HoldersAreOne == Spec => []EmailHeldOnce
<1>1. ASSUME Inv, NEW e \in Emails PROVE Cardinality(Holders(e)) <= 1
  <2>1. CASE Holders(e) = {}
    BY <2>1, FS_EmptySet
  <2>2. ASSUME NEW x \in Holders(e) PROVE Cardinality(Holders(e)) <= 1
    <3>1. Holders(e) = {x}
      BY <1>1, <2>2 DEF Inv, HeldOnce
    <3>2. QED
      BY <3>1, FS_Singleton
  <2>3. QED
    BY <2>1, <2>2
<1>2. Inv => EmailHeldOnce
  BY <1>1 DEF EmailHeldOnce
<1>3. QED
  BY <1>2, Invariance, PTL

(* What was verified, confirmed, accepted or revoked stays so.             *)
THEOREM LinksAreSpent == Spec => LinksWorkOnce
<1>1. Inv /\ [Next]_vars =>
         [\A r \in Ids : rows[r].state \in {"done", "revoked"} => rows'[r] \in {rows[r], NoRow}]_vars
  BY Stepwise DEF Lasting
<1>2. QED
  BY <1>1, Invariance, PTL DEF Spec, LinksWorkOnce


(* Only an accepted invitation, claimed with its last link, or the         *)
(* registration of an own organization makes a member.                     *)
THEOREM MembersAreInvited == Spec => JoinsByInvitation
<1> DEFINE Entitled(o, u) ==
             \/ o = u /\ orgs[o] = "none"
             \/ \E r \in Ids, i \in Ids :
                  /\ rows[r].state = "live" /\ rows'[r].state = "done"
                  /\ rows[r].kind = "invitation" /\ rows[r].org = o
                  /\ rows[r].role = members'[o][u].role
                  /\ calls[i].pc \in {"join", "joinNew"} /\ calls[i].row = r
                  /\ calls[i].token = rows[r].token
<1>1. ASSUME Inv, Next, NEW o \in Orgs, NEW u \in Users,
             members[o][u].status \in {"none", "removed"}, members'[o][u].status = "active"
      PROVE  Entitled(o, u)
  <2> USE DEF Inv, Shape
  <2>1. PICK i \in Ids : Verify(i) \/ Join(i) \/ JoinNew(i) \/ UpdateMember(i) \/ Delete(i)
    <3>1. members' # members
      BY <1>1
    <3>2. QED
      BY <1>1, <3>1 DEF Next, Tick, Addressing, Inviting, Managing, GiveUp, Prune, people,
         StartRegister, CheckRegister, WithdrawRegistration, InsertRegistration,
         StartResend, CheckResend, DropRegistration, RenewRegistration, StartVerify,
         StartRequest, ReleaseExpired, Request, StartConfirm, Confirm,
         StartInvite, Invite, StartReinvite, Reinvite, StartRevoke, Revoke, StartJoin,
         StartJoinNew, StartMember, StartDelete, CheckOwners, CheckWorkspace
  <2>2. CASE Verify(i)
    <3>1. members' # members
      BY <1>1
    <3>2. members' = [members EXCEPT ![i][i] =
                        [status |-> "active", role |-> "owner", version |-> 0]]
      BY <2>2, <3>1 DEF Verify, people
    <3>3. o = i /\ u = i
      BY <1>1, <3>2 DEF TypeOK
    <3>4. orgs[i] = "none"
      BY <1>1, <2>2 DEF Verify, NothingYet, InFlight
    <3>5. QED
      BY <3>3, <3>4
  <2>3. CASE Join(i)
    <3> DEFINE r == calls[i].row
    <3>1. members' # members
      BY <1>1
    <3>2. /\ Claims(r, calls[i].token, calls[i].at)
          /\ rows' = [rows EXCEPT ![r].state = "done"]
          /\ Enter(rows[r].org, calls[i].user, rows[r].role)
      BY <2>3, <3>1 DEF Join
    <3>3. r \in Ids /\ calls[i].pc = "join" /\ rows[r].state = "live"
             /\ calls[i].token = rows[r].token
      BY <1>1, <2>3, <3>2, CallFields DEF Join, Claims, Valid
    <3>4. rows[r] \in Invitations
      BY <1>1, <3>3, RowFields DEF Pointers, Finds
    <3>5. rows'[r] = [rows[r] EXCEPT !.state = "done"]
      BY <1>1, <3>2, <3>3 DEF TypeOK
    <3>6. rows'[r].state = "done" /\ rows[r].kind = "invitation"
      BY <3>4, <3>5 DEF Invitations
    <3>7. rows[r].org = o /\ members'[o][u].role = rows[r].role
      <4>1. PICK row : /\ row.status = "active" /\ row.role = rows[r].role
                       /\ members' = [members EXCEPT ![rows[r].org][calls[i].user] = row]
        BY <3>2 DEF Enter
      <4>2. QED
        BY <1>1, <4>1 DEF TypeOK
    <3>8. QED
      BY <3>3, <3>6, <3>7
  <2>4. CASE JoinNew(i)
    <3>1. members' # members
      BY <1>1
    <3>2. MayJoinNew(i) /\ Nameable(rows[calls[i].row].org, i)
      BY <2>4, <3>1 DEF JoinNew
    <3>3. calls[i].pc = "joinNew" /\ calls[i].row \in Ids /\ rows[calls[i].row].state = "live"
      BY <1>1, <2>4, <3>2, CallFields DEF JoinNew, MayJoinNew, Claims, Valid
    <3>4. rows[calls[i].row] \in Invitations
      BY <1>1, <3>3, RowFields DEF Pointers, Finds
    <3>5. QED
      BY <1>1, <3>2, <3>3, <3>4 DEF NothingYet, InFlight, Nameable, Invitations
  <2>5. CASE UpdateMember(i)
    <3>1. members' # members
      BY <1>1
    <3>2. PICK p \in Orgs, v \in Users :
             /\ \E row : members' = [members EXCEPT ![p][v] = row]
             /\ members[p][v].status \in {"active", "suspended"}
      BY <1>1, <2>5, <3>1, CallFields DEF UpdateMember, Standing
    <3>3. QED
      BY <1>1, <3>2 DEF TypeOK
  <2>6. CASE Delete(i)
    <3>1. /\ members'[o] = [members[o] EXCEPT ![calls[i].user] = Left(members[o][calls[i].user])]
          /\ members[o] \in [Users -> MemberRows] /\ members[o][u] \in MemberRows
      BY <1>1, <2>6 DEF Delete, TypeOK
    <3>2. members'[o][u] \in {members[o][u], Left(members[o][u])}
      BY <3>1
    <3>3. QED
      BY <1>1, <3>2 DEF Left
  <2>7. QED
    BY <2>1, <2>2, <2>3, <2>4, <2>5, <2>6
<1>2. Inv /\ [Next]_vars =>
         [\A o \in Orgs, u \in Users :
            members[o][u].status \in {"none", "removed"} /\ members'[o][u].status = "active" =>
               Entitled(o, u)]_vars
  BY <1>1
<1>3. QED
  BY <1>2, Invariance, PTL DEF Spec, JoinsByInvitation

(* What scripts/test-account-lifecycle-v2.mjs:653 says and the code does   *)
(* not do: that an accepted invitation makes a member.  Whoever has no row *)
(* in an organization gets none but in the one registered with the account *)
(* itself: the claim of an invitation names the acceptor before the row is *)
(* inserted, and the trigger of migration 0017 refuses it.                 *)
THEOREM NewcomersAreRefused ==
    Spec => [][\A o \in Orgs, u \in Users :
                 members[o][u].status = "none" /\ members'[o][u].status # "none" => o = u]_vars
<1>1. ASSUME Inv, Next, NEW o \in Orgs, NEW u \in Users,
             members[o][u].status = "none", members'[o][u].status # "none"
      PROVE  o = u
  <2> USE DEF Inv, Shape
  <2>1. PICK i \in Ids : Verify(i) \/ Join(i) \/ JoinNew(i) \/ UpdateMember(i) \/ Delete(i)
    <3>1. members' # members
      BY <1>1
    <3>2. QED
      BY <1>1, <3>1 DEF Next, Tick, Addressing, Inviting, Managing, GiveUp, Prune, people,
         StartRegister, CheckRegister, WithdrawRegistration, InsertRegistration,
         StartResend, CheckResend, DropRegistration, RenewRegistration, StartVerify,
         StartRequest, ReleaseExpired, Request, StartConfirm, Confirm,
         StartInvite, Invite, StartReinvite, Reinvite, StartRevoke, Revoke, StartJoin,
         StartJoinNew, StartMember, StartDelete, CheckOwners, CheckWorkspace
  <2>2. CASE Verify(i)
    <3>1. members' = [members EXCEPT ![i][i] =
                        [status |-> "active", role |-> "owner", version |-> 0]]
      BY <1>1, <2>2 DEF Verify, people
    <3>2. QED
      BY <1>1, <3>1 DEF TypeOK
  <2>3. CASE Join(i)
    <3> DEFINE r == calls[i].row
    <3>1. /\ Nameable(rows[r].org, calls[i].user)
          /\ \E row : members' = [members EXCEPT ![rows[r].org][calls[i].user] = row]
      BY <1>1, <2>3 DEF Join, Enter
    <3>2. QED
      BY <1>1, <3>1 DEF Nameable, TypeOK
  <2>4. CASE JoinNew(i)
    <3> DEFINE r == calls[i].row
    <3>1. /\ Nameable(rows[r].org, i)
          /\ \E row : members' = [members EXCEPT ![rows[r].org][i] = row]
      BY <1>1, <2>4 DEF JoinNew, Enter
    <3>2. QED
      BY <1>1, <3>1 DEF Nameable, TypeOK
  <2>5. CASE UpdateMember(i)
    <3>1. PICK p \in Orgs, v \in Users :
             /\ \E row : members' = [members EXCEPT ![p][v] = row]
             /\ members[p][v].status \in {"active", "suspended"}
      BY <1>1, <2>5, CallFields DEF UpdateMember, Standing
    <3>2. QED
      BY <1>1, <3>1 DEF TypeOK
  <2>6. CASE Delete(i)
    <3>1. /\ members'[o] = [members[o] EXCEPT ![calls[i].user] = Left(members[o][calls[i].user])]
          /\ members[o] \in [Users -> MemberRows] /\ members[o][u] \in MemberRows
      BY <1>1, <2>6 DEF Delete, TypeOK
    <3>2. members'[o][u] \in {members[o][u], Left(members[o][u])}
      BY <3>1
    <3>3. QED
      BY <1>1, <3>2 DEF Left
  <2>7. QED
    BY <2>1, <2>2, <2>3, <2>4, <2>5, <2>6
<1>2. Inv /\ [Next]_vars =>
         [\A o \in Orgs, u \in Users :
            members[o][u].status = "none" /\ members'[o][u].status # "none" => o = u]_vars
  BY <1>1
<1>3. QED
  BY <1>2, Invariance, PTL DEF Spec

(* Managers, whatever they do at once, leave an organization an owner.     *)
THEOREM OwnersRemain == Spec => ManagersKeepAnOwner
<1>1. ASSUME Inv, Next, NEW o \in Orgs, Owners(o) # {}, Owners(o)' = {}
      PROVE  \E i \in Ids : calls[i].pc = "delete" /\ calls'[i].pc = "none"
  <2> USE DEF Inv, Shape
  <2>1. PICK w \in Users : members[o][w].status = "active" /\ members[o][w].role = "owner"
    BY <1>1 DEF Owners
  <2>2. members'[o] # members[o]
    BY <1>1, <2>1 DEF Owners
  <2>3. PICK i \in Ids : Verify(i) \/ Join(i) \/ JoinNew(i) \/ UpdateMember(i) \/ Delete(i)
    BY <1>1, <2>2 DEF Next, Tick, Addressing, Inviting, Managing, GiveUp, Prune, people,
         StartRegister, CheckRegister, WithdrawRegistration, InsertRegistration,
         StartResend, CheckResend, DropRegistration, RenewRegistration, StartVerify,
         StartRequest, ReleaseExpired, Request, StartConfirm, Confirm,
         StartInvite, Invite, StartReinvite, Reinvite, StartRevoke, Revoke, StartJoin,
         StartJoinNew, StartMember, StartDelete, CheckOwners, CheckWorkspace
  <2>4. ASSUME \A v \in Users : members[o][v].status = "active" => members'[o][v] = members[o][v]
        PROVE  FALSE
    BY <1>1, <2>1, <2>4 DEF Owners
  <2>5. CASE Verify(i)
    <3>1. members' = [members EXCEPT ![i][i] =
                        [status |-> "active", role |-> "owner", version |-> 0]]
      BY <2>2, <2>5 DEF Verify, people
    <3>2. members[i][i].status = "none" /\ i \in Users
      BY <1>1, <2>5 DEF Verify, NothingYet, InFlight, Orgs, Users
    <3>3. QED
      BY <1>1, <2>4, <3>1, <3>2 DEF TypeOK
  <2>6. CASE Join(i)
    <3> DEFINE p == rows[calls[i].row].org
               v == calls[i].user
    <3>1. members[p][v].status = "removed" /\ Enter(p, v, rows[calls[i].row].role)
      BY <2>2, <2>6 DEF Join
    <3> HIDE DEF p, v
    <3>2. \E row : members' = [members EXCEPT ![p][v] = row]
      BY <3>1 DEF Enter
    <3>3. QED
      BY <1>1, <2>4, <3>1, <3>2 DEF TypeOK
  <2>7. CASE JoinNew(i)
    <3>1. MayJoinNew(i) /\ Nameable(rows[calls[i].row].org, i)
      BY <2>2, <2>7 DEF JoinNew
    <3>2. calls[i].pc = "joinNew" /\ calls[i].row \in Ids /\ rows[calls[i].row].state = "live"
      BY <1>1, <2>7, <3>1, CallFields DEF JoinNew, MayJoinNew, Claims, Valid
    <3>3. rows[calls[i].row] \in Invitations
      BY <1>1, <3>2, RowFields DEF Pointers, Finds
    <3>4. QED
      BY <1>1, <3>1, <3>2, <3>3 DEF NothingYet, InFlight, Nameable, Invitations
  <2>8. CASE UpdateMember(i)
    <3>1. PICK v \in Users, row \in MemberRows :
             /\ members' = [members EXCEPT ![o][v] = row]
             /\ Owners(o) = {v} => row.status = "active" /\ row.role = "owner"
      <4>1. PICK p \in Orgs, v \in Users, role \in Roles,
                 status \in {"active", "suspended", "removed"} :
               /\ p = calls[i].org /\ v = calls[i].user
               /\ role = calls[i].role /\ status = calls[i].status
        BY <1>1, <2>8, CallFields DEF UpdateMember
      <4>2. [status |-> status, role |-> role, version |-> members[p][v].version + 1] \in MemberRows
        BY <1>1 DEF TypeOK, MemberRows
      <4>3. PICK row \in MemberRows :
               row = [status |-> status, role |-> role, version |-> members[p][v].version + 1]
        BY <4>2
      <4>4. /\ members' = [members EXCEPT ![p][v] = row]
            /\ Owners(p) = {v} => status = "active" /\ role = "owner"
        BY <2>2, <2>8, <4>1, <4>3 DEF UpdateMember, LastOwner
      <4>5. p = o
        BY <1>1, <2>2, <4>4 DEF TypeOK
      <4>6. QED
        BY <4>3, <4>4, <4>5
    <3>2. /\ members'[o][v] = row
          /\ \A x \in Users \ {v} : members'[o][x] = members[o][x]
      BY <1>1, <3>1 DEF TypeOK
    <3>3. QED
      BY <1>1, <3>1, <3>2 DEF Owners
  <2>9. CASE Delete(i)
    BY <1>1, <2>9, Ends DEF Delete, NoCall
  <2>10. QED
    BY <2>3, <2>5, <2>6, <2>7, <2>8, <2>9
<1>2. Inv /\ [Next]_vars =>
         [\A o \in Orgs : Owners(o) # {} /\ Owners(o)' = {} =>
            \E i \in Ids : calls[i].pc = "delete" /\ calls'[i].pc = "none"]_vars
  <2>1. UNCHANGED vars => \A o \in Orgs : Owners(o)' = Owners(o)
    BY DEF vars, people, Owners
  <2>2. QED
    BY <1>1, <2>1
<1>3. QED
  BY <1>2, Invariance, PTL DEF Spec, ManagersKeepAnOwner
=============================================================================
