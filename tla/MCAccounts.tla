---------------------------- MODULE MCAccounts ----------------------------
(* Module Accounts on a small instance: three founders, two organizations  *)
(* and two addresses.  Founder a owns the first organization and b the     *)
(* second, where a was never seen; b and c have different standings in the *)
(* first one, so that the run has a second owner, and a member who comes   *)
(* back while a suspended one is activated.                                *)
EXTENDS AccountsProps, TLC

CONSTANTS a, b, c, home, other, ea, eb

Row(status, role) == [status |-> status, role |-> role, version |-> 0]

Beginning(emailA, emailB, standingB, standingC) ==
    [email |-> (a :> emailA @@ b :> emailB @@ c :> NoEmail),
     members |-> (home :> (a :> Row("active", "owner") @@ b :> standingB @@ c :> standingC)
                  @@ other :> (a :> NoMember @@ b :> Row("active", "owner") @@ c :> NoMember))]

FirstRows ==
    {Beginning(NoEmail, NoEmail, Row("active", "owner"), NoMember),
     Beginning(ea, eb, Row("suspended", "admin"), NoMember),
     Beginning(NoEmail, ea, Row("removed", "teacher"), Row("suspended", "teacher"))}

Symmetry == Permutations({ea, eb})
=============================================================================
