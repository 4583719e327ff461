--------------------------- MODULE MCUserService ---------------------------
(***************************************************************************)
(* Instances of UserService, with amounts in tenths of a cent.  Every      *)
(* invoice costs 2 cents of the 3 that u1 owns, so u1 can pay once; u2 has *)
(* no account.  In the run about rounding the amount is a cent and a half. *)
(***************************************************************************)
EXTENDS UserService

CONSTANTS i1, i2, u1, u2

MCProvider == [i \in Invoices |-> u2]
MCAmount == [i \in Invoices |-> 20]
SubCentAmount == [i \in Invoices |-> 15]
MCOpening == [u \in Users |-> IF u = u1 THEN 30 ELSE 0]

\* What the one UpdateUser of a run writes: a cent of debt, or the opening.
DebtOrOpening == {-10, 30}

NoFaults == [kind \in FaultKinds |-> 0]

\* Every fault of the users service, each once.
UserFaults ==
    [kind \in FaultKinds |->
        IF kind \in {"db", "begin", "commit", "offset", "user_crash",
                     "resend", "drop"} THEN 1 ELSE 0]
=============================================================================
