------------------------------ MODULE MCFunding ----------------------------
(***************************************************************************)
(* Instances of Funding, with amounts in tenths of a cent.  Every invoice  *)
(* costs 2 cents.  u1 owns 5, enough to be charged twice, u2 owns 3,       *)
(* enough to be charged once, u3 owns 1; a user outside Registered has no  *)
(* account.  u3 provides i1 and u1 provides i2, so each invoice has a user *)
(* who may not fund it.                                                    *)
(***************************************************************************)
EXTENDS Funding

CONSTANTS i1, i2, u1, u2, u3, u4, c1, c2

MCProvider == [i \in Invoices |-> IF i = i1 THEN u3 ELSE u1]
MCAmount == [i \in Invoices |-> 20]
MCOpening == [u \in Users |-> CASE u \notin Registered -> 0
                               [] u = u1 -> 50
                               [] u = u2 -> 30
                               [] OTHER -> 10]

OneOf(kinds) == [kind \in FaultKinds |-> IF kind \in kinds THEN 1 ELSE 0]

NoFaults == OneOf({})

\* The invoices service restarts under a new group name, handlers and calls
\* fail halfway, messages are lost.
Replay == OneOf({"invoice_crash", "call", "job", "drop", "resend"})

OneUserCrash == OneOf({"user_crash"})
=============================================================================
