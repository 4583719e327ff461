----------------------------- MODULE MCInvoiceApi --------------------------
(***************************************************************************)
(* Instances of InvoiceApi.  The invoice costs 2 cents and u3 provides it; *)
(* u1 owns 5 cents, u2 owns 1 (or 5, where two investors compete), and u4  *)
(* has no account.                                                         *)
(***************************************************************************)
EXTENDS InvoiceApi, TLC

CONSTANTS i1, u1, u2, u3, u4, c1, c2

MCRequests == Calls \cup Invoices
MCProvider == [i \in Invoices |-> u3]
MCAmount == [i \in Invoices |-> 20]
MCOpening == [u \in Users |-> CASE u = u1 -> 50
                               [] u = u2 -> 10
                               [] OTHER -> 0]

OneOf(kinds) == [kind \in FaultKinds |-> IF kind \in kinds THEN 1 ELSE 0]

\* Two investors who can both pay, twice even.
BothCanPay == [u \in Users |-> IF u = u3 THEN 0 ELSE 50]

\* Then nothing distinguishes the two, or two Fund calls, but their names.
InvestorSymmetry == Permutations(Calls) \cup Permutations({u1, u2})

\* One client, who makes its next Fund call when the one before was answered.
Patient ==
    \A r \in Calls : told[r] = "idle" /\ told'[r] = "waiting"
                       => \A d \in Calls : told[d] # "waiting"

PatientSpec == ApiInit /\ [][ApiNext /\ Patient]_apiVars

NoFaults == OneOf({})
Rejection == OneOf({"call"})
Restart == OneOf({"invoice_crash"})
=============================================================================
