---------------------------- MODULE FundingSaga ----------------------------
(***************************************************************************)
(* What the two services promise together, as if they were one program     *)
(* with one database: an invoice is offered, funded by one investor who    *)
(* pays for it exactly once, or offered again when that investor cannot    *)
(* pay.  There are no messages, no handlers and no restarts.               *)
(***************************************************************************)
EXTENDS Integers

CONSTANTS Users, NoUser, Invoices, Provider, Amount, Registered, Opening

VARIABLES status,    \* of each invoice: none, new, pending_fund, funded
          investor,  \* of each invoice
          purse,     \* what each user can still spend
          payment    \* of each user for each invoice: none, held, settled

sagaVars == <<status, investor, purse, payment>>

CanPay(u, i) == u \in Registered /\ purse[u] >= Amount[i]

SagaInit ==
    /\ status = [i \in Invoices |-> "none"]
    /\ investor = [i \in Invoices |-> NoUser]
    /\ purse = Opening
    /\ payment = [u \in Users |-> [i \in Invoices |-> "none"]]

Offer(i) ==
    /\ status[i] = "none"
    /\ status' = [status EXCEPT ![i] = "new"]
    /\ UNCHANGED <<investor, purse, payment>>

Invest(i, u) ==
    /\ status[i] = "new"
    /\ u # Provider[i]
    /\ status' = [status EXCEPT ![i] = "pending_fund"]
    /\ investor' = [investor EXCEPT ![i] = u]
    /\ UNCHANGED <<purse, payment>>

Hold(i, u) ==
    /\ status[i] = "pending_fund"
    /\ investor[i] = u
    /\ payment[u][i] = "none"
    /\ CanPay(u, i)
    /\ purse' = [purse EXCEPT ![u] = @ - Amount[i]]
    /\ payment' = [payment EXCEPT ![u][i] = "held"]
    /\ UNCHANGED <<status, investor>>

Refuse(i, u) ==
    /\ status[i] = "pending_fund"
    /\ investor[i] = u
    /\ payment[u][i] = "none"
    /\ ~CanPay(u, i)
    /\ status' = [status EXCEPT ![i] = "new"]
    /\ investor' = [investor EXCEPT ![i] = NoUser]
    /\ UNCHANGED <<purse, payment>>

Confirm(i, u) ==
    /\ status[i] = "pending_fund"
    /\ investor[i] = u
    /\ payment[u][i] = "held"
    /\ status' = [status EXCEPT ![i] = "funded"]
    /\ UNCHANGED <<investor, purse, payment>>

Settle(i, u) ==
    /\ status[i] = "funded"
    /\ investor[i] = u
    /\ payment[u][i] = "held"
    /\ payment' = [payment EXCEPT ![u][i] = "settled"]
    /\ UNCHANGED <<status, investor, purse>>

SagaNext ==
    \E i \in Invoices :
        \/ Offer(i)
        \/ \E u \in Users : \/ Invest(i, u)
                            \/ Hold(i, u)
                            \/ Refuse(i, u)
                            \/ Confirm(i, u)
                            \/ Settle(i, u)

SagaSpec == SagaInit /\ [][SagaNext]_sagaVars
=============================================================================
