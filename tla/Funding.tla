------------------------------- MODULE Funding -----------------------------
(***************************************************************************)
(* The funding saga: services/invoices and services/users, each with its   *)
(* own database, talking through the two Kafka topics.                     *)
(*                                                                         *)
(*   Fund         new -> pending_fund, InvoiceUpdated(pending_fund)        *)
(*   users        holds the amount, BalanceReserved, or                    *)
(*                InsufficientBalance / FunderNotFound                     *)
(*   invoices     pending_fund -> funded, InvoiceUpdated(funded), or       *)
(*                pending_fund -> new, InvoiceUpdated(new)                 *)
(*   users        settles the hold on InvoiceUpdated(funded)               *)
(***************************************************************************)
EXTENDS UserConsumer, InvoiceService

vars == <<brokerVars, userVars, invoiceVars>>

\* The variables of each service other than its producer's buffer.
userState == <<store, progress, uPc, uRead, uTx, uReply>>
invoiceState == <<rows, creation, call, jobs, iPos, iCommitted>>

Init ==
    /\ BrokerInit
    /\ ConsumerInit
    /\ InvoiceInit

UserMoves == ConsumerNext /\ UNCHANGED <<invoiceTopic, userTopic, invoiceVars>>

InvoiceMoves == InvoiceNext /\ UNCHANGED <<invoiceTopic, userTopic, userVars>>

BrokerMoves == BrokerNext /\ UNCHANGED <<userState, invoiceState>>

Next ==
    \/ UserMoves
    \/ InvoiceMoves
    \/ BrokerMoves

Spec == Init /\ [][Next]_vars

TypeOK ==
    /\ BrokerTypeOK
    /\ ConsumerTypeOK
    /\ InvoiceTypeOK

----------------------------------------------------------------------------
(* Fairness: what the two runtimes and the client libraries keep doing.     *)
(* Requests of clients, faults and restarts are not among it.               *)

UserFair ==
    WF_vars(ConsumerStep /\ UNCHANGED <<invoiceTopic, userTopic, invoiceVars>>)

InvoiceFair ==
    /\ \A c \in Calls :
         WF_vars(FundStep(c) /\ UNCHANGED <<invoiceTopic, userTopic, userVars>>)
    /\ WF_vars(StartJob /\ UNCHANGED <<invoiceTopic, userTopic, userVars>>)
    /\ WF_vars((\E j \in jobs : JobStep(j))
                 /\ UNCHANGED <<invoiceTopic, userTopic, userVars>>)

BrokerFair ==
    /\ WF_vars(DeliverInvoice /\ UNCHANGED <<userState, invoiceState>>)
    /\ WF_vars(DeliverUser /\ UNCHANGED <<userState, invoiceState>>)

FairSpec == Spec /\ UserFair /\ InvoiceFair /\ BrokerFair

----------------------------------------------------------------------------
(* Safety.                                                                  *)

\* An invoice is only ever funded with somebody's money: whenever its row
\* says funded, some user holds, or has paid, its amount.  It survives
\* racing Fund calls, handlers in any order, lost, repeated and redelivered
\* messages, failing statements and restarts of both services.
FundedHasPayer ==
    \A i \in Invoices :
        rows[i].status = "funded" => \E u \in Users : Charged(u, i) >= 1

\* The investor named by a funded invoice is the one who paid
\* (e2e-tests/src/test/invoice.test.js:115-135).
FundedPaid ==
    \A i \in Invoices :
        rows[i].status = "funded" => /\ rows[i].investor \in Users
                                     /\ Charged(rows[i].investor, i) >= 1

\* Nobody is charged twice for one invoice ("balance ... equal
\* investor.balance - createdInvoice.amount", invoice.test.js:134).
ChargedOnce == \A u \in Users, i \in Invoices : Charged(u, i) <= 1

\* Money is held for an invoice only while that user's funding of it is
\* pending or has succeeded: no hold is left behind on an invoice that is
\* free again or that another investor has.
NoStrandedHold ==
    \A u \in Users, i \in Invoices :
        held[u][i] > 0 => /\ rows[i].status \in {"pending_fund", "funded"}
                          /\ rows[i].investor = u

\* The users service passes over a ReservationNotFound only when the user it
\* names, unless he is the investor after all, holds nothing for the invoice
\* ("check if held balance, otherwise just log", controllers.go:46).
NotFoundUnheld ==
    uPc = "mark" /\ Current.type = "ReservationNotFound"
                /\ rows[Current.invoice].investor # Current.user
      => held[Current.user][Current.invoice] = 0

\* A funded invoice stays funded by the same investor.
FundedFinal ==
    [][\A i \in Invoices :
          rows[i].status = "funded" => rows'[i] = rows[i]]_rows

----------------------------------------------------------------------------
(* Liveness.                                                                *)

\* A Fund request that was accepted is answered: the invoice leaves
\* pending_fund (invoice.test.js:89-136 waits for it).
PendingResolves ==
    \A i \in Invoices :
        rows[i].status = "pending_fund" ~> rows[i].status # "pending_fund"

\* Money that is held for an invoice is settled.
HoldSettles ==
    \A u \in Users, i \in Invoices : held[u][i] > 0 ~> held[u][i] = 0

----------------------------------------------------------------------------
(* The two services implement FundingSaga.  A payment is held while its row *)
(* is in held_balance and settled once funded() has deleted it; everything  *)
(* else, the messages included, is invisible.                               *)

Payment(u, i) == IF held[u][i] > 0 THEN "held"
                 ELSE IF spent[u][i] > 0 THEN "settled" ELSE "none"

Saga == INSTANCE FundingSaga WITH
            status   <- [i \in Invoices |-> rows[i].status],
            investor <- [i \in Invoices |-> rows[i].investor],
            purse    <- balance,
            payment  <- [u \in Users |-> [i \in Invoices |-> Payment(u, i)]]

\* Clients, handlers and messages interleave freely; each step that changes
\* a database is one step of the saga, taken under the saga's guard.
ImplementsSaga == Saga!SagaSpec
=============================================================================
