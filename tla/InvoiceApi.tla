----------------------------- MODULE InvoiceApi ----------------------------
(***************************************************************************)
(* The funding saga as the clients of the API see it: the gateway in front *)
(* of services/invoices, and the start-up of the process that serves it.   *)
(*                                                                         *)
(* The requests of the gateway are the Fund calls and the Create calls of  *)
(* Funding; a Create call goes by the invoice it makes.  A request reaches *)
(* the service once the gRPC server is up, whether or not its client is    *)
(* still waiting, and topic "user" is read once the consumer is ready.     *)
(***************************************************************************)
EXTENDS Funding, Gateway, InvoiceApp

ASSUME ApiAssumption ==
    /\ Requests = Calls \cup Invoices
    /\ Calls \cap Invoices = {}

apiVars == <<vars, gatewayVars, appVars>>

ApiInit == Init /\ GatewayInit /\ AppInit

Stage(r) == IF r \in Calls THEN call[r].pc ELSE creation[r]

\* What callback(null, summary), callback(err) and a dead process come to.
Results == [done |-> "ok", failed |-> "refused", lost |-> "lost"]

\* What a step of the invoices service leaves alone.
Elsewhere == UNCHANGED <<invoiceTopic, userTopic, userVars>>

\* createInvoice and fundInvoice of the gateway name the method that the
\* request is for.
CreateArrives(r) == r \in Invoices /\ (CreateRow(r) \/ CreateReject(r))
FundArrives(r) == r \in Calls /\ FundRequest(r)

\* initGRPCServer is the last step of the start-up.
ServiceReceives(r) ==
    /\ phase = "serving"
    /\ Arrive(r)
    /\ CreateArrives(r) \/ FundArrives(r)
    /\ Elsewhere
    /\ UNCHANGED appVars

ServiceAnswers(r) ==
    /\ Stage(r) \in DOMAIN Results
    /\ Tell(r, Results[Stage(r)])
    /\ UNCHANGED <<vars, appVars>>

\* No message reaches dataHandler before the consumer's ready event has
\* called subscribe and consume.
ServiceWorks ==
    /\ InvoiceWork \/ (consumerReady /\ StartJob)
    /\ Elsewhere
    /\ UNCHANGED <<gatewayVars, appVars>>

ServiceRestarts ==
    /\ InvoiceCrash
    /\ AppRestart
    /\ Elsewhere
    /\ UNCHANGED gatewayVars

ServiceStarts == AppStep /\ UNCHANGED <<vars, gatewayVars>>

GatewayMoves == GatewayStep /\ UNCHANGED <<vars, appVars>>

OthersMove == (UserMoves \/ BrokerMoves) /\ UNCHANGED <<gatewayVars, appVars>>

ApiNext ==
    \/ \E r \in Requests : ServiceReceives(r) \/ ServiceAnswers(r)
    \/ ServiceWorks
    \/ ServiceRestarts
    \/ ServiceStarts
    \/ GatewayMoves
    \/ OthersMove

ApiSpec == ApiInit /\ [][ApiNext]_apiVars

\* Each process goes on while it has something to do, and the gateway's
\* timers fire.
ServiceProgress ==
    /\ \/ consumerReady /\ StartJob
       \/ \E c \in Calls : FundStep(c)
       \/ \E j \in jobs : JobStep(j)
    /\ Elsewhere
    /\ UNCHANGED <<gatewayVars, appVars>>

ConsumerProgress ==
    /\ ConsumerStep
    /\ UNCHANGED <<invoiceTopic, userTopic, invoiceVars, gatewayVars, appVars>>

BrokerProgress ==
    /\ DeliverInvoice \/ DeliverUser
    /\ UNCHANGED <<userState, invoiceState, gatewayVars, appVars>>

DeadlineFires == (\E r \in Requests : Deadline(r)) /\ UNCHANGED <<vars, appVars>>

ApiFair ==
    /\ WF_apiVars(ServiceProgress)
    /\ WF_apiVars(ConsumerProgress)
    /\ WF_apiVars(BrokerProgress)
    /\ WF_apiVars(DeadlineFires)

FairApiSpec == ApiSpec /\ ApiFair

ApiTypeOK == TypeOK /\ GatewayTypeOK /\ AppTypeOK

----------------------------------------------------------------------------
(* Properties.                                                              *)

InTopicOrBuffer(e) ==
    \/ \E k \in 1 .. Len(invoiceTopic) : invoiceTopic[k] = e
    \/ \E k \in 1 .. Len(invoiceOut) : invoiceOut[k] = e

\* When a client is told that its Fund call succeeded, the request for the
\* money is in the topic or on its way there, as long as no producer gives
\* up and no process dies: produce() is the last promise before the answer
\* (controllers/invoice.js:87-92).
AcceptedRequested ==
    faults["drop"] = 0 /\ faults["invoice_crash"] = 0
      => \A c \in Calls :
            told[c] = "ok" => InTopicOrBuffer(
                InvoiceUpdated(call[c].invoice, call[c].investor, "pending_fund"))

\* A client who is told that its Fund call was refused is not charged for
\* the invoice, even when the update behind the refusal was applied and
\* other investors' answers meet that row; a deadline promises nothing.
RefusedNotCharged ==
    \A c \in Calls :
        /\ told[c] = "refused"
        /\ \A d \in Calls \ {c} :
             \/ told[d] = "idle"
             \/ call[d].invoice # call[c].invoice
             \/ call[d].investor # call[c].investor
        => Charged(call[c].investor, call[c].invoice) = 0

\* Calls and handlers run only in a process whose producer became ready,
\* across restarts: a handler that could not produce would leave its
\* message uncommitted (app.js:54-57).
ReadyBeforeWork ==
    jobs # {} \/ (\E c \in Calls : InProgress(c)) => producerReady /\ consumerReady

\* As long as the process lives, what was accepted is resolved and what is
\* held is settled, although no client is told of it.
FundingCompletes ==
    [](faults["invoice_crash"] = 0) => PendingResolves /\ HoldSettles

\* Every client is told something, whatever happens to its request.
EveryCallAnswered == \A r \in Requests : told[r] = "waiting" ~> told[r] # "waiting"
=============================================================================
