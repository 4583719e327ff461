-------------------------- MODULE InvoiceApiProofs -------------------------
(***************************************************************************)
(* The funding saga behind the gateway and a process that starts up and    *)
(* dies: what FundingProofs shows still holds, nothing runs in a process   *)
(* that is not ready, and a client is told "ok" only when the money was    *)
(* asked for.  Any number of users, invoices, calls and faults.            *)
(***************************************************************************)
EXTENDS InvoiceApi, FundingProofs

\* Which Kafka client of a process is ready in which step of its start.
Started ==
    /\ AppTypeOK
    /\ phase \in {"consumer", "serving"} => producerReady
    /\ phase = "serving" => consumerReady
    /\ consumerReady => producerReady

\* A Fund call that is done has queued its event, and only such a call was
\* answered "ok".
Requested ==
    /\ \A c \in Calls : told[c] = "ok" => call[c].pc = "done"
    /\ faults["drop"] = 0 /\ faults["invoice_crash"] = 0
         => \A c \in Calls :
               call[c].pc = "done" => InTopicOrBuffer(FundRequested(c))

ApiInv ==
    /\ FundingInv
    /\ GatewayTypeOK
    /\ Started
    /\ ReadyBeforeWork
    /\ Requested

----------------------------------------------------------------------------
(* The saga is still the saga.                                              *)

\* A Fund call may arrive at any time; every other step is one of Funding.
LEMMA StepOfFunding ==
    ASSUME ApiNext
    PROVE  \/ [Next]_vars
           \/ \E c \in Calls : OthersStay /\ FundRequest(c)
<1>1. ASSUME NEW r \in Requests, ServiceReceives(r)
      PROVE  \/ Next
             \/ \E c \in Calls : OthersStay /\ FundRequest(c)
  BY <1>1 DEF ServiceReceives, CreateArrives, FundArrives, Elsewhere, OthersStay,
     Next, InvoiceMoves, InvoiceNext
<1>2. ASSUME NEW r \in Requests, ServiceAnswers(r)
      PROVE  UNCHANGED vars
  BY <1>2 DEF ServiceAnswers
<1>3. CASE ServiceWorks \/ ServiceRestarts
  BY <1>3 DEF ServiceWorks, ServiceRestarts, Elsewhere, Next, InvoiceMoves,
     InvoiceNext
<1>4. CASE ServiceStarts \/ GatewayMoves \/ OthersMove
  BY <1>4 DEF ServiceStarts, GatewayMoves, OthersMove, Next
<1> QED
  BY <1>1, <1>2, <1>3, <1>4 DEF ApiNext

\* So it keeps the invariant of Funding.
LEMMA FundingKept ==
    ASSUME FundingInv, [ApiNext]_apiVars
    PROVE  FundingInv'
<1>1. CASE ApiNext
  BY <1>1, StepOfFunding, NextFunding, FundInv
<1>2. CASE UNCHANGED apiVars
  BY <1>2, NextFunding DEF apiVars
<1> QED
  BY <1>1, <1>2

----------------------------------------------------------------------------
(* The gateway and the start-up.                                            *)

\* The gateway's book-keeping, whatever the service answers.
LEMMA GatewayKept ==
    ASSUME GatewayTypeOK, [ApiNext]_apiVars
    PROVE  GatewayTypeOK'
<1> USE DEF GatewayTypeOK, gatewayVars
<1>1. ASSUME NEW r \in Requests, ServiceReceives(r) \/ ServiceAnswers(r)
      PROVE  GatewayTypeOK'
  BY <1>1 DEF ServiceReceives, CreateArrives, FundArrives, Arrive, ServiceAnswers,
     Tell, Results, Answers
<1>2. CASE GatewayMoves
  <2>1. CASE Listen \/ GatewayCrash
    BY <2>1 DEF Listen, GatewayCrash, Broken, Answers
  <2>2. ASSUME NEW r \in Requests, Forward(r) \/ LoseRequest(r) \/ Deadline(r)
        PROVE  GatewayTypeOK'
    BY <2>2 DEF Forward, LoseRequest, Deadline, Tell, Broken, Answers
  <2> QED
    BY <1>2, <2>1, <2>2 DEF GatewayMoves, GatewayStep
<1>3. CASE ServiceWorks \/ ServiceRestarts \/ ServiceStarts \/ OthersMove
  BY <1>3 DEF ServiceWorks, ServiceRestarts, ServiceStarts, OthersMove
<1> QED
  BY <1>1, <1>2, <1>3 DEF ApiNext, apiVars

\* A process passes a timer only when its client is ready.
LEMMA StartedKept ==
    ASSUME Started, [ApiNext]_apiVars
    PROVE  Started'
<1> USE DEF Started, AppTypeOK, appVars, Phases
<1>1. CASE ServiceStarts
  <2>1. CASE ProducerReady \/ ConsumerReady
    BY <2>1 DEF ProducerReady, ConsumerReady
  <2>2. CASE ProducerTimer
    <3>1. UNCHANGED <<producerReady, consumerReady>> /\ phase' \in {"consumer", "exited"}
      BY <2>2 DEF ProducerTimer, GoOn
    <3>2. phase' = "consumer" => producerReady
      BY <2>2 DEF ProducerTimer, GoOn, InTime
    <3> QED
      BY <3>1, <3>2
  <2>3. CASE ConsumerTimer
    <3>1. UNCHANGED <<producerReady, consumerReady>> /\ phase' \in {"serving", "exited"}
      BY <2>3 DEF ConsumerTimer, GoOn
    <3>2. phase = "consumer" /\ (phase' = "serving" => consumerReady)
      BY <2>3 DEF ConsumerTimer, GoOn, InTime
    <3> QED
      BY <3>1, <3>2
  <2> QED
    BY <1>1, <2>1, <2>2, <2>3 DEF ServiceStarts, AppStep
<1>2. CASE ServiceRestarts
  BY <1>2 DEF ServiceRestarts, AppRestart
<1>3. CASE UNCHANGED appVars
  BY <1>3
<1> QED
  BY <1>1, <1>2, <1>3
     DEF ApiNext, apiVars, ServiceReceives, ServiceAnswers, ServiceWorks,
         GatewayMoves, OthersMove

\* Calls and handlers begin only in a process that is ready.
LEMMA ReadyKept ==
    ASSUME FundingInv, Started, ReadyBeforeWork, [ApiNext]_apiVars
    PROVE  ReadyBeforeWork'
<1> DEFINE Busy == jobs # {} \/ (\E c \in Calls : InProgress(c))
<1>1. Busy => producerReady /\ consumerReady
  BY DEF ReadyBeforeWork
<1>2. ASSUME NEW r \in Requests, ServiceReceives(r)
      PROVE  ReadyBeforeWork'
  BY <1>2 DEF ServiceReceives, CreateArrives, FundArrives, ReadyBeforeWork,
     Started, appVars
<1>3. CASE ServiceWorks
  <2>1. UNCHANGED <<producerReady, consumerReady>>
    BY <1>3 DEF ServiceWorks, appVars
  <2>2. CASE consumerReady /\ StartJob
    BY <2>1, <2>2 DEF ReadyBeforeWork, Started
  <2>3. ASSUME NEW i \in Invoices, AnnounceRow(i)
        PROVE  ReadyBeforeWork'
    BY <1>1, <2>1, <2>3 DEF AnnounceRow, ReadyBeforeWork, InProgress
  <2>4. ASSUME NEW c \in Calls, FundStep(c) \/ FundReject(c)
        PROVE  ReadyBeforeWork'
    <3>1. InProgress(c)
      BY <2>4 DEF FundStep, FundFind, FundUpdate, FundProduce, FundReject,
         InProgress
    <3> QED
      BY <1>1, <2>1, <3>1 DEF ReadyBeforeWork
  <2>5. ASSUME NEW j \in jobs
        PROVE  ReadyBeforeWork'
    BY <1>1, <2>1, <2>5 DEF ReadyBeforeWork
  <2> QED
    BY <1>3, <2>2, <2>3, <2>4, <2>5 DEF ServiceWorks, InvoiceWork
<1>4. CASE ServiceRestarts
  <2>1. jobs' = {} /\ \A c \in Calls : ~InProgress(c)'
    BY <1>4 DEF ServiceRestarts, InvoiceCrash, InProgress, FundingInv, InvoiceTypeOK
  <2> QED
    BY <2>1 DEF ReadyBeforeWork
<1>5. CASE ServiceStarts
  <2>1. /\ UNCHANGED <<jobs, call>>
        /\ producerReady => producerReady'
        /\ consumerReady => consumerReady'
    BY <1>5 DEF ServiceStarts, vars, invoiceVars, AppStep, ProducerReady,
       ProducerTimer, ConsumerReady, ConsumerTimer
  <2> QED
    BY <1>1, <2>1 DEF ReadyBeforeWork, InProgress
<1>6. ASSUME UNCHANGED <<jobs, call, producerReady, consumerReady>>
      PROVE  ReadyBeforeWork'
  BY <1>1, <1>6 DEF ReadyBeforeWork, InProgress
<1>7. CASE OthersMove
  BY <1>6, <1>7 DEF OthersMove, UserMoves, BrokerMoves, invoiceVars, invoiceState,
     appVars
<1>8. CASE GatewayMoves \/ (\E r \in Requests : ServiceAnswers(r)) \/ UNCHANGED apiVars
  BY <1>6, <1>8 DEF GatewayMoves, ServiceAnswers, apiVars, vars, invoiceVars,
     appVars
<1> QED
  BY <1>2, <1>3, <1>4, <1>5, <1>7, <1>8 DEF ApiNext

----------------------------------------------------------------------------
(* What "ok" promises.                                                      *)

Waiting(e) == \E k \in 1 .. Len(invoiceOut) : invoiceOut[k] = e
Logged(e) == \E k \in 1 .. Len(invoiceTopic) : invoiceTopic[k] = e

\* A step of the invoices service that does not die only adds to the buffer.
LEMMA BufferGrows ==
    ASSUME invoiceOut \in Seq(InvoiceEvents), NEW e,
           \/ UNCHANGED invoiceOut
           \/ \E x \in InvoiceEvents : invoiceOut' = Append(invoiceOut, x)
    PROVE  Waiting(e) => Waiting(e)'
<1>1. CASE UNCHANGED invoiceOut
  BY <1>1 DEF Waiting
<1>2. ASSUME NEW x \in InvoiceEvents, invoiceOut' = Append(invoiceOut, x),
             NEW k \in 1 .. Len(invoiceOut), invoiceOut[k] = e
      PROVE  Waiting(e)'
  <2>1. k \in 1 .. Len(invoiceOut') /\ invoiceOut'[k] = e
    BY <1>2
  <2> QED
    BY <2>1 DEF Waiting
<1> QED
  BY <1>1, <1>2 DEF Waiting

\* A broker that loses nothing keeps every event in the topic or the buffer.
LEMMA BrokerKeeps ==
    ASSUME FundingInv, BrokerNext, faults'["drop"] = 0, NEW e, InTopicOrBuffer(e)
    PROVE  InTopicOrBuffer(e)'
<1>1. /\ invoiceOut \in Seq(InvoiceEvents) /\ invoiceTopic \in Seq(InvoiceEvents)
      /\ faults \in [FaultKinds -> Nat]
  BY DEF FundingInv, ConsumerInv, BrokerTypeOK
<1>2. CASE UNCHANGED <<invoiceOut, invoiceTopic>>
  BY <1>2 DEF InTopicOrBuffer
<1>3. CASE DropInvoice \/ DropUser
  BY <1>1, <1>3 DEF DropInvoice, DropUser, Fault, FaultKinds
<1>4. CASE DeliverInvoice \/ ResendInvoice
  <2> DEFINE x == Head(invoiceOut)
  <2>1. /\ invoiceOut # <<>> /\ invoiceTopic' = Append(invoiceTopic, x)
        /\ invoiceOut' = Tail(invoiceOut) \/ invoiceOut' = invoiceOut
    BY <1>4 DEF DeliverInvoice, ResendInvoice
  <2>2. x \in InvoiceEvents /\ x = invoiceOut[1]
    BY <1>1, <2>1
  <2> HIDE DEF x
  <2>3. /\ Len(invoiceTopic') = Len(invoiceTopic) + 1
        /\ \A k \in 1 .. Len(invoiceTopic) : invoiceTopic'[k] = invoiceTopic[k]
        /\ invoiceTopic'[Len(invoiceTopic) + 1] = x
        /\ Len(invoiceTopic) \in Nat
    BY <1>1, <2>1, <2>2
  <2>4. CASE Logged(e)
    BY <2>3, <2>4 DEF Logged, InTopicOrBuffer
  <2>5. ASSUME NEW k \in 1 .. Len(invoiceOut), invoiceOut[k] = e
        PROVE  InTopicOrBuffer(e)'
    <3>1. CASE k = 1
      BY <2>2, <2>3, <2>5, <3>1 DEF InTopicOrBuffer
    <3>2. CASE invoiceOut' = invoiceOut
      BY <2>5, <3>2 DEF InTopicOrBuffer
    <3>3. CASE k # 1 /\ invoiceOut' = Tail(invoiceOut)
      <4>1. /\ Len(invoiceOut) \in Nat
            /\ Len(invoiceOut') = Len(invoiceOut) - 1
            /\ \A m \in 1 .. Len(invoiceOut) - 1 : invoiceOut'[m] = invoiceOut[m + 1]
        BY <1>1, <2>1, <3>3
      <4>2. k - 1 \in 1 .. Len(invoiceOut') /\ invoiceOut'[k - 1] = e
        BY <2>5, <3>3, <4>1
      <4> QED
        BY <4>2 DEF InTopicOrBuffer
    <3> QED
      BY <2>1, <3>1, <3>2, <3>3
  <2> QED
    BY <2>4, <2>5 DEF InTopicOrBuffer, Logged
<1> QED
  BY <1>2, <1>3, <1>4 DEF BrokerNext, DeliverUser, ResendUser

\* Faults are counted one at a time and never forgotten.
Counted == UNCHANGED faults \/ (\E kind \in FaultKinds : Fault(kind))

\* What has not happened after a step had not happened before it.
LEMMA NoneBefore ==
    ASSUME FundingInv, Counted
    PROVE  /\ faults'["drop"] = 0 => faults["drop"] = 0
           /\ faults'["invoice_crash"] = 0 => faults["invoice_crash"] = 0
<1>1. faults \in [FaultKinds -> Nat]
  BY DEF FundingInv, ConsumerInv, BrokerTypeOK
<1>2. ASSUME NEW k \in FaultKinds
      PROVE  faults'[k] = 0 => faults[k] = 0
  <2>1. CASE UNCHANGED faults
    BY <2>1
  <2>2. ASSUME NEW kind \in FaultKinds, Fault(kind)
        PROVE  faults'[k] = IF k = kind THEN faults[k] + 1 ELSE faults[k]
    BY <1>1, <2>2 DEF Fault
  <2> QED
    BY <1>1, <2>1, <2>2 DEF Counted
<1> QED
  BY <1>2 DEF FaultKinds

\* The consumer of the users service counts its faults.
LEMMA ConsumerCounts ==
    ASSUME ConsumerNext
    PROVE  Counted
<1> USE DEF Counted, FaultKinds
<1>1. CASE Receive \/ GetInvestor \/ CheckHeld \/ BeginHold
  BY <1>1 DEF Receive, GetInvestor, CheckHeld, BeginHold
<1>2. CASE InsertHold \/ UpdateBalance
  BY <1>2 DEF InsertHold, UpdateBalance
<1>3. CASE CommitHold
  BY <1>3 DEF CommitHold
<1>4. CASE CheckFunded \/ DeleteHold \/ Outbound \/ MarkAndCommit
  BY <1>4 DEF CheckFunded, DeleteHold, Outbound, MarkAndCommit
<1>5. CASE CommitInBackground \/ UserCrash
  BY <1>5 DEF CommitInBackground, UserCrash
<1> QED
  BY <1>1, <1>2, <1>3, <1>4, <1>5 DEF ConsumerNext, ConsumerStep

\* What a step of the invoices service does to the buffer and the calls, as
\* long as the process lives: it appends at most one event, and a call that
\* becomes done has appended its own.
LEMMA WorkEffect ==
    ASSUME FundingInv, InvoiceWork
    PROVE  /\ Counted
           /\ \/ UNCHANGED invoiceOut
              \/ \E x \in InvoiceEvents : invoiceOut' = Append(invoiceOut, x)
           /\ \A c \in Calls :
                 /\ call'[c].pc = "done" =>
                       \/ call[c].pc = "done"
                       \/ invoiceOut' = Append(invoiceOut, FundRequested(c))
                 /\ call[c].pc = "done" => call'[c].pc = "done"
                 /\ FundRequested(c)' = FundRequested(c)
<1> DEFINE Appended == \/ UNCHANGED invoiceOut
                       \/ \E x \in InvoiceEvents : invoiceOut' = Append(invoiceOut, x)
<1> USE DEF Counted, FaultKinds
<1>1. ASSUME NEW i \in Invoices, AnnounceRow(i)
      PROVE  UNCHANGED call /\ Counted /\ Appended
  BY <1>1 DEF AnnounceRow, InvoiceCreated, Event, InvoiceEvents, Statuses
<1>2. ASSUME NEW j \in jobs, JobStep(j) \/ JobReject(j)
      PROVE  UNCHANGED call /\ Counted /\ Appended
  <2>1. CASE JobFind(j) \/ JobUpdate(j) \/ JobCommit(j) \/ JobReject(j)
    BY <2>1 DEF JobFind, JobUpdate, JobCommit, JobReject
  <2>2. CASE JobProduce(j) \/ JobNotFound(j)
    BY <2>2, JobTypes DEF JobProduce, JobNotFound, Outcome, Row, InvoiceUpdated,
       ReservationNotFound, Event, InvoiceEvents, Statuses
  <2> QED
    BY <1>2, <2>1, <2>2 DEF JobStep
<1>3. ASSUME NEW c \in Calls, FundStep(c) \/ FundReject(c)
      PROVE  /\ Counted
             /\ call[c].pc # "done"
             /\ \E pc : /\ call' = [call EXCEPT ![c].pc = pc]
                        /\ \/ pc # "done" /\ UNCHANGED invoiceOut
                           \/ invoiceOut' = Append(invoiceOut, FundRequested(c))
  <2>1. call[c].pc # "done"
    BY <1>3 DEF FundStep, FundFind, FundUpdate, FundProduce, FundReject, InProgress
  <2>2. CASE FundFind(c) \/ FundUpdate(c) \/ FundReject(c)
    <3>1. Counted /\ UNCHANGED invoiceOut
      BY <2>2 DEF FundFind, FundUpdate, FundReject
    <3>2. Goto(c, "update") \/ Goto(c, "failed") \/ Goto(c, "produce")
      BY <2>2 DEF FundFind, FundUpdate, FundReject
    <3> QED
      BY <2>1, <3>1, <3>2 DEF Goto
  <2>3. CASE FundProduce(c)
    BY <2>1, <2>3 DEF FundProduce, Goto
  <2> QED
    BY <1>3, <2>2, <2>3 DEF FundStep
<1>4. call \in [Calls -> [pc : CallSteps, invoice : Invoices, investor : Users]]
  BY DEF FundingInv, InvoiceTypeOK
<1>5. \A c \in Calls : FundRequested(c) \in InvoiceEvents
  BY <1>4 DEF FundRequested, InvoiceUpdated, Event, InvoiceEvents, Statuses
<1>6. CASE UNCHANGED call /\ Counted /\ Appended
  BY <1>6 DEF FundRequested
<1>7. ASSUME NEW c \in Calls, FundStep(c) \/ FundReject(c)
      PROVE  /\ Counted /\ Appended
             /\ \A d \in Calls :
                   /\ call'[d].pc = "done" =>
                         \/ call[d].pc = "done"
                         \/ invoiceOut' = Append(invoiceOut, FundRequested(d))
                   /\ call[d].pc = "done" => call'[d].pc = "done"
                   /\ FundRequested(d)' = FundRequested(d)
  <2>1. PICK pc : /\ call' = [call EXCEPT ![c].pc = pc]
                  /\ \/ pc # "done" /\ UNCHANGED invoiceOut
                     \/ invoiceOut' = Append(invoiceOut, FundRequested(c))
    BY <1>3, <1>7
  <2>2. Counted /\ Appended
    BY <1>3, <1>5, <1>7, <2>1
  <2>3. ASSUME NEW d \in Calls
        PROVE  /\ call'[d].pc = "done" =>
                    \/ call[d].pc = "done"
                    \/ invoiceOut' = Append(invoiceOut, FundRequested(d))
               /\ call[d].pc = "done" => call'[d].pc = "done"
               /\ call'[d].invoice = call[d].invoice
               /\ call'[d].investor = call[d].investor
    BY <1>3, <1>4, <1>7, <2>1
  <2> QED
    BY <2>2, <2>3 DEF FundRequested
<1> QED
  BY <1>1, <1>2, <1>6, <1>7 DEF InvoiceWork

\* "ok" keeps meaning that the event is in the topic or on its way.
LEMMA RequestedKept ==
    ASSUME ApiInv, [ApiNext]_apiVars
    PROVE  Requested'
<1> USE DEF Requested
<1>1. /\ call \in [Calls -> [pc : CallSteps, invoice : Invoices, investor : Users]]
      /\ told \in [Requests -> {"idle", "waiting"} \cup Answers]
      /\ invoiceOut \in Seq(InvoiceEvents)
  BY DEF ApiInv, FundingInv, InvoiceTypeOK, GatewayTypeOK, ConsumerInv, BrokerTypeOK
<1>2. \A c \in Calls : c \in Requests /\ c \notin Invoices
  BY ApiAssumption

\* The topic, the buffer and the calls stay, but for a call that begins.
<1>3. ASSUME UNCHANGED <<invoiceTopic, invoiceOut>>, Counted,
             \A c \in Calls :
                /\ told'[c] = "ok" => call'[c].pc = "done"
                /\ call'[c].pc = "done" => call[c].pc = "done"
                /\ FundRequested(c)' = FundRequested(c)
      PROVE  Requested'
  BY <1>3, NoneBefore DEF ApiInv, InTopicOrBuffer
<1>4. ASSUME NEW r \in Requests, ServiceReceives(r)
      PROVE  Requested'
  <2>1. /\ UNCHANGED <<told, invoiceTopic, invoiceOut>>
        /\ Counted
    BY <1>4 DEF ServiceReceives, CreateArrives, FundArrives, Arrive, Elsewhere,
       CreateRow, CreateReject,
       FundRequest, Counted, FaultKinds
  <2>2. \/ UNCHANGED call
        \/ r \in Calls /\ call[r].pc = "idle" /\ call' = [call EXCEPT ![r].pc = "find"]
    BY <1>4 DEF ServiceReceives, CreateArrives, FundArrives, CreateRow,
       CreateReject, FundRequest, Goto
  <2>3. ASSUME NEW c \in Calls
        PROVE  /\ told[c] = "ok" => call'[c].pc = "done"
               /\ call'[c].pc = "done" => call[c].pc = "done"
               /\ call'[c].invoice = call[c].invoice
               /\ call'[c].investor = call[c].investor
    BY <1>1, <2>2 DEF ApiInv
  <2> QED
    BY <1>3, <2>1, <2>3 DEF FundRequested
<1>5. ASSUME NEW r \in Requests, ServiceAnswers(r)
      PROVE  Requested'
  <2>1. told' = [told EXCEPT ![r] = Results[Stage(r)]] /\ UNCHANGED vars
    BY <1>5 DEF ServiceAnswers, Tell
  <2>2. Stage(r) \in {"done", "failed", "lost"}
    BY <1>5 DEF ServiceAnswers, Results
  <2>3. r \in Calls => /\ Stage(r) = call[r].pc
                       /\ Results[Stage(r)] = "ok" => call[r].pc = "done"
    BY <2>2 DEF Stage, Results
  <2>4. \A c \in Calls : told'[c] = "ok" => call[c].pc = "done"
    BY <1>1, <1>2, <2>1, <2>3 DEF ApiInv
  <2> QED
    BY <1>3, <2>1, <2>4 DEF vars, brokerVars, userVars, invoiceVars, Counted,
       FundRequested
<1>6. CASE ServiceWorks
  <2>1. UNCHANGED <<told, invoiceTopic>>
    BY <1>6 DEF ServiceWorks, Elsewhere, gatewayVars
  <2>2. CASE StartJob
    BY <1>3, <2>1, <2>2 DEF StartJob, Counted, FundRequested, ApiInv
  <2>3. CASE InvoiceWork
    <3>1. \A c \in Calls : told'[c] = "ok" => call'[c].pc = "done"
      BY <2>1, <2>3, WorkEffect DEF ApiInv
    <3>2. ASSUME faults'["drop"] = 0, faults'["invoice_crash"] = 0,
                 NEW c \in Calls, call'[c].pc = "done"
          PROVE  InTopicOrBuffer(FundRequested(c))'
      <4> PICK e : e = FundRequested(c)
        OBVIOUS
      <4>1. /\ FundRequested(c)' = e
            /\ \/ invoiceOut' = Append(invoiceOut, e)
               \/ InTopicOrBuffer(e)
        BY <2>3, <3>2, WorkEffect, NoneBefore DEF ApiInv
      <4>2. CASE invoiceOut' = Append(invoiceOut, e)
        <5>1. Len(invoiceOut') \in 1 .. Len(invoiceOut')
              /\ invoiceOut'[Len(invoiceOut')] = e
          BY <1>1, <4>2
        <5> QED
          BY <4>1, <5>1 DEF InTopicOrBuffer
      <4>3. CASE InTopicOrBuffer(e)
        <5>1. Waiting(e) => Waiting(e)'
          BY <1>1, <2>3, WorkEffect, BufferGrows DEF ApiInv
        <5> QED
          BY <2>1, <4>1, <4>3, <5>1 DEF InTopicOrBuffer, Waiting
      <4> QED
        BY <4>1, <4>2, <4>3
    <3> QED
      BY <3>1, <3>2
  <2> QED
    BY <1>6, <2>2, <2>3 DEF ServiceWorks
<1>7. CASE ServiceRestarts
  <2>1. faults'["invoice_crash"] # 0 /\ UNCHANGED told
    BY <1>7 DEF ServiceRestarts, InvoiceCrash, Fault, gatewayVars, ApiInv,
       FundingInv,
       ConsumerInv, BrokerTypeOK, FaultKinds
  <2>2. \A c \in Calls : call[c].pc = "done" => call'[c].pc = "done"
    BY <1>1, <1>7 DEF ServiceRestarts, InvoiceCrash, InProgress
  <2> QED
    BY <2>1, <2>2 DEF ApiInv
<1>8. CASE GatewayMoves
  <2>1. UNCHANGED vars
    BY <1>8 DEF GatewayMoves
  <2>2. \A r \in Requests : told'[r] = "ok" => told[r] = "ok"
    BY <1>1, <1>8 DEF GatewayMoves, GatewayStep, Listen, GatewayCrash, Forward,
       LoseRequest, Deadline, Tell, Broken
  <2> QED
    BY <1>2, <1>3, <2>1, <2>2
       DEF vars, brokerVars, userVars, invoiceVars, Counted, FundRequested, ApiInv
<1>9. CASE OthersMove /\ UserMoves
  <2>1. UNCHANGED <<told, invoiceTopic, invoiceOut, call>> /\ Counted
    BY <1>9, ConsumerCounts DEF OthersMove, UserMoves, invoiceVars, gatewayVars
  <2> QED
    BY <1>3, <2>1 DEF ApiInv, FundRequested
<1>10. CASE OthersMove /\ BrokerMoves
  <2>1. UNCHANGED <<told, call>> /\ BrokerNext /\ Counted
    BY <1>10 DEF OthersMove, BrokerMoves, invoiceState, gatewayVars, BrokerNext,
       DeliverInvoice, ResendInvoice, DropInvoice, DeliverUser, ResendUser,
          DropUser,
       Counted, FaultKinds
  <2>2. ASSUME faults'["drop"] = 0, faults'["invoice_crash"] = 0,
               NEW c \in Calls, call[c].pc = "done"
        PROVE  InTopicOrBuffer(FundRequested(c))'
    <3>1. InTopicOrBuffer(FundRequested(c))
      BY <2>1, <2>2, NoneBefore DEF ApiInv
    <3>2. FundRequested(c)' = FundRequested(c)
      BY <2>1 DEF FundRequested
    <3>3. PICK e : e = FundRequested(c)
      OBVIOUS
    <3>4. InTopicOrBuffer(e)'
      BY <2>1, <2>2, <3>1, <3>3, BrokerKeeps DEF ApiInv
    <3> QED
      BY <3>2, <3>3, <3>4 DEF InTopicOrBuffer
  <2> QED
    BY <2>1, <2>2 DEF ApiInv
<1>11. CASE ServiceStarts \/ UNCHANGED apiVars
  BY <1>3, <1>11 DEF ServiceStarts, apiVars, vars, gatewayVars, brokerVars,
     userVars,
     invoiceVars, Counted, FundRequested, ApiInv
<1> QED
  BY <1>4, <1>5, <1>6, <1>7, <1>8, <1>9, <1>10, <1>11 DEF ApiNext, OthersMove

----------------------------------------------------------------------------
(* The invariant and what follows.                                          *)

\* At first no process is ready and nothing was asked for.
LEMMA ApiStarts == ApiInit => ApiInv
<1> SUFFICES ASSUME ApiInit
             PROVE  ApiInv
  OBVIOUS
<1>1. FundingInv
  BY InitFunding DEF ApiInit
<1>2. GatewayTypeOK /\ Started
  BY DEF ApiInit, GatewayInit, GatewayTypeOK, AppInit, AppTypeOK, Started, Phases
<1>3. /\ jobs = {}
      /\ \A c \in Calls : call[c].pc = "idle"
      /\ \A c \in Calls : told[c] = "idle"
  BY ApiAssumption DEF ApiInit, Init, InvoiceInit, GatewayInit
<1> QED
  BY <1>1, <1>2, <1>3 DEF ApiInv, ReadyBeforeWork, Requested, InProgress

\* The invariant of the whole.
LEMMA ApiInvariant == ApiSpec => []ApiInv
<1>1. ApiInv /\ [ApiNext]_apiVars => ApiInv'
  BY FundingKept, GatewayKept, StartedKept, ReadyKept, RequestedKept DEF ApiInv
<1> QED
  BY <1>1, ApiStarts, PTL DEF ApiSpec

\* The types of the services, the gateway and the start-up.
THEOREM ApiTypeCorrect == ApiSpec => []ApiTypeOK
<1>1. ApiInv => ApiTypeOK
  BY DEF ApiInv, FundingInv, ConsumerInv, Started, ApiTypeOK, TypeOK
<1> QED
  BY <1>1, ApiInvariant, PTL

\* No call and no handler runs in a process whose Kafka clients are not
\* ready, across any number of restarts (app.js:16-43).
THEOREM NothingTooEarly == ApiSpec => []ReadyBeforeWork
<1>1. ApiInv => ReadyBeforeWork
  BY DEF ApiInv
<1> QED
  BY <1>1, ApiInvariant, PTL

\* A client that is told "ok" can rely on the request for the money, as long
\* as the producer loses nothing (controllers/invoice.js:87-92).
THEOREM OkIsRequested == ApiSpec => []AcceptedRequested
<1>1. ApiInv => AcceptedRequested
  BY DEF ApiInv, Requested, AcceptedRequested, FundRequested
<1> QED
  BY <1>1, ApiInvariant, PTL

\* Behind the gateway too, deadlines and lost requests included, no invoice is
\* funded without a user who is charged for it, and rows stay consistent.
THEOREM SagaBehindGateway == ApiSpec => [](FundedHasPayer /\ RowConsistent)
<1>1. ApiInv => FundedHasPayer /\ RowConsistent
  BY DEF ApiInv, FundingInv
<1> QED
  BY <1>1, ApiInvariant, PTL

----------------------------------------------------------------------------
(* What "refused" promises.                                                 *)

\* Only a call that has failed was answered "refused", and the service works
\* only on requests that some client has made.
Told ==
    /\ \A r \in wire : told[r] # "idle"
    /\ \A c \in Calls : /\ told[c] = "refused" => call[c].pc = "failed"
                        /\ call[c].pc # "idle" => told[c] # "idle"

\* Whatever is told, to whomever, is told of a request that was made.
ToldStep ==
    \A r \in Requests : /\ told[r] # "idle" => told'[r] # "idle"
                        /\ told'[r] = "refused" => \/ told[r] = "refused"
                                                   \/ Stage(r) = "failed"
                        /\ r \in wire' => r \in wire \/ told'[r] # "idle"

\* The gateway forgets no request and makes up no refusal.
LEMMA ToldSteps ==
    ASSUME ApiInv, [ApiNext]_apiVars
    PROVE  ToldStep
<1> USE DEF ToldStep
<1>1. /\ told \in [Requests -> {"idle", "waiting"} \cup Answers]
      /\ wire \subseteq Requests
  BY DEF ApiInv, GatewayTypeOK
<1>2. ASSUME NEW r \in Requests, ServiceReceives(r)
      PROVE  ToldStep
  BY <1>2 DEF ServiceReceives, Arrive
<1>3. ASSUME NEW r \in Requests, ServiceAnswers(r)
      PROVE  ToldStep
  <2>1. Stage(r) \in {"done", "failed", "lost"}
    BY <1>3 DEF ServiceAnswers, Results
  <2>2. told' = [told EXCEPT ![r] = Results[Stage(r)]] /\ UNCHANGED wire
    BY <1>3 DEF ServiceAnswers, Tell
  <2>3. /\ Results[Stage(r)] # "idle"
        /\ Results[Stage(r)] = "refused" => Stage(r) = "failed"
    BY <2>1 DEF Results
  <2> QED
    BY <1>1, <2>2, <2>3
<1>4. CASE GatewayMoves
  <2>1. CASE Listen \/ GatewayCrash
    BY <1>1, <2>1 DEF Listen, GatewayCrash, Broken
  <2>2. ASSUME NEW r \in Requests, Forward(r) \/ LoseRequest(r) \/ Deadline(r)
        PROVE  ToldStep
    BY <1>1, <2>2 DEF Forward, LoseRequest, Deadline, Tell, Broken
  <2> QED
    BY <1>4, <2>1, <2>2 DEF GatewayMoves, GatewayStep
<1>5. CASE UNCHANGED gatewayVars
  BY <1>5 DEF gatewayVars
<1> QED
  BY <1>2, <1>3, <1>4, <1>5
     DEF ApiNext, apiVars, ServiceWorks, ServiceRestarts, ServiceStarts, OthersMove

\* A call that has not arrived is not worked on.
LEMMA WorkIdle ==
    ASSUME FundingInv, InvoiceWork, NEW c \in Calls, call[c].pc = "idle"
    PROVE  call'[c].pc = "idle"
<1>1. call \in [Calls -> [pc : CallSteps, invoice : Invoices, investor : Users]]
  BY DEF FundingInv, InvoiceTypeOK
<1>2. ASSUME NEW d \in Calls, FundStep(d) \/ FundReject(d)
      PROVE  call'[c].pc = "idle"
  <2>1. /\ call[d].pc # "idle"
        /\ \E pc : call' = [call EXCEPT ![d].pc = pc]
    BY <1>2 DEF FundStep, FundFind, FundUpdate, FundProduce, FundReject, InProgress,
       Goto
  <2> QED
    BY <1>1, <2>1
<1>3. ASSUME NEW i \in Invoices, AnnounceRow(i)
      PROVE  UNCHANGED call
  BY <1>3 DEF AnnounceRow
<1>4. ASSUME NEW j \in jobs, JobStep(j) \/ JobReject(j)
      PROVE  UNCHANGED call
  BY <1>4 DEF JobStep, JobFind, JobUpdate, JobProduce, JobNotFound, JobCommit,
     JobReject
<1> QED
  BY <1>2, <1>3, <1>4 DEF InvoiceWork

\* Answers are told of what has happened; requests are made before they are
\* worked on.
LEMMA ToldKept ==
    ASSUME ApiInv, Told, [ApiNext]_apiVars
    PROVE  Told'
<1>1. /\ told \in [Requests -> {"idle", "waiting"} \cup Answers]
      /\ wire \subseteq Requests /\ wire' \subseteq Requests
      /\ \A c \in Calls : c \in Requests /\ Stage(c) = call[c].pc
  BY GatewayKept, ApiAssumption DEF ApiInv, GatewayTypeOK, Stage
<1>2. CallsFinal
  BY StepOfFunding, CallsEnd DEF ApiInv, apiVars
<1>3. ASSUME NEW c \in Calls, call[c].pc = "idle", call'[c].pc # "idle"
      PROVE  told[c] # "idle"
  <2>1. CASE \E r \in Requests : ServiceReceives(r)
    <3>1. PICK r \in Requests : ServiceReceives(r)
      BY <2>1
    <3>2. r \in wire /\ (CreateArrives(r) \/ FundArrives(r))
      BY <3>1 DEF ServiceReceives, Arrive
    <3>3. UNCHANGED call \/ (r \in Calls /\ Goto(r, "find"))
      BY <3>2 DEF CreateArrives, CreateRow, CreateReject, FundArrives, FundRequest
    <3>4. call \in [Calls -> [pc : CallSteps, invoice : Invoices, investor : Users]]
      BY DEF ApiInv, FundingInv, InvoiceTypeOK
    <3>5. r = c
      BY <1>3, <3>3, <3>4 DEF Goto
    <3> QED
      BY <3>2, <3>5 DEF Told
  <2>2. CASE ServiceWorks
    BY <1>3, <2>2, WorkIdle DEF ServiceWorks, ApiInv, StartJob
  <2>3. CASE ServiceRestarts
    BY <1>3, <2>3 DEF ServiceRestarts, InvoiceCrash, InProgress
  <2>4. CASE UNCHANGED call
    BY <1>3, <2>4
  <2> QED
    BY <2>1, <2>2, <2>3, <2>4
       DEF ApiNext, apiVars, vars, invoiceVars, ServiceAnswers, ServiceStarts,
           GatewayMoves, OthersMove, UserMoves, BrokerMoves, invoiceState
<1> QED
  BY <1>1, <1>2, <1>3, ToldSteps DEF Told, ToldStep, CallsFinal

RefusalInv == ApiInv /\ Told /\ OnlyAsked

\* At first nothing was asked for, told or charged.
LEMMA RefusalStarts == ApiInit => RefusalInv
<1> SUFFICES ASSUME ApiInit
             PROVE  RefusalInv
  OBVIOUS
<1>1. Told
  BY ApiAssumption DEF ApiInit, Init, InvoiceInit, GatewayInit, Told
<1>2. OnlyAsked
  BY DEF ApiInit, Init, BrokerInit, ConsumerInit, OnlyAsked, Dispatched, HoldSteps,
     TopicAsked, BufferAsked, Charged
<1> QED
  BY <1>1, <1>2, ApiStarts DEF RefusalInv

\* Every step of the API keeps all of it.
LEMMA RefusalInvariant == ApiSpec => []RefusalInv
<1>1. RefusalInv /\ [ApiNext]_apiVars => RefusalInv'
  <2> SUFFICES ASSUME RefusalInv, [ApiNext]_apiVars
               PROVE  RefusalInv'
    OBVIOUS
  <2>1. ApiInv'
    BY FundingKept, GatewayKept, StartedKept, ReadyKept, RequestedKept
       DEF RefusalInv, ApiInv
  <2>2. OnlyAsked'
    BY StepOfFunding, OnlyAskedKept DEF RefusalInv, ApiInv, apiVars
  <2> QED
    BY <2>1, <2>2, ToldKept DEF RefusalInv
<1> QED
  BY <1>1, RefusalStarts, PTL DEF ApiSpec

\* A client who was refused, and who has no other call for the invoice, never
\* finds money held or taken for it, whatever the update behind the refusal
\* left in the table and whoever's answers meet that row.
THEOREM RefusedIsFree == ApiSpec => []RefusedNotCharged
<1>1. RefusalInv => RefusedNotCharged
  <2> SUFFICES ASSUME RefusalInv, NEW c \in Calls, told[c] = "refused",
                      \A d \in Calls \ {c} :
                         \/ told[d] = "idle"
                         \/ call[d].invoice # call[c].invoice
                         \/ call[d].investor # call[c].investor
               PROVE  Charged(call[c].investor, call[c].invoice) = 0
    BY DEF RefusedNotCharged
  <2>1. call[c].investor \in Users /\ call[c].invoice \in Invoices
    BY DEF RefusalInv, ApiInv, FundingInv, InvoiceTypeOK
  <2>2. Charged(call[c].investor, call[c].invoice) \in Nat
    BY <2>1, HeldTypes DEF RefusalInv, ApiInv, FundingInv, Charged
  <2>3. ~AskedFor(call[c].investor, call[c].invoice)
    BY DEF RefusalInv, Told, AskedFor
  <2> QED
    BY <2>1, <2>2, <2>3 DEF RefusalInv, OnlyAsked
<1> QED
  BY <1>1, RefusalInvariant, PTL
=============================================================================
