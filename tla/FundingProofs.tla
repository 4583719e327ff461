---------------------------- MODULE FundingProofs --------------------------
(***************************************************************************)
(* The two services together: an invoice is only ever funded with money    *)
(* that some user holds or has paid, for any number of users, invoices,    *)
(* calls and faults.                                                       *)
(***************************************************************************)
EXTENDS Funding, UserConsumerProofs

Addressed(e) == IsFundRequest(e) \/ IsFunded(e) => e.user \in Users

\* What the invoices service is about to send names a user where one is
\* needed, because the row it found pending had an investor.
OutAddressed == \A k \in 1 .. Len(invoiceOut) : Addressed(invoiceOut[k])

JobsAddressed ==
    \A j \in jobs : j.step \in {"update", "produce"} => j.investor \in Users

\* A Fund call past its checks is not the provider's.
CallsChecked ==
    \A c \in Calls :
        call[c].pc \in {"update", "produce"}
          => Provider[call[c].invoice] # call[c].investor

FundingInv ==
    /\ ConsumerInv
    /\ InvoiceTypeOK
    /\ RowConsistent
    /\ OutAddressed
    /\ JobsAddressed
    /\ CallsChecked
    /\ FundedHasPayer

----------------------------------------------------------------------------

\* Before the first request nothing is funded and nothing is on its way.
LEMMA InitFunding == Init => FundingInv
<1> SUFFICES ASSUME Init PROVE FundingInv
  OBVIOUS
<1> USE DEF Init, BrokerInit, ConsumerInit, InvoiceInit
<1>1. BrokerTypeOK
  BY DEF BrokerTypeOK
<1>2. ConsumerTypeOK
  BY AccountsAssumption DEF ConsumerTypeOK, Steps
<1>3. WellAddressed /\ InHand /\ HoldState /\ OutboundBacked
  BY DEF WellAddressed, InHand, HoldState, HoldSteps, OutboundBacked
<1>4. WholeHeldOnce /\ ReservedBacked
  BY AccountsAssumption DEF WholeHeldOnce, ReservedBacked
<1>5. InvoiceTypeOK
  BY DEF InvoiceTypeOK, NoRow, Row, CallSteps
<1>6. RowConsistent /\ FundedHasPayer
  BY EventsAssumption DEF RowConsistent, FundedHasPayer, NoRow, Row
<1>7. OutAddressed /\ JobsAddressed /\ CallsChecked
  BY DEF OutAddressed, JobsAddressed, CallsChecked
<1> QED
  BY <1>1, <1>2, <1>3, <1>4, <1>5, <1>6, <1>7 DEF FundingInv, ConsumerInv

\* A step of the invoices service leaves the consumer's invariant alone.
LEMMA ConsumerUntouched ==
    ASSUME ConsumerInv, UNCHANGED <<invoiceTopic, userTopic, userVars>>,
           invoiceOut' \in Seq(InvoiceEvents), faults' \in [FaultKinds -> Nat]
    PROVE  ConsumerInv'
<1> USE DEF userVars
<1>1. BrokerTypeOK' /\ ConsumerTypeOK' /\ WellAddressed'
  BY DEF ConsumerInv, BrokerTypeOK, ConsumerTypeOK, WellAddressed
<1>2. InHand' /\ HoldState' /\ OutboundBacked'
  BY DEF ConsumerInv, InHand, HoldState, HoldSteps, Found, Inserted, OutboundBacked,
     Charged, Current
<1>3. WholeHeldOnce' /\ ReservedBacked'
  BY DEF ConsumerInv, WholeHeldOnce, ReservedBacked, Charged
<1> QED
  BY <1>1, <1>2, <1>3 DEF ConsumerInv

\* Producing an event that names a user where one is needed.
LEMMA ProduceEffect ==
    ASSUME ConsumerInv, OutAddressed, NEW e \in InvoiceEvents, Addressed(e),
           invoiceOut' = Append(invoiceOut, e)
    PROVE  invoiceOut' \in Seq(InvoiceEvents) /\ OutAddressed'
<1>1. /\ invoiceOut \in Seq(InvoiceEvents)
      /\ Len(invoiceOut') = Len(invoiceOut) + 1
      /\ \A k \in 1 .. Len(invoiceOut') :
            invoiceOut'[k] = IF k = Len(invoiceOut') THEN e ELSE invoiceOut[k]
  BY DEF ConsumerInv, BrokerTypeOK
<1> QED
  BY <1>1 DEF OutAddressed, Addressed, IsFundRequest, IsFunded

\* The message of a handler is an event of the users service.
LEMMA JobTypes ==
    ASSUME FundingInv, NEW j \in jobs
    PROVE  /\ j.offset \in 1 .. Len(userTopic)
           /\ j.step \in JobSteps
           /\ j.investor \in Users \cup {NoUser}
           /\ Msg(j) \in UserEvents
           /\ Msg(j).invoice \in Invoices
           /\ Msg(j).user \in Users
           /\ j = Job(j.offset, j.step, j.investor)
<1>1. j \in [offset : 1 .. Len(userTopic), step : JobSteps,
             investor : Users \cup {NoUser}]
  BY DEF FundingInv, InvoiceTypeOK
<1>2. Msg(j) \in UserEvents
  BY <1>1 DEF FundingInv, ConsumerInv, BrokerTypeOK, Msg
<1> QED
  BY <1>1, <1>2 DEF UserEvents, Job

OthersStay == UNCHANGED <<invoiceTopic, userTopic, userVars>>

----------------------------------------------------------------------------
(* The writes to the invoices table.                                        *)

RowsOK ==
    /\ rows \in [Invoices -> [status : Statuses \cup {"none"},
                             investor : Users \cup {NoUser}]]
    /\ RowConsistent
    /\ FundedHasPayer

\* A table that is not written stays right: charges do not change while the
\* invoices service moves.
LEMMA RowsStay ==
    ASSUME FundingInv, OthersStay, UNCHANGED rows
    PROVE  RowsOK'
  BY DEF FundingInv, InvoiceTypeOK, RowsOK, RowConsistent, FundedHasPayer,
     OthersStay, userVars, Charged

\* A write of one row that does not make it funded.
LEMMA RowWritten ==
    ASSUME FundingInv, OthersStay, NEW i \in Invoices, NEW status \in Statuses,
           NEW u \in Users \cup {NoUser},
           rows' = [rows EXCEPT ![i] = Row(status, u)],
           \/ status = "new" /\ u = NoUser
           \/ status = "pending_fund" /\ u \in Users /\ Provider[i] # u
    PROVE  RowsOK'
<1>1. /\ rows' \in [Invoices -> [status : Statuses \cup {"none"},
                                 investor : Users \cup {NoUser}]]
      /\ \A m \in Invoices :
           rows'[m] = IF m = i THEN Row(status, u) ELSE rows[m]
  BY DEF FundingInv, InvoiceTypeOK, Row
<1>2. RowConsistent'
  BY <1>1, EventsAssumption DEF FundingInv, RowConsistent, Row
<1>3. FundedHasPayer'
  BY <1>1 DEF FundingInv, FundedHasPayer, OthersStay, userVars, Charged, Row
<1> QED
  BY <1>1, <1>2, <1>3 DEF RowsOK

\* fund's update comes after the provider check of the same call.
LEMMA PendingWritten ==
    ASSUME FundingInv, OthersStay, NEW c \in Calls, call[c].pc = "update",
           WritePending(c)
    PROVE  RowsOK'
<1>1. /\ call[c].invoice \in Invoices
      /\ call[c].investor \in Users
      /\ Provider[call[c].invoice] # call[c].investor
  BY DEF FundingInv, InvoiceTypeOK, CallsChecked
<1> QED
  BY <1>1, RowWritten DEF WritePending, Statuses

\* The only write of the status funded: the message that causes it says that
\* the money is held.
LEMMA OutcomeWritten ==
    ASSUME FundingInv, OthersStay, NEW j \in jobs, WriteOutcome(j)
    PROVE  RowsOK'
<1> DEFINE i == Msg(j).invoice
<1>1. /\ i \in Invoices
      /\ Msg(j) \in UserEvents
      /\ j.offset \in 1 .. Len(userTopic)
      /\ Msg(j).user \in Users
      /\ rows[i] \in [status : Statuses \cup {"none"},
                      investor : Users \cup {NoUser}]
  BY JobTypes DEF FundingInv, InvoiceTypeOK
<1>2. CASE Msg(j).type = "BalanceReserved"
  <2> DEFINE r == [rows[i] EXCEPT !.status = "funded"]
  <2>1. /\ r \in [status : Statuses \cup {"none"}, investor : Users \cup {NoUser}]
        /\ r.status = "funded"
        /\ r.investor = rows[i].investor
    BY <1>1 DEF Statuses
  <2>2. rows' = [rows EXCEPT ![i] = r]
    BY <1>2 DEF WriteOutcome, Written
  <2>3. /\ rows' \in [Invoices -> [status : Statuses \cup {"none"},
                                   investor : Users \cup {NoUser}]]
        /\ \A m \in Invoices : rows'[m] = IF m = i THEN r ELSE rows[m]
    <3> HIDE DEF r, i
    <3> QED
      BY ONLY <1>1, <2>1, <2>2, FundingInv DEF FundingInv, InvoiceTypeOK
  <2>4. RowConsistent'
    BY <1>1, <2>1, <2>3 DEF FundingInv, RowConsistent
  <2>5. Charged(Msg(j).user, i) >= 1
    BY <1>1, <1>2 DEF FundingInv, ConsumerInv, ReservedBacked, Msg
  <2>6. ASSUME NEW m \in Invoices, rows'[m].status = "funded"
        PROVE  \E u \in Users : Charged(u, m) >= 1
    <3>1. CASE m = i
      BY <1>1, <2>5, <3>1
    <3>2. CASE m # i
      BY <2>3, <2>6, <3>2 DEF FundingInv, FundedHasPayer
    <3> QED
      BY <3>1, <3>2
  <2>7. FundedHasPayer'
    BY <2>6 DEF FundedHasPayer, Charged, OthersStay, userVars
  <2> QED
    BY <2>3, <2>4, <2>7 DEF RowsOK
<1>3. CASE Msg(j).type # "BalanceReserved"
  <2>1. rows' = [rows EXCEPT ![i] = Row("new", NoUser)]
    BY <1>3 DEF WriteOutcome, Written
  <2> QED
    BY <1>1, <2>1, RowWritten DEF Statuses
<1> QED
  BY <1>2, <1>3

----------------------------------------------------------------------------
(* The gRPC calls.                                                          *)

Creations == {"idle", "produce", "done", "failed", "lost"}

\* Create: a new row has no investor; its event asks for nothing.
LEMMA CreateInv ==
    ASSUME FundingInv, OthersStay, NEW i \in Invoices,
           CreateRow(i) \/ CreateReject(i) \/ AnnounceRow(i)
    PROVE  FundingInv'
<1> USE DEF CreateRow, CreateReject, AnnounceRow
<1>1. UNCHANGED <<call, jobs, iPos, iCommitted>>
  OBVIOUS
<1>2. creation' \in [Invoices -> Creations]
  BY DEF FundingInv, InvoiceTypeOK, Creations
<1>3. RowsOK'
  <2>1. CASE rows' = [rows EXCEPT ![i] = Row("new", NoUser)]
    BY <2>1, RowWritten DEF Statuses
  <2>2. CASE UNCHANGED rows
    BY <2>2, RowsStay
  <2> QED
    BY <2>1, <2>2
<1>4. invoiceOut' \in Seq(InvoiceEvents) /\ OutAddressed'
  <2>1. InvoiceCreated(i) \in InvoiceEvents /\ Addressed(InvoiceCreated(i))
    BY DEF InvoiceCreated, Event, InvoiceEvents, Statuses, Addressed, IsFundRequest,
       IsFunded
  <2>2. CASE invoiceOut' = Append(invoiceOut, InvoiceCreated(i))
    BY <2>1, <2>2, ProduceEffect DEF FundingInv
  <2>3. CASE invoiceOut' = invoiceOut
    BY <2>3 DEF FundingInv, ConsumerInv, BrokerTypeOK, OutAddressed
  <2> QED
    BY <2>2, <2>3
<1>5. faults' \in [FaultKinds -> Nat]
  BY FaultTyped DEF FundingInv, ConsumerInv, BrokerTypeOK, FaultKinds
<1>6. ConsumerInv'
  BY <1>4, <1>5, ConsumerUntouched DEF FundingInv, OthersStay
<1>7. InvoiceTypeOK' /\ JobsAddressed' /\ CallsChecked'
  BY <1>1, <1>2, <1>3 DEF FundingInv, InvoiceTypeOK, RowsOK, JobsAddressed,
     CallsChecked, OthersStay, Creations
<1> QED
  BY <1>3, <1>4, <1>6, <1>7 DEF FundingInv, RowsOK

\* Fund: a call passes its checks before it goes on to the write, and its
\* event names the investor of the request.
LEMMA FundInv ==
    ASSUME FundingInv, OthersStay, NEW c \in Calls,
           FundRequest(c) \/ FundStep(c) \/ FundReject(c)
    PROVE  FundingInv'
<1> USE DEF FundStep, FundRequest, FundFind, FundUpdate, FundProduce, FundReject
<1>1. /\ call[c].invoice \in Invoices
      /\ call[c].investor \in Users
  BY DEF FundingInv, InvoiceTypeOK
<1>2. PICK pc \in CallSteps :
        /\ Goto(c, pc)
        /\ pc \in {"update", "produce"} =>
             Provider[call[c].invoice] # call[c].investor
  <2>1. CASE FundRequest(c) \/ FundReject(c) \/ FundProduce(c)
    BY <2>1 DEF CallSteps
  <2>2. CASE FundFind(c)
    BY <2>2 DEF CallSteps, Fundable
  <2>3. CASE FundUpdate(c)
    BY <2>3 DEF CallSteps, FundingInv, CallsChecked
  <2> QED
    BY <2>1, <2>2, <2>3
<1>3. /\ call' \in [Calls -> [pc : CallSteps, invoice : Invoices, investor : Users]]
      /\ CallsChecked'
  BY <1>2 DEF Goto, FundingInv, InvoiceTypeOK, CallsChecked
<1>4. UNCHANGED <<creation, jobs, iPos, iCommitted>>
  OBVIOUS
<1>5. RowsOK'
  <2>1. UNCHANGED rows \/ (call[c].pc = "update" /\ WritePending(c))
    OBVIOUS
  <2> QED
    BY <2>1, RowsStay, PendingWritten
<1>6. invoiceOut' \in Seq(InvoiceEvents) /\ OutAddressed'
  <2>1. FundRequested(c) \in InvoiceEvents /\ Addressed(FundRequested(c))
    BY <1>1 DEF FundRequested, InvoiceUpdated, Event, InvoiceEvents, Statuses,
       Addressed
  <2>2. CASE invoiceOut' = Append(invoiceOut, FundRequested(c))
    BY <2>1, <2>2, ProduceEffect DEF FundingInv
  <2>3. CASE invoiceOut' = invoiceOut
    BY <2>3 DEF FundingInv, ConsumerInv, BrokerTypeOK, OutAddressed
  <2> QED
    BY <2>2, <2>3
<1>7. faults' \in [FaultKinds -> Nat]
  BY FaultTyped DEF FundingInv, ConsumerInv, BrokerTypeOK, FaultKinds
<1>8. ConsumerInv'
  BY <1>6, <1>7, ConsumerUntouched DEF FundingInv, OthersStay
<1>9. InvoiceTypeOK' /\ JobsAddressed'
  BY <1>3, <1>4, <1>5 DEF FundingInv, InvoiceTypeOK, RowsOK, JobsAddressed,
     OthersStay
<1> QED
  BY <1>3, <1>5, <1>6, <1>8, <1>9 DEF FundingInv, RowsOK

----------------------------------------------------------------------------
(* The event handlers.                                                      *)

\* A message is read: its handler starts without an investor.
LEMMA StartJobInv ==
    ASSUME FundingInv, OthersStay, StartJob
    PROVE  FundingInv'
<1> USE DEF StartJob
<1>1. iPos \in 0 .. Len(userTopic) /\ Len(userTopic) \in Nat
  BY DEF FundingInv, InvoiceTypeOK, ConsumerInv, BrokerTypeOK
<1>2. PICK step \in {"commit", "find"} :
        jobs' = jobs \cup {Job(iPos + 1, step, NoUser)}
  OBVIOUS
<1>3. Job(iPos + 1, step, NoUser) \in [offset : 1 .. Len(userTopic), step : JobSteps,
                                      investor : Users \cup {NoUser}]
  BY <1>1 DEF Job, JobSteps
<1>4. InvoiceTypeOK'
  BY <1>1, <1>2, <1>3 DEF FundingInv, InvoiceTypeOK, OthersStay
<1>5. JobsAddressed'
  BY <1>2 DEF FundingInv, JobsAddressed, Job
<1>6. ConsumerInv'
  BY ConsumerUntouched DEF FundingInv, OthersStay, ConsumerInv, BrokerTypeOK
<1>7. RowConsistent' /\ OutAddressed' /\ CallsChecked'
  BY DEF FundingInv, RowConsistent, OutAddressed, CallsChecked
<1>8. FundedHasPayer'
  BY RowsStay DEF RowsOK
<1> QED
  BY <1>4, <1>5, <1>6, <1>7, <1>8 DEF FundingInv

\* A handler that moves on keeps its offset.
LEMMA StepEffect ==
    ASSUME FundingInv, OthersStay, NEW j \in jobs, NEW next, Step(j, next),
           next \in [offset : 1 .. Len(userTopic), step : JobSteps,
                     investor : Users \cup {NoUser}],
           next.step \in {"update", "produce"} => next.investor \in Users
    PROVE  /\ jobs' \subseteq [offset : 1 .. Len(userTopic'), step : JobSteps,
                              investor : Users \cup {NoUser}]
           /\ JobsAddressed'
  BY DEF FundingInv, InvoiceTypeOK, JobsAddressed, Step, OthersStay

\* findOne: a row found pending has an investor.
LEMMA JobFindInv ==
    ASSUME FundingInv, OthersStay, NEW j \in jobs, JobFind(j)
    PROVE  FundingInv'
<1> USE DEF JobFind
<1> DEFINE row == rows[Msg(j).invoice]
           next == IF row.status = "pending_fund"
                   THEN Job(j.offset, "update", row.investor)
                   ELSE Job(j.offset, "not_found", NoUser)
<1>1. row.investor \in Users \cup {NoUser}
  BY JobTypes DEF FundingInv, InvoiceTypeOK
<1>2. row.status = "pending_fund" => row.investor \in Users
  BY JobTypes DEF FundingInv, RowConsistent
<1>3. /\ next \in [offset : 1 .. Len(userTopic), step : JobSteps,
                   investor : Users \cup {NoUser}]
      /\ next.step \in {"update", "produce"} => next.investor \in Users
  BY <1>1, <1>2, JobTypes DEF Job, JobSteps
<1>4. Step(j, next)
  OBVIOUS
<1> HIDE DEF next
<1>5. /\ jobs' \subseteq [offset : 1 .. Len(userTopic'), step : JobSteps,
                         investor : Users \cup {NoUser}]
      /\ JobsAddressed'
  BY <1>3, <1>4, StepEffect
<1>6. ConsumerInv'
  BY ConsumerUntouched DEF FundingInv, OthersStay, ConsumerInv, BrokerTypeOK
<1>7. InvoiceTypeOK' /\ RowConsistent' /\ OutAddressed' /\ CallsChecked'
  BY <1>5 DEF FundingInv, InvoiceTypeOK, RowConsistent, OutAddressed, CallsChecked,
     OthersStay
<1>8. FundedHasPayer'
  BY RowsStay DEF RowsOK
<1> QED
  BY <1>5, <1>6, <1>7, <1>8 DEF FundingInv

\* update: the handler keeps the investor it found.
LEMMA JobUpdateInv ==
    ASSUME FundingInv, OthersStay, NEW j \in jobs, JobUpdate(j)
    PROVE  FundingInv'
<1> USE DEF JobUpdate
<1> DEFINE next == [j EXCEPT !.step = "produce"]
<1>1. RowsOK'
  BY OutcomeWritten
<1>2. next = Job(j.offset, "produce", j.investor)
  BY JobTypes DEF Job
<1>3. /\ next \in [offset : 1 .. Len(userTopic), step : JobSteps,
                   investor : Users \cup {NoUser}]
      /\ next.step \in {"update", "produce"} => next.investor \in Users
  BY <1>2, JobTypes DEF Job, JobSteps, FundingInv, JobsAddressed
<1>4. Step(j, next)
  OBVIOUS
<1> HIDE DEF next
<1>5. /\ jobs' \subseteq [offset : 1 .. Len(userTopic'), step : JobSteps,
                         investor : Users \cup {NoUser}]
      /\ JobsAddressed'
  BY <1>3, <1>4, StepEffect
<1>6. ConsumerInv'
  BY ConsumerUntouched DEF FundingInv, OthersStay, ConsumerInv, BrokerTypeOK
<1>7. InvoiceTypeOK' /\ OutAddressed' /\ CallsChecked'
  BY <1>1, <1>5 DEF FundingInv, InvoiceTypeOK, RowsOK, OutAddressed, CallsChecked,
     OthersStay
<1> QED
  BY <1>1, <1>5, <1>6, <1>7 DEF FundingInv, RowsOK

\* produce: the event of a handler names the investor it found, or is about
\* an invoice that is free again.
LEMMA JobProduceInv ==
    ASSUME FundingInv, OthersStay, NEW j \in jobs, JobProduce(j) \/ JobNotFound(j)
    PROVE  FundingInv'
<1> DEFINE next == [j EXCEPT !.step = "commit"]
<1>1. UNCHANGED <<rows, creation, call, iPos, iCommitted, faults>> /\ Step(j, next)
  BY DEF JobProduce, JobNotFound
<1>2. /\ next \in [offset : 1 .. Len(userTopic), step : JobSteps,
                   investor : Users \cup {NoUser}]
      /\ next.step = "commit"
  <2>1. next = Job(j.offset, "commit", j.investor)
    BY JobTypes DEF Job
  <2> QED
    BY <2>1, JobTypes DEF Job, JobSteps
<1> HIDE DEF next
<1>3. /\ jobs' \subseteq [offset : 1 .. Len(userTopic'), step : JobSteps,
                         investor : Users \cup {NoUser}]
      /\ JobsAddressed'
  BY <1>1, <1>2, StepEffect
<1>4. PICK e \in InvoiceEvents : Addressed(e) /\ invoiceOut' = Append(invoiceOut, e)
  <2>1. CASE JobProduce(j)
    <3>1. j.investor \in Users
      BY <2>1 DEF JobProduce, FundingInv, JobsAddressed
    <3>2. CASE Msg(j).type = "BalanceReserved"
      <4> DEFINE e == InvoiceUpdated(Msg(j).invoice, j.investor, "funded")
      <4>1. e \in InvoiceEvents /\ Addressed(e)
        BY <3>1, JobTypes DEF InvoiceUpdated, Event, InvoiceEvents, Statuses,
           Addressed
      <4>2. invoiceOut' = Append(invoiceOut, e)
        BY <2>1, <3>2 DEF JobProduce, Outcome, Row
      <4> QED
        BY <4>1, <4>2
    <3>3. CASE Msg(j).type # "BalanceReserved"
      <4> DEFINE e == InvoiceUpdated(Msg(j).invoice, NoUser, "new")
      <4>1. e \in InvoiceEvents /\ Addressed(e)
        BY JobTypes DEF InvoiceUpdated, Event, InvoiceEvents, Statuses, Addressed,
           IsFundRequest, IsFunded
      <4>2. invoiceOut' = Append(invoiceOut, e)
        BY <2>1, <3>3 DEF JobProduce, Outcome, Row
      <4> QED
        BY <4>1, <4>2
    <3> QED
      BY <3>2, <3>3
  <2>2. CASE JobNotFound(j)
    <3> DEFINE e == ReservationNotFound(Msg(j).invoice, Msg(j).user)
    <3>1. e \in InvoiceEvents /\ Addressed(e)
      BY JobTypes DEF ReservationNotFound, Event, InvoiceEvents, Addressed,
         IsFundRequest, IsFunded
    <3> QED
      BY <2>2, <3>1 DEF JobNotFound
  <2> QED
    BY <2>1, <2>2
<1>5. invoiceOut' \in Seq(InvoiceEvents) /\ OutAddressed'
  BY <1>4, ProduceEffect DEF FundingInv
<1>6. ConsumerInv'
  BY <1>1, <1>5, ConsumerUntouched DEF FundingInv, OthersStay, ConsumerInv,
     BrokerTypeOK
<1>7. InvoiceTypeOK' /\ RowConsistent' /\ CallsChecked'
  BY <1>1, <1>3 DEF FundingInv, InvoiceTypeOK, RowConsistent, CallsChecked,
     OthersStay
<1>8. FundedHasPayer'
  BY <1>1, RowsStay DEF RowsOK
<1> QED
  BY <1>3, <1>5, <1>6, <1>7, <1>8 DEF FundingInv

\* A handler that ends takes its job away; one that rejects in its update may
\* have written the row.
LEMMA JobEndInv ==
    ASSUME FundingInv, OthersStay, NEW j \in jobs, JobCommit(j) \/ JobReject(j)
    PROVE  FundingInv'
<1> USE DEF JobCommit, JobReject, NextOffset
<1>1. UNCHANGED <<creation, call, iPos, invoiceOut>> /\ jobs' \subseteq jobs
  OBVIOUS
<1>2. iCommitted' \in 0 .. Len(userTopic)
  <2>1. iCommitted' = iCommitted \/ iCommitted' = j.offset
    OBVIOUS
  <2>2. Len(userTopic) \in Nat
    BY DEF FundingInv, ConsumerInv, BrokerTypeOK
  <2> QED
    BY <2>1, <2>2, JobTypes DEF FundingInv, InvoiceTypeOK
<1>3. RowsOK'
  <2>1. UNCHANGED rows \/ WriteOutcome(j)
    OBVIOUS
  <2> QED
    BY <2>1, RowsStay, OutcomeWritten
<1>4. faults' \in [FaultKinds -> Nat]
  BY FaultTyped DEF FundingInv, ConsumerInv, BrokerTypeOK, FaultKinds
<1>5. ConsumerInv'
  BY <1>1, <1>4, ConsumerUntouched DEF FundingInv, OthersStay, ConsumerInv,
     BrokerTypeOK
<1>6. InvoiceTypeOK' /\ JobsAddressed'
  BY <1>1, <1>2, <1>3 DEF FundingInv, InvoiceTypeOK, RowsOK, JobsAddressed,
     OthersStay
<1>7. OutAddressed' /\ CallsChecked'
  BY <1>1 DEF FundingInv, OutAddressed, CallsChecked
<1> QED
  BY <1>3, <1>5, <1>6, <1>7 DEF FundingInv, RowsOK

\* A restart keeps the table and forgets calls, handlers and buffer.
LEMMA InvoiceCrashInv ==
    ASSUME FundingInv, OthersStay, InvoiceCrash
    PROVE  FundingInv'
<1> USE DEF InvoiceCrash
<1>1. /\ call' \in [Calls -> [pc : CallSteps, invoice : Invoices, investor : Users]]
      /\ CallsChecked'
  <2>1. ASSUME NEW c \in Calls
        PROVE  /\ call'[c] \in [pc : CallSteps, invoice : Invoices, investor : Users]
               /\ call'[c].pc \notin {"update", "produce"}
    BY DEF FundingInv, InvoiceTypeOK, InProgress, CallSteps
  <2>2. call' = [c \in Calls |-> call'[c]]
    OBVIOUS
  <2> QED
    BY <2>1, <2>2 DEF CallsChecked
<1>2. /\ iPos' \in 0 .. Len(userTopic)
      /\ iCommitted' \in 0 .. Len(userTopic)
  BY DEF FundingInv, InvoiceTypeOK, ConsumerInv, BrokerTypeOK
<1>3. invoiceOut' \in Seq(InvoiceEvents) /\ OutAddressed'
  BY DEF OutAddressed
<1>4. faults' \in [FaultKinds -> Nat]
  BY FaultTyped DEF FundingInv, FaultKinds
<1>5. ConsumerInv'
  BY <1>3, <1>4, ConsumerUntouched DEF FundingInv, OthersStay
<1>6. InvoiceTypeOK' /\ RowConsistent' /\ JobsAddressed'
  BY <1>1, <1>2 DEF FundingInv, InvoiceTypeOK, RowConsistent, JobsAddressed,
     OthersStay
<1>7. FundedHasPayer'
  BY RowsStay DEF RowsOK
<1> QED
  BY <1>1, <1>3, <1>5, <1>6, <1>7 DEF FundingInv

\* Every step of the invoices service keeps the invariant.
LEMMA InvoiceMovesInv ==
    ASSUME FundingInv, InvoiceMoves
    PROVE  FundingInv'
<1>1. OthersStay
  BY DEF InvoiceMoves, OthersStay
<1>2. ASSUME NEW i \in Invoices, CreateRow(i) \/ CreateReject(i) \/ AnnounceRow(i)
      PROVE  FundingInv'
  BY <1>1, <1>2, CreateInv
<1>3. ASSUME NEW c \in Calls, FundRequest(c) \/ FundStep(c) \/ FundReject(c)
      PROVE  FundingInv'
  BY <1>1, <1>3, FundInv
<1>4. ASSUME NEW j \in jobs, JobStep(j) \/ JobReject(j)
      PROVE  FundingInv'
  BY <1>1, <1>4, JobFindInv, JobUpdateInv, JobProduceInv, JobEndInv DEF JobStep
<1> QED
  BY <1>1, <1>2, <1>3, <1>4, StartJobInv, InvoiceCrashInv
  DEF InvoiceMoves, InvoiceNext, InvoiceWork

----------------------------------------------------------------------------
(* The broker and the users service.                                        *)

\* Whatever keeps the consumer's invariant, only adds charges and leaves the
\* invoices service alone keeps the whole.
LEMMA InvoicesStay ==
    ASSUME FundingInv, ConsumerInv', ChargesGrow, OutAddressed',
           UNCHANGED invoiceState, Len(userTopic') >= Len(userTopic)
    PROVE  FundingInv'
<1> USE DEF invoiceState
<1>1. Len(userTopic) \in Nat /\ Len(userTopic') \in Nat
  BY DEF FundingInv, ConsumerInv, BrokerTypeOK
<1>2. InvoiceTypeOK'
  BY <1>1 DEF FundingInv, InvoiceTypeOK
<1>3. RowConsistent' /\ JobsAddressed' /\ CallsChecked'
  BY DEF FundingInv, RowConsistent, JobsAddressed, CallsChecked
<1>4. FundedHasPayer'
  <2>1. ASSUME NEW u \in Users, NEW i \in Invoices
        PROVE  Charged(u, i) \in Nat /\ Charged(u, i)' \in Nat
    <3>1. /\ held \in [Users -> [Invoices -> Nat]]
          /\ spent \in [Users -> [Invoices -> Nat]]
          /\ held' \in [Users -> [Invoices -> Nat]]
          /\ spent' \in [Users -> [Invoices -> Nat]]
      BY DEF FundingInv, ConsumerInv, ConsumerTypeOK
    <3> QED
      BY ONLY <3>1, u \in Users, i \in Invoices DEF Charged
  <2>2. ASSUME NEW i \in Invoices, rows'[i].status = "funded"
        PROVE  \E u \in Users : Charged(u, i)' >= 1
    <3>1. PICK u \in Users : Charged(u, i) >= 1
      BY <2>2 DEF FundingInv, FundedHasPayer
    <3>2. Charged(u, i)' >= 1
      BY <2>1, <3>1 DEF ChargesGrow
    <3> QED
      BY <3>2
  <2> QED
    BY <2>2 DEF FundedHasPayer, Charged
<1> QED
  BY <1>2, <1>3, <1>4 DEF FundingInv

\* The broker moves, repeats and loses messages.
LEMMA BrokerMovesInv ==
    ASSUME FundingInv, BrokerMoves
    PROVE  FundingInv'
<1>1. UNCHANGED userProcess /\ UNCHANGED invoiceState
  BY DEF BrokerMoves, userState, userProcess, store, progress
<1>2. CASE DeliverUser \/ ResendUser \/ DropUser
  <2>1. ConsumerInv' /\ ChargesGrow
    BY <1>1, <1>2, UserSenderInv DEF FundingInv
  <2>2. UNCHANGED invoiceOut
        /\ (userTopic' = userTopic \/ userTopic' = Append(userTopic, Head(userOut)))
    BY <1>2 DEF DeliverUser, ResendUser, DropUser
  <2>3. Len(userTopic') >= Len(userTopic)
    BY <2>2 DEF FundingInv, ConsumerInv, BrokerTypeOK
  <2>4. OutAddressed'
    BY <2>2 DEF FundingInv, OutAddressed
  <2> QED
    BY <1>1, <2>1, <2>3, <2>4, InvoicesStay
<1>3. CASE DeliverInvoice \/ ResendInvoice \/ DropInvoice
  <2> USE <1>3 DEF DeliverInvoice, ResendInvoice, DropInvoice
  <2> DEFINE e == Head(invoiceOut)
  <2>1. /\ invoiceOut \in Seq(InvoiceEvents)
        /\ invoiceOut # <<>>
        /\ invoiceOut' = Tail(invoiceOut) \/ invoiceOut' = invoiceOut
        /\ invoiceTopic' = Append(invoiceTopic, e) \/ invoiceTopic' = invoiceTopic
        /\ UNCHANGED <<userTopic, userOut>>
    BY DEF FundingInv, ConsumerInv, BrokerTypeOK
  <2>2. faults' \in [FaultKinds -> Nat]
    BY FaultTyped DEF FundingInv, ConsumerInv, BrokerTypeOK, FaultKinds
  <2>3. e \in InvoiceEvents /\ Addressed(e)
    BY <2>1 DEF FundingInv, OutAddressed
  <2>4. invoiceOut' \in Seq(InvoiceEvents) /\ OutAddressed'
    <3>1. CASE invoiceOut' = invoiceOut
      BY <2>1, <3>1 DEF FundingInv, OutAddressed
    <3>2. CASE invoiceOut' = Tail(invoiceOut)
      <4>1. /\ Tail(invoiceOut) \in Seq(InvoiceEvents)
            /\ Len(invoiceOut) \in Nat
            /\ Len(Tail(invoiceOut)) = Len(invoiceOut) - 1
            /\ \A k \in 1 .. Len(invoiceOut) - 1 :
                  Tail(invoiceOut)[k] = invoiceOut[k + 1]
        BY <2>1
      <4>2. \A k \in 1 .. Len(invoiceOut) : Addressed(invoiceOut[k])
        BY DEF FundingInv, OutAddressed
      <4>3. ASSUME NEW k \in 1 .. Len(invoiceOut')
            PROVE  Addressed(invoiceOut'[k])
        <5>1. /\ k \in 1 .. Len(invoiceOut) - 1
              /\ k + 1 \in 1 .. Len(invoiceOut)
          BY ONLY <3>2, <4>1, k \in 1 .. Len(invoiceOut')
        <5> QED
          BY ONLY <3>2, <4>1, <4>2, <5>1
      <4> QED
        BY <3>2, <4>1, <4>3 DEF OutAddressed, Addressed
    <3> QED
      BY <2>1, <3>1, <3>2
  <2>5. ConsumerInv' /\ ChargesGrow
    <3>1. CASE invoiceTopic' = Append(invoiceTopic, e)
      <4> HIDE DEF e
      <4> QED
        BY <1>1, <2>1, <2>2, <2>3, <2>4, <3>1, InvoiceTopicGrowsInv
        DEF FundingInv, Addressed
    <3>2. CASE invoiceTopic' = invoiceTopic
      <4>1. UNCHANGED <<invoiceTopic, userTopic, userVars>>
        BY <1>1, <2>1, <3>2 DEF userProcess, store, progress, userVars
      <4>2. ConsumerInv'
        BY <2>2, <2>4, <4>1, ConsumerUntouched DEF FundingInv
      <4>3. ChargesGrow
        BY <4>1, HeldTypes DEF FundingInv, ChargesGrow, Charged, userVars
      <4> QED
        BY <4>2, <4>3
    <3> QED
      BY <2>1, <3>1, <3>2
  <2> HIDE DEF e
  <2>6. Len(userTopic') >= Len(userTopic)
    BY <2>1 DEF FundingInv, ConsumerInv, BrokerTypeOK
  <2> QED
    BY <1>1, <2>4, <2>5, <2>6, InvoicesStay
<1> QED
  BY <1>2, <1>3 DEF BrokerMoves, BrokerNext

\* Every step of the system keeps the invariant.
LEMMA NextFunding == FundingInv /\ [Next]_vars => FundingInv'
<1> SUFFICES ASSUME FundingInv, [Next]_vars PROVE FundingInv'
  OBVIOUS
<1>1. CASE UserMoves
  <2>1. LogsStay /\ UNCHANGED invoiceState
    BY <1>1 DEF UserMoves, LogsStay, invoiceVars, invoiceState
  <2>2. ConsumerInv' /\ ChargesGrow
    BY <1>1, <2>1, ConsumerNextInv DEF UserMoves, FundingInv
  <2>3. OutAddressed' /\ Len(userTopic') >= Len(userTopic)
    BY <2>1 DEF LogsStay, FundingInv, OutAddressed, ConsumerInv, BrokerTypeOK
  <2> QED
    BY <2>1, <2>2, <2>3, InvoicesStay
<1>2. CASE InvoiceMoves
  BY <1>2, InvoiceMovesInv
<1>3. CASE BrokerMoves
  BY <1>3, BrokerMovesInv
<1>4. CASE UNCHANGED vars
  <2>1. OthersStay /\ UNCHANGED <<invoiceState, invoiceOut, faults>>
    BY <1>4 DEF vars, OthersStay, brokerVars, invoiceVars, invoiceState
  <2>2. ConsumerInv'
    BY <2>1, ConsumerUntouched DEF FundingInv, OthersStay, ConsumerInv, BrokerTypeOK
  <2>3. ChargesGrow
    BY <2>1, HeldTypes DEF FundingInv, ChargesGrow, Charged, OthersStay, userVars
  <2>4. OutAddressed' /\ Len(userTopic') >= Len(userTopic)
    BY <2>1 DEF OthersStay, FundingInv, OutAddressed, ConsumerInv, BrokerTypeOK
  <2> QED
    BY <2>1, <2>2, <2>3, <2>4, InvoicesStay
<1> QED
  BY <1>1, <1>2, <1>3, <1>4 DEF Next

\* The inductive invariant holds in every state of every behaviour.
LEMMA FundingInvariant == Spec => []FundingInv
  BY InitFunding, NextFunding, PTL DEF Spec

\* Both services keep their types.
THEOREM TypeCorrect == Spec => []TypeOK
<1>1. FundingInv => TypeOK
  BY DEF FundingInv, ConsumerInv, TypeOK
<1> QED
  BY <1>1, FundingInvariant, PTL

\* No invoice is ever funded without a user who is charged for it, under
\* racing calls and handlers and every fault of the model.
THEOREM FundedIsPaidFor == Spec => []FundedHasPayer
<1>1. FundingInv => FundedHasPayer
  BY DEF FundingInv
<1> QED
  BY <1>1, FundingInvariant, PTL

\* Rows stay consistent, and the provider never becomes the investor.
THEOREM RowsConsistent == Spec => []RowConsistent
<1>1. FundingInv => RowConsistent
  BY DEF FundingInv
<1> QED
  BY <1>1, FundingInvariant, PTL

----------------------------------------------------------------------------
(* Who asked for what.                                                      *)

\* A Fund call of this investor for this invoice has queued its event.
AskedFor(u, i) ==
    \E c \in Calls : /\ call[c].pc = "done"
                     /\ call[c].invoice = i
                     /\ call[c].investor = u

AskedEvent(e) == IsFundRequest(e) => AskedFor(e.user, e.invoice)

\* No other event asks for money, and only who asked is charged.
TopicAsked == \A k \in 1 .. Len(invoiceTopic) : AskedEvent(invoiceTopic[k])
BufferAsked == \A k \in 1 .. Len(invoiceOut) : AskedEvent(invoiceOut[k])

OnlyAsked ==
    /\ Dispatched
    /\ TopicAsked
    /\ BufferAsked
    /\ \A u \in Users, i \in Invoices : Charged(u, i) >= 1 => AskedFor(u, i)

\* A Fund call keeps its request and, once it has ended, its end.
CallsFinal ==
    \A c \in Calls : /\ call'[c].invoice = call[c].invoice
                     /\ call'[c].investor = call[c].investor
                     /\ call[c].pc \in {"done", "failed", "lost"}
                          => call'[c].pc = call[c].pc
                     /\ call[c].pc # "idle" => call'[c].pc # "idle"

\* No step, however calls are made, changes a request or takes an end back.
LEMMA CallsEnd ==
    ASSUME FundingInv,
           \/ [Next]_vars
           \/ \E c \in Calls : FundRequest(c)
    PROVE  CallsFinal
<1>1. call \in [Calls -> [pc : CallSteps, invoice : Invoices, investor : Users]]
  BY DEF FundingInv, InvoiceTypeOK
<1>2. CASE UNCHANGED call
  BY <1>2 DEF CallsFinal
<1>3. ASSUME NEW c \in Calls, FundRequest(c) \/ FundStep(c) \/ FundReject(c)
      PROVE  CallsFinal
  <2>1. PICK pc \in CallSteps \ {"idle"} :
          call' = [call EXCEPT ![c].pc = pc]
    BY <1>3 DEF FundRequest, FundStep, FundFind, FundUpdate, FundProduce,
       FundReject, Goto, CallSteps
  <2>2. call[c].pc \notin {"done", "failed", "lost"}
    BY <1>3 DEF FundRequest, FundStep, FundFind, FundUpdate, FundProduce,
       FundReject, InProgress
  <2> QED
    BY <1>1, <2>1, <2>2 DEF CallsFinal
<1>4. CASE InvoiceCrash
  BY <1>1, <1>4 DEF InvoiceCrash, InProgress, CallsFinal
<1>5. CASE UserMoves \/ BrokerMoves \/ UNCHANGED vars
  BY <1>2, <1>5 DEF UserMoves, BrokerMoves, vars, invoiceVars, invoiceState
<1>6. CASE InvoiceMoves
  <2>1. ASSUME NEW i \in Invoices, CreateRow(i) \/ CreateReject(i) \/ AnnounceRow(i)
        PROVE  UNCHANGED call
    BY <2>1 DEF CreateRow, CreateReject, AnnounceRow
  <2>2. ASSUME NEW j \in jobs, JobStep(j) \/ JobReject(j)
        PROVE  UNCHANGED call
    BY <2>2 DEF JobStep, JobFind, JobUpdate, JobProduce, JobNotFound, JobCommit,
       JobReject
  <2>3. StartJob => UNCHANGED call
    BY DEF StartJob
  <2> QED
    BY <1>2, <1>3, <1>4, <1>6, <2>1, <2>2, <2>3
       DEF InvoiceMoves, InvoiceNext, InvoiceWork
<1> QED
  BY <1>3, <1>5, <1>6 DEF Next

\* The invoices service appends at most one event, and a fund request only
\* for the call that it completes.
LEMMA AppendsAsked ==
    ASSUME FundingInv, OthersStay,
           InvoiceNext \/ (\E c \in Calls : FundRequest(c))
    PROVE  \/ UNCHANGED invoiceOut
           \/ invoiceOut' = <<>>
           \/ \E e \in InvoiceEvents : /\ invoiceOut' = Append(invoiceOut, e)
                                       /\ AskedEvent(e)'
<1>1. ASSUME NEW i \in Invoices, AnnounceRow(i)
      PROVE  \/ UNCHANGED invoiceOut
             \/ \E e \in InvoiceEvents : /\ invoiceOut' = Append(invoiceOut, e)
                                         /\ AskedEvent(e)'
  <2>1. InvoiceCreated(i) \in InvoiceEvents /\ ~IsFundRequest(InvoiceCreated(i))
    BY DEF InvoiceCreated, Event, InvoiceEvents, Statuses, IsFundRequest
  <2> QED
    BY <1>1, <2>1 DEF AnnounceRow, AskedEvent
<1>2. ASSUME NEW c \in Calls, FundProduce(c)
      PROVE  \E e \in InvoiceEvents : /\ invoiceOut' = Append(invoiceOut, e)
                                      /\ AskedEvent(e)'
  <2>1. call \in [Calls -> [pc : CallSteps, invoice : Invoices, investor : Users]]
    BY DEF FundingInv, InvoiceTypeOK
  <2>2. /\ FundRequested(c) \in InvoiceEvents
        /\ FundRequested(c).user = call[c].investor
        /\ FundRequested(c).invoice = call[c].invoice
    BY <2>1 DEF FundRequested, InvoiceUpdated, Event, InvoiceEvents, Statuses
  <2>3. /\ call'[c].pc = "done"
        /\ call'[c].investor = call[c].investor
        /\ call'[c].invoice = call[c].invoice
    BY <1>2, <2>1 DEF FundProduce, Goto
  <2>5. PICK e \in InvoiceEvents : e = FundRequested(c)
    BY <2>2
  <2>6. AskedEvent(e)'
    BY <2>2, <2>3, <2>5 DEF AskedEvent, AskedFor
  <2> QED
    BY <1>2, <2>5, <2>6 DEF FundProduce
<1>3. ASSUME NEW j \in jobs, JobProduce(j) \/ JobNotFound(j)
      PROVE  \E e \in InvoiceEvents : /\ invoiceOut' = Append(invoiceOut, e)
                                      /\ AskedEvent(e)'
  <2>1. PICK e \in InvoiceEvents : /\ invoiceOut' = Append(invoiceOut, e)
                                   /\ ~IsFundRequest(e)
    BY <1>3, JobTypes DEF JobProduce, JobNotFound, Outcome, Row, InvoiceUpdated,
       ReservationNotFound, Event, InvoiceEvents, Statuses, IsFundRequest
  <2> QED
    BY <2>1 DEF AskedEvent
<1>4. ASSUME NEW c \in Calls, FundRequest(c) \/ FundFind(c) \/ FundUpdate(c)
                                \/ FundReject(c)
      PROVE  UNCHANGED invoiceOut
  BY <1>4 DEF FundRequest, FundFind, FundUpdate, FundReject
<1>5. ASSUME NEW j \in jobs, \/ JobFind(j) \/ JobUpdate(j) \/ JobCommit(j)
                             \/ JobReject(j)
      PROVE  UNCHANGED invoiceOut
  BY <1>5 DEF JobFind, JobUpdate, JobCommit, JobReject
<1> QED
  BY <1>1, <1>2, <1>3, <1>4, <1>5
     DEF InvoiceNext, InvoiceWork, FundStep, JobStep, CreateRow, CreateReject,
         StartJob, InvoiceCrash

\* Charges follow requests, however calls, messages and restarts interleave.
LEMMA OnlyAskedKept ==
    ASSUME FundingInv, OnlyAsked,
           \/ [Next]_vars
           \/ \E c \in Calls : OthersStay /\ FundRequest(c)
    PROVE  OnlyAsked'
<1>1. ASSUME NEW u, NEW i, AskedFor(u, i)
      PROVE  AskedFor(u, i)'
  BY <1>1, CallsEnd DEF CallsFinal, AskedFor
<1>2. ASSUME NEW e, AskedEvent(e)
      PROVE  AskedEvent(e)'
  BY <1>1, <1>2 DEF AskedEvent
<1>3. invoiceTopic \in Seq(InvoiceEvents) /\ invoiceOut \in Seq(InvoiceEvents)
  BY DEF FundingInv, ConsumerInv, BrokerTypeOK
<1>4. CASE OthersStay /\ (InvoiceNext \/ (\E c \in Calls : FundRequest(c)))
  <2>1. Dispatched'
    BY <1>4 DEF OthersStay, userVars, OnlyAsked, Dispatched, HoldSteps, Current
  <2>2. TopicAsked'
    BY <1>4, CallsEnd DEF OthersStay, OnlyAsked, TopicAsked, AskedEvent, CallsFinal,
       AskedFor
  <2>3. ASSUME NEW u \in Users, NEW i \in Invoices, Charged(u, i)' >= 1
        PROVE  AskedFor(u, i)'
    BY <1>1, <1>4, <2>3 DEF OthersStay, userVars, OnlyAsked, Charged
  <2>4. BufferAsked'
    <3>1. CASE UNCHANGED invoiceOut
      BY <3>1, CallsEnd DEF OnlyAsked, BufferAsked, AskedEvent, CallsFinal, AskedFor
    <3>2. CASE invoiceOut' = <<>>
      BY <3>2 DEF BufferAsked
    <3>3. ASSUME NEW e \in InvoiceEvents, invoiceOut' = Append(invoiceOut, e),
                 AskedEvent(e)'
          PROVE  BufferAsked'
      <4> SUFFICES ASSUME NEW k \in 1 .. Len(invoiceOut')
                   PROVE  AskedEvent(invoiceOut[k])'
        BY DEF BufferAsked
      <4>1. CASE k \in 1 .. Len(invoiceOut) /\ invoiceOut'[k] = invoiceOut[k]
        <5>1. PICK x : x = invoiceOut[k]
          OBVIOUS
        <5>2. AskedEvent(x)
          BY <4>1, <5>1 DEF OnlyAsked, BufferAsked
        <5>3. AskedEvent(x)'
          BY <1>2, <5>2
        <5> QED
          BY <4>1, <5>1, <5>3 DEF AskedEvent, AskedFor
      <4>2. CASE invoiceOut'[k] = e
        BY <3>3, <4>2 DEF AskedEvent, AskedFor
      <4> QED
        BY <1>3, <3>3, <4>1, <4>2
    <3> QED
      BY <1>4, <3>1, <3>2, <3>3, AppendsAsked
  <2> QED
    BY <2>1, <2>2, <2>3, <2>4 DEF OnlyAsked
<1>5. CASE UserMoves
  <2>1. LogsStay
    BY <1>5 DEF UserMoves, LogsStay, invoiceVars
  <2>2. Dispatched'
    BY <1>5, <2>1, DispatchedKept DEF UserMoves, FundingInv, OnlyAsked
  <2>3. ASSUME NEW u \in Users, NEW i \in Invoices, Charged(u, i)' >= 1
        PROVE  AskedFor(u, i)
    <3>1. CASE Charged(u, i)' = Charged(u, i)
      BY <2>3, <3>1 DEF OnlyAsked
    <3>2. CASE ChargesOne /\ u = Current.user /\ i = Current.invoice
      <4>1. IsFundRequest(Current)
        BY <3>2 DEF ChargesOne, OnlyAsked, Dispatched, HoldSteps
      <4>2. uPos \in 1 .. Len(invoiceTopic)
        BY <1>3, <3>2 DEF ChargesOne, FundingInv, ConsumerInv, InHand,
           ConsumerTypeOK
      <4> QED
        BY <3>2, <4>1, <4>2 DEF OnlyAsked, TopicAsked, AskedEvent, Current
    <3> QED
      BY <1>5, <2>1, <3>1, <3>2, ConsumerCharges
         DEF UserMoves, FundingInv, ChargesStay, ChargesOne
  <2>4. UNCHANGED call
    BY <1>5 DEF UserMoves, invoiceVars
  <2> QED
    BY <2>1, <2>2, <2>3, <2>4
       DEF OnlyAsked, TopicAsked, BufferAsked, LogsStay, AskedEvent, AskedFor
<1>6. CASE BrokerMoves
  <2> DEFINE e == Head(invoiceOut)
  <2>1. /\ UNCHANGED <<uPc, uPos, uReply, held, spent>>
        /\ \/ UNCHANGED <<invoiceTopic, invoiceOut>>
           \/ /\ invoiceOut # <<>>
              /\ invoiceOut' = Tail(invoiceOut) \/ UNCHANGED invoiceOut
              /\ \/ UNCHANGED invoiceTopic
                 \/ invoiceTopic' = Append(invoiceTopic, e)
    BY <1>6 DEF BrokerMoves, userState, store, progress, BrokerNext,
       DeliverInvoice, ResendInvoice, DropInvoice, DeliverUser, ResendUser,
       DropUser
  <2>2. invoiceOut # <<>> => e \in InvoiceEvents /\ AskedEvent(e)
    BY <1>3 DEF OnlyAsked, BufferAsked
  <2>3. \A k \in 1 .. Len(invoiceOut') : AskedEvent(invoiceOut'[k])
    <3>1. CASE UNCHANGED invoiceOut
      BY <3>1 DEF OnlyAsked, TopicAsked, BufferAsked
    <3>2. CASE invoiceOut # <<>> /\ invoiceOut' = Tail(invoiceOut)
      <4>1. \A k \in 1 .. Len(invoiceOut') :
              k + 1 \in 1 .. Len(invoiceOut) /\ invoiceOut'[k] = invoiceOut[k + 1]
        BY <1>3, <3>2
      <4> QED
        BY <4>1 DEF OnlyAsked, BufferAsked
    <3> QED
      BY <2>1, <3>1, <3>2
  <2> HIDE DEF e
  <2>4. /\ \A k \in 1 .. Len(invoiceTopic) : invoiceTopic'[k] = invoiceTopic[k]
        /\ \A k \in 1 .. Len(invoiceTopic') : AskedEvent(invoiceTopic'[k])
    <3>1. CASE UNCHANGED invoiceTopic
      BY <3>1 DEF OnlyAsked, TopicAsked, BufferAsked
    <3>2. CASE invoiceOut # <<>> /\ invoiceTopic' = Append(invoiceTopic, e)
      <4>1. /\ \A k \in 1 .. Len(invoiceTopic) : invoiceTopic'[k] = invoiceTopic[k]
            /\ \A k \in 1 .. Len(invoiceTopic') :
                  \/ k \in 1 .. Len(invoiceTopic)
                  \/ invoiceTopic'[k] = e
        BY <1>3, <2>2, <3>2
      <4> QED
        BY <2>2, <3>2, <4>1 DEF OnlyAsked, TopicAsked
    <3> QED
      BY <2>1, <3>1, <3>2
  <2>5. Dispatched'
    BY <2>1, <2>4, DispatchedStays DEF FundingInv, OnlyAsked
  <2> QED
    BY <1>6, <2>1, <2>3, <2>4, <2>5
       DEF OnlyAsked, TopicAsked, BufferAsked, Charged, AskedEvent, AskedFor,
           BrokerMoves, invoiceState
<1>7. CASE UNCHANGED vars
  BY <1>7 DEF vars, brokerVars, userVars, invoiceVars, OnlyAsked, TopicAsked,
     BufferAsked, Dispatched, HoldSteps, Current, AskedEvent, AskedFor, Charged
<1> QED
  BY <1>4, <1>5, <1>6, <1>7 DEF Next, InvoiceMoves, OthersStay
=============================================================================
