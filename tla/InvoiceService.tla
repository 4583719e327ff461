--------------------------- MODULE InvoiceService --------------------------
(***************************************************************************)
(* services/invoices: the gRPC controller (api/controllers/invoice.js) and *)
(* the handlers of topic "user" (api/consumers/user.js) on the invoices    *)
(* table.                                                                  *)
(*                                                                         *)
(* Node runs one callback at a time, but every `await` of a promise lets   *)
(* other calls and handlers run.  A call or handler is therefore a small   *)
(* process whose step between two promises is one action.  kafka-consumer  *)
(* starts a handler for every message it reads without waiting for the     *)
(* one before, so any number of them are in flight together.               *)
(***************************************************************************)
EXTENDS FundingEvents

CONSTANTS Calls,       \* identities of the Fund calls made in a run
          SerialFunds, \* TRUE: no two Fund calls are in progress together
          StableGroup  \* TRUE: the consumer group keeps its name (production)

ASSUME InvoiceAssumption ==
    /\ SerialFunds \in BOOLEAN
    /\ StableGroup \in BOOLEAN

VARIABLES
    rows,        \* invoices table: [status, investor] of each id
    creation,    \* the Create call that makes each invoice
    call,        \* the Fund calls
    jobs,        \* the event handlers in flight
    iPos,        \* messages of topic "user" read by the consumer
    iCommitted   \* offset the broker holds for the consumer group

invoiceVars == <<rows, creation, call, jobs, iPos, iCommitted, invoiceOut>>

CallSteps == {"idle", "find", "update", "produce", "done", "failed", "lost"}
JobSteps == {"find", "update", "produce", "not_found", "commit"}

Row(status, u) == [status |-> status, investor |-> u]
NoRow == Row("none", NoUser)

InvoiceInit ==
    /\ rows = [i \in Invoices |-> NoRow]
    /\ creation = [i \in Invoices |-> "idle"]
    /\ call \in [Calls -> [pc : {"idle"}, invoice : Invoices,
                           investor : Users]]
    /\ jobs = {}
    /\ iPos = 0
    /\ iCommitted = 0

----------------------------------------------------------------------------
(* Create.                                                                  *)

\* Invoice.create, once the producer is known to be connected.
CreateRow(i) ==
    /\ creation[i] = "idle"
    /\ creation' = [creation EXCEPT ![i] = "produce"]
    /\ rows' = [rows EXCEPT ![i] = Row("new", NoUser)]
    /\ UNCHANGED <<call, jobs, iPos, iCommitted, invoiceOut, faults>>

\* ensureConnection or Invoice.create rejects, the latter with or without a
\* row in the table.
CreateReject(i) ==
    /\ creation[i] = "idle"
    /\ Fault("call")
    /\ creation' = [creation EXCEPT ![i] = "failed"]
    /\ \/ rows' = [rows EXCEPT ![i] = Row("new", NoUser)]
       \/ UNCHANGED rows
    /\ UNCHANGED <<call, jobs, iPos, iCommitted, invoiceOut>>

\* produce() only fills the local queue; when it throws, the client gets an
\* error for a row that stays.
AnnounceRow(i) ==
    /\ creation[i] = "produce"
    /\ \/ /\ invoiceOut' = Append(invoiceOut, InvoiceCreated(i))
          /\ creation' = [creation EXCEPT ![i] = "done"]
          /\ UNCHANGED faults
       \/ /\ Fault("call")
          /\ creation' = [creation EXCEPT ![i] = "failed"]
          /\ UNCHANGED invoiceOut
    /\ UNCHANGED <<rows, call, jobs, iPos, iCommitted>>

----------------------------------------------------------------------------
(* Fund.                                                                    *)

Goto(c, pc) == call' = [call EXCEPT ![c].pc = pc]

InProgress(c) == call[c].pc \in {"find", "update", "produce"}

FundRequest(c) ==
    /\ call[c].pc = "idle"
    /\ Goto(c, "find")
    /\ UNCHANGED <<rows, creation, jobs, iPos, iCommitted, invoiceOut, faults>>

\* Mutants of Fundable: the query finds a row of any status, or of any but
\* pending_fund, or the provider is not compared with the investor.
FundableAnyStatus(i, u) == rows[i] # NoRow /\ Provider[i] # u
FundableNotPending(i, u) == rows[i].status \in {"new", "funded"} /\ Provider[i] # u
FundableByAnyone(i, u) == rows[i].status = "new"

\* findOne with status 'new' in the query, then the provider check on the
\* row that was found.
Fundable(i, u) == rows[i].status = "new" /\ Provider[i] # u

FundFind(c) ==
    /\ call[c].pc = "find"
    /\ Goto(c, IF Fundable(call[c].invoice, call[c].investor)
               THEN "update" ELSE "failed")
    /\ UNCHANGED <<rows, creation, jobs, iPos, iCommitted, invoiceOut, faults>>

\* invoice.update sends UPDATE ... WHERE id = ...: the status that was read
\* is not in the condition.
WritePending(c) ==
    rows' = [rows EXCEPT ![call[c].invoice] =
                 Row("pending_fund", call[c].investor)]

FundUpdate(c) ==
    /\ call[c].pc = "update"
    /\ WritePending(c)
    /\ Goto(c, "produce")
    /\ UNCHANGED <<creation, jobs, iPos, iCommitted, invoiceOut, faults>>

\* Mutant of FundRequested: the body is the summary from before the update.
FundRequestedStale(c) == InvoiceUpdated(call[c].invoice, NoUser, "new")

\* Mutant of FundRequested: the body is read from the table again, not from the
\* instance the call has updated.
FundRequestedReread(c) ==
    InvoiceUpdated(call[c].invoice, rows[call[c].invoice].investor, "pending_fund")

FundRequested(c) ==
    InvoiceUpdated(call[c].invoice, call[c].investor, "pending_fund")

FundProduce(c) ==
    /\ call[c].pc = "produce"
    /\ invoiceOut' = Append(invoiceOut, FundRequested(c))
    /\ Goto(c, "done")
    /\ UNCHANGED <<rows, creation, jobs, iPos, iCommitted, faults>>

\* ensureConnection, findOne, update or produce rejects: the client gets the
\* error and nothing is undone.  Postgres may have applied an update whose
\* promise rejects.
FundReject(c) ==
    /\ InProgress(c)
    /\ Fault("call")
    /\ UNCHANGED rows \/ (call[c].pc = "update" /\ WritePending(c))
    /\ Goto(c, "failed")
    /\ UNCHANGED <<creation, jobs, iPos, iCommitted, invoiceOut>>

----------------------------------------------------------------------------
(* Event handlers: balanceReserved, insufficientBalance, funderNotFound.    *)

\* A handler: the offset of its message, the promise it waits on and, from
\* findOne on, the investor in its instance of the row.
Job(offset, step, investor) ==
    [offset |-> offset, step |-> step, investor |-> investor]

Msg(j) == userTopic[j.offset]

Step(j, next) == jobs' = (jobs \ {j}) \cup {next}

\* dataHandler: a type without a handler method resolves at once
\* (base-consumer.js:13).
StartJob ==
    /\ iPos < Len(userTopic)
    /\ iPos' = iPos + 1
    /\ jobs' = jobs \cup
         {Job(iPos + 1,
              IF userTopic[iPos + 1].type = "UserUpdated" THEN "commit"
              ELSE "find",
              NoUser)}
    /\ UNCHANGED <<rows, creation, call, iCommitted, invoiceOut, faults>>

\* findOne with status 'pending_fund'.  Nobody compares the investor of the
\* row with the user of the event.
JobFind(j) ==
    /\ j.step = "find"
    /\ LET row == rows[Msg(j).invoice]
       IN Step(j, IF row.status = "pending_fund"
                  THEN Job(j.offset, "update", row.investor)
                  ELSE Job(j.offset, "not_found", NoUser))
    /\ UNCHANGED <<rows, creation, call, iPos, iCommitted, invoiceOut, faults>>

\* Mutant of Outcome: the event of every handler says that the invoice is
\* free again.
OutcomeAlwaysNew(j) == Row("new", NoUser)

\* What the handler leaves in its own instance, and puts in the event.
Outcome(j) == IF Msg(j).type = "BalanceReserved"
              THEN Row("funded", j.investor)
              ELSE Row("new", NoUser)

\* Mutants of Written: every answer funds the invoice; the handlers of
\* BalanceReserved and InsufficientBalance are swapped; a reset leaves the
\* investor.
WrittenFunded(j, row) == [row EXCEPT !.status = "funded"]
WrittenSwapped(j, row) == IF Msg(j).type = "InsufficientBalance"
                          THEN [row EXCEPT !.status = "funded"]
                          ELSE Row("new", NoUser)
WrittenStatus(j, row) == [row EXCEPT !.status = Outcome(j).status]

\* instance.update writes the columns that differ from the instance: the
\* status alone when the invoice is funded, both when it is reset.
Written(j, row) == IF Msg(j).type = "BalanceReserved"
                   THEN [row EXCEPT !.status = "funded"]
                   ELSE Row("new", NoUser)

WriteOutcome(j) == rows' = [rows EXCEPT ![Msg(j).invoice] = Written(j, @)]

JobUpdate(j) ==
    /\ j.step = "update"
    /\ WriteOutcome(j)
    /\ Step(j, [j EXCEPT !.step = "produce"])
    /\ UNCHANGED <<creation, call, iPos, iCommitted, invoiceOut, faults>>

JobProduce(j) ==
    /\ j.step = "produce"
    /\ invoiceOut' = Append(invoiceOut,
                            InvoiceUpdated(Msg(j).invoice, Outcome(j).investor,
                                           Outcome(j).status))
    /\ Step(j, [j EXCEPT !.step = "commit"])
    /\ UNCHANGED <<rows, creation, call, iPos, iCommitted, faults>>

JobNotFound(j) ==
    /\ j.step = "not_found"
    /\ invoiceOut' = Append(invoiceOut,
                            ReservationNotFound(Msg(j).invoice, Msg(j).user))
    /\ Step(j, [j EXCEPT !.step = "commit"])
    /\ UNCHANGED <<rows, creation, call, iPos, iCommitted, faults>>

\* The handler rejects: the error is logged, the message is not committed
\* and not read again before a restart.
JobReject(j) ==
    /\ j.step # "commit"
    /\ Fault("job")
    /\ UNCHANGED rows \/ (j.step = "update" /\ WriteOutcome(j))
    /\ jobs' = jobs \ {j}
    /\ UNCHANGED <<creation, call, iPos, iCommitted, invoiceOut>>

\* Mutant of NextOffset: the offset is incremented once too often.
NextOffsetTwice(j) == j.offset + 1

\* Kafka's offset of the message after this one; messages are counted from 1
\* here and from 0 by Kafka.
NextOffset(j) == j.offset

\* commit(data) sends the offset of this message whatever was committed
\* before it; a failure is logged.
JobCommit(j) ==
    /\ j.step = "commit"
    /\ jobs' = jobs \ {j}
    /\ \/ iCommitted' = NextOffset(j) /\ UNCHANGED faults
       \/ Fault("job") /\ UNCHANGED iCommitted
    /\ UNCHANGED <<rows, creation, call, iPos, invoiceOut>>

----------------------------------------------------------------------------

\* Kill and restart.  Outside production config/index.js appends a random
\* number to the group name, so the new process starts at the first message.
InvoiceCrash ==
    /\ Fault("invoice_crash")
    /\ creation' = [i \in Invoices |-> IF creation[i] = "produce"
                                       THEN "lost" ELSE creation[i]]
    /\ call' = [c \in Calls |-> IF InProgress(c)
                                THEN [call[c] EXCEPT !.pc = "lost"]
                                ELSE call[c]]
    /\ jobs' = {}
    /\ iPos' = IF StableGroup THEN iCommitted ELSE 0
    /\ iCommitted' = IF StableGroup THEN iCommitted ELSE 0
    /\ invoiceOut' = <<>>
    /\ UNCHANGED rows

FundStep(c) == FundFind(c) \/ FundUpdate(c) \/ FundProduce(c)

JobStep(j) ==
    \/ JobFind(j)
    \/ JobUpdate(j)
    \/ JobProduce(j)
    \/ JobNotFound(j)
    \/ JobCommit(j)

\* The callbacks that are due in a process that has calls and handlers.
InvoiceWork ==
    \/ \E i \in Invoices : AnnounceRow(i)
    \/ \E c \in Calls : FundStep(c) \/ FundReject(c)
    \/ \E j \in jobs : JobStep(j) \/ JobReject(j)

\* When SerialFunds bounds the clients, a Fund call waits for the one before.
Turn == SerialFunds => \A c \in Calls : ~InProgress(c)

InvoiceNext ==
    \/ \E i \in Invoices : CreateRow(i) \/ CreateReject(i)
    \/ \E c \in Calls : Turn /\ FundRequest(c)
    \/ StartJob
    \/ InvoiceWork
    \/ InvoiceCrash

----------------------------------------------------------------------------
(* Properties.                                                              *)

InvoiceTypeOK ==
    /\ rows \in [Invoices -> [status : Statuses \cup {"none"},
                             investor : Users \cup {NoUser}]]
    /\ creation \in [Invoices -> {"idle", "produce", "done", "failed", "lost"}]
    /\ call \in [Calls -> [pc : CallSteps, invoice : Invoices,
                           investor : Users]]
    /\ jobs \subseteq [offset : 1 .. Len(userTopic), step : JobSteps,
                      investor : Users \cup {NoUser}]
    /\ iPos \in 0 .. Len(userTopic)
    /\ iCommitted \in 0 .. Len(userTopic)

\* Whatever calls and handlers interleave: a row that can be funded has no
\* investor, a row that waits for money has one, and the provider of an
\* invoice never becomes its investor although the check that forbids it
\* (controllers/invoice.js:78) is one promise away from the write.
RowConsistent ==
    \A i \in Invoices :
        /\ rows[i].status = "new" => rows[i].investor = NoUser
        /\ rows[i].status = "pending_fund" => rows[i].investor \in Users
        /\ rows[i].investor # Provider[i]
=============================================================================
