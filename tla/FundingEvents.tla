--------------------------- MODULE FundingEvents ---------------------------
(***************************************************************************)
(* The events the services exchange and the Kafka broker between them.     *)
(*                                                                         *)
(* docker-compose.yml creates two topics of one partition each: "invoice"  *)
(* (written by services/invoices, read by services/users) and "user"       *)
(* (written by services/users, read by services/invoices).  A topic is a   *)
(* log that only grows.  A producer does not write to the log: it puts the *)
(* message into a buffer of its own process (librdkafka's queue behind     *)
(* kafka-producer.js, sarama's Input() channel behind producer.go) and     *)
(* answers its caller at once; the client library sends it later, sends it *)
(* twice when the acknowledgement is lost, or gives up after its retries.  *)
(*                                                                         *)
(* Every event body holds an invoice and the user it concerns.  guid,      *)
(* created_at and updated_at are left out; the amount is a function of the *)
(* invoice, because no statement of the code ever updates that column.     *)
(*                                                                         *)
(* Money is counted in tenths of a cent: services/invoices stores amounts  *)
(* in a FLOAT column and sends them as they are, services/users stores     *)
(* them in numeric(26,2).                                                  *)
(***************************************************************************)
EXTENDS Integers, Sequences

CONSTANTS Users,      \* ids a request may name as investor or provider
          NoUser,     \* investor_id is NULL / a Kafka key is empty
          Invoices,   \* ids the invoices table hands out
          Provider,   \* provider_id of each invoice
          Amount,     \* amount of each invoice, in tenths of a cent
          FaultLimit  \* how often each kind of fault may happen in a run

\* The faults of the environment, one kind per place the code can meet one.
FaultKinds == {"drop",        \* a producer gives up on a message
               "resend",      \* a message is written to the log twice
               "db",          \* a statement of the users service fails
               "begin",       \* Begin() of its transaction fails
               "commit",      \* Commit() of its transaction fails
               "offset",      \* its offset commit fails
               "user_crash",  \* the users service restarts
               "call",        \* an awaited step of a gRPC call rejects
               "job",         \* an awaited step of an event handler rejects
               "invoice_crash"}  \* the invoices service restarts

ASSUME EventsAssumption ==
    /\ NoUser \notin Users
    /\ Provider \in [Invoices -> Users]
    /\ Amount \in [Invoices -> Int]
    /\ FaultLimit \in [FaultKinds -> Nat]

VARIABLES invoiceTopic,  \* the log of topic "invoice"
          userTopic,     \* the log of topic "user"
          invoiceOut,    \* buffer of the invoices service's producer
          userOut,       \* buffer of the users service's producer
          faults         \* how often each kind of fault has happened

brokerVars == <<invoiceTopic, userTopic, faults>>

----------------------------------------------------------------------------
(* Events.                                                                  *)

\* services/invoices/src/models/invoice.js: the ENUM of the status column.
Statuses == {"new", "pending_fund", "funded"}

Event(type, i, u, status) ==
    [type |-> type, invoice |-> i, user |-> u, status |-> status]

\* producers/invoice.js: the body is the summary of the handler's own
\* instance of the row; investor_id is absent when it is NULL.
InvoiceCreated(i) == Event("InvoiceCreated", i, NoUser, "new")
InvoiceUpdated(i, u, status) == Event("InvoiceUpdated", i, u, status)
ReservationNotFound(i, u) == Event("ReservationNotFound", i, u, "none")

InvoiceEvents == [type : {"InvoiceCreated", "InvoiceUpdated",
                          "ReservationNotFound"},
                  invoice : Invoices,
                  user : Users \cup {NoUser},
                  status : Statuses \cup {"none"}]

\* users/user/controllers.go: eventBuilder.  The key is the Kafka message
\* key: the investor's id, or empty.
Activity(type, i, u, key) ==
    [type |-> type, invoice |-> i, user |-> u, key |-> key]

UserEvents == [type : {"BalanceReserved", "InsufficientBalance",
                       "FunderNotFound", "UserUpdated"},
               invoice : Invoices,
               user : Users,
               key : Users \cup {NoUser}]

\* The message in which the invoices service asks the users service to hold
\* the amount, and the one in which it confirms the funding.
IsFundRequest(e) == e.type = "InvoiceUpdated" /\ e.status = "pending_fund"
IsFunded(e) == e.type = "InvoiceUpdated" /\ e.status = "funded"

\* What a column numeric(26,2) holds after x was written to it: Postgres
\* rounds to the cent, a half away from zero.
Cents(x) == IF x >= 0 THEN ((x + 5) \div 10) * 10 ELSE -(((5 - x) \div 10) * 10)

InWholeCents(i) == Cents(Amount[i]) = Amount[i]

----------------------------------------------------------------------------
(* The broker and the producers' background senders.                        *)

Fault(kind) ==
    /\ faults[kind] < FaultLimit[kind]
    /\ faults' = [faults EXCEPT ![kind] = @ + 1]

\* The client library gets the acknowledgement of the oldest message.
DeliverInvoice ==
    /\ invoiceOut # <<>>
    /\ invoiceTopic' = Append(invoiceTopic, Head(invoiceOut))
    /\ invoiceOut' = Tail(invoiceOut)
    /\ UNCHANGED <<userTopic, userOut, faults>>

DeliverUser ==
    /\ userOut # <<>>
    /\ userTopic' = Append(userTopic, Head(userOut))
    /\ userOut' = Tail(userOut)
    /\ UNCHANGED <<invoiceTopic, invoiceOut, faults>>

\* The message is written but its acknowledgement is lost: it stays in the
\* buffer and is sent again (message.send.max.retries, Producer.Retry.Max).
ResendInvoice ==
    /\ invoiceOut # <<>>
    /\ Fault("resend")
    /\ invoiceTopic' = Append(invoiceTopic, Head(invoiceOut))
    /\ UNCHANGED <<userTopic, invoiceOut, userOut>>

ResendUser ==
    /\ userOut # <<>>
    /\ Fault("resend")
    /\ userTopic' = Append(userTopic, Head(userOut))
    /\ UNCHANGED <<invoiceTopic, invoiceOut, userOut>>

\* The retries are used up.  Both services only log the report
\* (kafka-producer.js:17, producer.go:44) and nothing produces it again.
DropInvoice ==
    /\ invoiceOut # <<>>
    /\ Fault("drop")
    /\ invoiceOut' = Tail(invoiceOut)
    /\ UNCHANGED <<invoiceTopic, userTopic, userOut>>

DropUser ==
    /\ userOut # <<>>
    /\ Fault("drop")
    /\ userOut' = Tail(userOut)
    /\ UNCHANGED <<invoiceTopic, userTopic, invoiceOut>>

BrokerNext ==
    \/ DeliverInvoice
    \/ ResendInvoice
    \/ DropInvoice
    \/ DeliverUser
    \/ ResendUser
    \/ DropUser

BrokerInit ==
    /\ invoiceTopic = <<>>
    /\ userTopic = <<>>
    /\ invoiceOut = <<>>
    /\ userOut = <<>>
    /\ faults = [kind \in FaultKinds |-> 0]

BrokerTypeOK ==
    /\ invoiceTopic \in Seq(InvoiceEvents)
    /\ userTopic \in Seq(UserEvents)
    /\ invoiceOut \in Seq(InvoiceEvents)
    /\ userOut \in Seq(UserEvents)
    /\ faults \in [FaultKinds -> Nat]
=============================================================================
