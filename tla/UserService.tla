---------------------------- MODULE UserService ----------------------------
(***************************************************************************)
(* services/users as a whole: its consumer, the gRPC call that writes the  *)
(* same balances (server/server.go: UpdateUser), its producer, and an      *)
(* invoices service that may send it any well-formed events in any order.  *)
(***************************************************************************)
EXTENDS UserConsumer, FiniteSetsExt

CONSTANTS NewBalances,  \* balances an UpdateUser request may carry
          MaxUpdates,   \* bound on the UpdateUser calls
          MaxInvoiceEvents  \* bound on the events of the invoices service

ASSUME ServiceAssumption ==
    /\ NewBalances \subseteq Int
    /\ MaxUpdates \in Nat
    /\ MaxInvoiceEvents \in Nat

VARIABLES updates  \* UpdateUser calls made so far

serviceVars == <<brokerVars, invoiceOut, userVars, updates>>

\* What the producers of services/invoices can send: a summary has no
\* investor_id exactly when the invoice is new.
WellFormed ==
    {InvoiceCreated(i) : i \in Invoices}
      \cup {InvoiceUpdated(i, NoUser, "new") : i \in Invoices}
      \cup {InvoiceUpdated(i, u, status) : i \in Invoices, u \in Users,
                                           status \in {"pending_fund", "funded"}}
      \cup {ReservationNotFound(i, u) : i \in Invoices, u \in Users}

InvoiceEventArrives ==
    /\ Len(invoiceTopic) < MaxInvoiceEvents
    /\ \E e \in WellFormed : invoiceTopic' = Append(invoiceTopic, e)
    /\ UNCHANGED <<userTopic, invoiceOut, faults, userVars, updates>>

\* UpdateUser with change_balance set: one UPDATE by id, of any balance;
\* only CreateUser looks at the sign (server.go:79).  It waits for the
\* row lock of a transaction that has already written that row.  The
\* re-read that follows only fills the reply.
UpdateUser(u, b) ==
    /\ updates < MaxUpdates
    /\ u \in accounts
    /\ ~(uPc = "commit" /\ uTx = "open" /\ Current.user = u)
    /\ balance' = [balance EXCEPT ![u] = Cents(b)]
    /\ updates' = updates + 1
    /\ UNCHANGED <<brokerVars, invoiceOut, accounts, held, spent, uPc, uPos,
                   uRead, uTx, uReply, uMarked, uCommitted, answered, userOut>>

ProducerSends ==
    /\ DeliverUser \/ ResendUser \/ DropUser
    /\ UNCHANGED <<store, uPc, uPos, uRead, uTx, uReply, uMarked, uCommitted,
                   answered, updates>>

Consume ==
    /\ ConsumerNext
    /\ UNCHANGED <<invoiceTopic, userTopic, invoiceOut, updates>>

Init ==
    /\ BrokerInit
    /\ ConsumerInit
    /\ updates = 0

Next ==
    \/ InvoiceEventArrives
    \/ \E u \in Users, b \in NewBalances : UpdateUser(u, b)
    \/ ProducerSends
    \/ Consume

Spec == Init /\ [][Next]_serviceVars

TypeOK ==
    /\ BrokerTypeOK
    /\ ConsumerTypeOK
    /\ updates \in 0 .. MaxUpdates

\* Money moves from a balance into holds and nowhere else: balance, held
\* and settled amounts of a user add up to what the account was opened with,
\* under redelivery, crashes, failing statements and commits whose outcome
\* is unknown.  It takes a transaction (Begin did not fail,
\* controllers.go:166) and no other writer of the balance.
Conservation ==
    faults["begin"] = 0 /\ updates = 0
      => \A u \in Users :
            balance[u]
              + MapThenSumSet(LAMBDA i : Amount[i] * Charged(u, i), Invoices)
            = Opening[u]

\* A hold never overdraws an account.  UpdateUser may make a balance negative
\* and may write it between the comparison and the subtraction; what the
\* consumer writes is the value it compared with the amount, less that amount
\* (controllers.go:87, 179-180), so it is covered even when it is stale and
\* when the transaction is not one.
OnlyByUpdate ==
    updates' = updates
      => \A u \in Users : balance'[u] # balance[u] => balance'[u] >= 0

OnlyUpdatesOverdraw == [][OnlyByUpdate]_balance
=============================================================================
