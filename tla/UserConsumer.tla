---------------------------- MODULE UserConsumer ---------------------------
(***************************************************************************)
(* services/users: the goroutine that reads topic "invoice" (Listen in     *)
(* events/consumer.go), the controllers it calls (user/controllers.go) and *)
(* the two tables they work on (user/models.go).                           *)
(*                                                                         *)
(* Listen handles one message at a time, but every statement it sends to   *)
(* Postgres, the buffering of the answer and the commit of the offset are  *)
(* separate steps here: the process can be killed between any two of them  *)
(* and starts again at the offset the broker holds.                        *)
(***************************************************************************)
EXTENDS FundingEvents

CONSTANTS Registered,  \* ids CreateUser has handed out
          Opening      \* and the balance each of them was created with

ASSUME AccountsAssumption ==
    /\ Registered \subseteq Users
    /\ Opening \in [Users -> Nat]

VARIABLES
    \* the users database
    accounts,     \* ids with a row in table users
    balance,      \* column balance of that row
    held,         \* rows of table held_balance per user and invoice
    spent,        \* history: rows of held_balance deleted by funded()
    \* the process
    uPc,          \* where the controller stands
    uPos,         \* messages of topic "invoice" taken from the consumer
    uRead,        \* investor.Balance, as pendingFund read it
    uTx,          \* state of transactionSession
    uReply,       \* type of the event the controller returns, or "none"
    uMarked,      \* offset marked in the process
    uCommitted,   \* offset the broker holds for the consumer group
    answered      \* history: offsets whose answer was handed to Outbound

store == <<accounts, balance, held, spent>>
progress == <<uPos, uMarked, uCommitted, answered>>
userVars == <<accounts, balance, held, spent, uPc, uPos, uRead, uTx, uReply,
              uMarked, uCommitted, answered, userOut>>

Replies == {"BalanceReserved", "InsufficientBalance", "FunderNotFound",
            "UserUpdated"}

\* The message in hand: parseEvent's result, unchanged until the next one.
Current == invoiceTopic[uPos]

ConsumerInit ==
    /\ accounts = Registered
    /\ balance = Opening
    /\ held = [u \in Users |-> [i \in Invoices |-> 0]]
    /\ spent = [u \in Users |-> [i \in Invoices |-> 0]]
    /\ uPc = "poll"
    /\ uPos = 0
    /\ uRead = 0
    /\ uTx = "none"
    /\ uReply = "none"
    /\ uMarked = 0
    /\ uCommitted = 0
    /\ answered = {}

----------------------------------------------------------------------------
(* The ways a controller returns.                                           *)

\* Mutant of Return: the event is marked as handled and not passed on.
ReturnUnpublished(reply) == uPc' = "mark" /\ uReply' = "none"

\* (event, nil) or (nil, nil): the event goes to Outbound, the message is
\* marked.
Return(reply) ==
    /\ uPc' = IF reply = "none" THEN "mark" ELSE "outbound"
    /\ uReply' = reply

\* (nil, err): Listen neither publishes nor marks, and takes the next
\* message; `defer session.Close()` ends the session.
ReturnError ==
    /\ uPc' = "poll"
    /\ uReply' = "none"
    /\ uTx' = "none"

\* Mutants of Found: a hold is never found, or found when it is missing.
FoundNever(u, i) == FALSE
FoundSwapped(u, i) == held[u][i] = 0

\* checkHeldBalance compares the amount column with the amount of the event,
\* which matches what the insert has rounded only for whole cents.
Found(u, i) == held[u][i] > 0 /\ InWholeCents(i)

SetHeld(n) == held' = [held EXCEPT ![Current.user][Current.invoice] = n]

----------------------------------------------------------------------------
(* Listen takes a message and SortConsumedMessage dispatches on its type    *)
(* and, for InvoiceUpdated, on the status of the invoice.                   *)

Receive ==
    /\ uPc = "poll"
    /\ uPos < Len(invoiceTopic)
    /\ uPos' = uPos + 1
    /\ LET e == invoiceTopic[uPos + 1]
       IN uPc' = IF IsFundRequest(e) THEN "get_investor"
                 ELSE IF IsFunded(e) THEN "check_funded"
                 ELSE "mark"   \* nothing to do, ReservationNotFound included
    /\ UNCHANGED <<store, uRead, uTx, uReply, uMarked, uCommitted, answered,
                   userOut, faults>>

CanPay(u, i) == balance[u] >= Amount[i]

\* pendingFund up to the opening of the session: the balance is compared
\* before anything asks whether it is already held.
GetInvestor ==
    /\ uPc = "get_investor"
    /\ \/ /\ Current.user \notin accounts
          /\ Return("FunderNotFound")
          /\ UNCHANGED <<uRead, faults>>
       \/ /\ Current.user \in accounts
          /\ ~CanPay(Current.user, Current.invoice)
          /\ Return("InsufficientBalance")
          /\ UNCHANGED <<uRead, faults>>
       \/ /\ Current.user \in accounts
          /\ CanPay(Current.user, Current.invoice)
          /\ uRead' = balance[Current.user]
          /\ uPc' = "check_held"
          /\ UNCHANGED <<uReply, faults>>
       \/ /\ Fault("db")
          /\ uPc' = "poll"
          /\ UNCHANGED <<uRead, uReply>>
    /\ UNCHANGED <<store, progress, uTx, userOut>>

\* holdBalance asks for a held_balance row, outside the transaction.
CheckHeld ==
    /\ uPc = "check_held"
    /\ \/ /\ Found(Current.user, Current.invoice)
          /\ Return("BalanceReserved")
          /\ UNCHANGED faults
       \/ /\ ~Found(Current.user, Current.invoice)
          /\ uPc' = "begin"
          /\ UNCHANGED <<uReply, faults>>
       \/ /\ Fault("db")
          /\ uPc' = "poll"
          /\ UNCHANGED uReply
    /\ UNCHANGED <<store, progress, uRead, uTx, userOut>>

\* The error of Begin() is dropped: the session then stays in the mode it
\* was created in, where every statement commits by itself.
BeginHold ==
    /\ uPc = "begin"
    /\ \/ /\ uTx' = "open"
          /\ UNCHANGED faults
       \/ /\ Fault("begin")
          /\ uTx' = "auto"
    /\ uPc' = "insert"
    /\ UNCHANGED <<store, progress, uRead, uReply, userOut>>

AddHeld == SetHeld(held[Current.user][Current.invoice] + 1)

InsertHold ==
    /\ uPc = "insert"
    /\ \/ /\ IF uTx = "auto" THEN AddHeld ELSE UNCHANGED held
          /\ uPc' = "update_balance"
          /\ UNCHANGED <<uTx, uReply, faults>>
       \/ /\ Fault("db")
          /\ UNCHANGED held \/ (uTx = "auto" /\ AddHeld)
          /\ ReturnError
    /\ UNCHANGED <<accounts, balance, spent, progress, uRead, userOut>>

\* Mutant of WriteBalance: the amount is subtracted from whatever the column
\* holds by now, which nobody has compared with it.
WriteBalanceUnchecked ==
    balance' = [balance EXCEPT ![Current.user] =
                    Cents(@ - Amount[Current.invoice])]

\* Writes the balance read by GetInvestor less the amount, whatever the
\* column holds by now.
WriteBalance ==
    balance' = [balance EXCEPT ![Current.user] =
                    Cents(uRead - Amount[Current.invoice])]

UpdateBalance ==
    /\ uPc = "update_balance"
    /\ \/ /\ IF uTx = "auto" THEN WriteBalance ELSE UNCHANGED balance
          /\ uPc' = "commit"
          /\ UNCHANGED <<uTx, uReply, faults>>
       \/ /\ Fault("db")
          /\ UNCHANGED balance \/ (uTx = "auto" /\ WriteBalance)
          /\ ReturnError
    /\ UNCHANGED <<accounts, held, spent, progress, uRead, userOut>>

\* Mutant of ApplyHold: the insert does not run on the session and is lost.
ApplyBalanceOnly == IF uTx = "open" THEN WriteBalance /\ UNCHANGED held
                    ELSE UNCHANGED <<held, balance>>

\* The two statements of an open transaction take effect together.
ApplyHold ==
    IF uTx = "open"
    THEN AddHeld /\ WriteBalance
    ELSE UNCHANGED <<held, balance>>

\* `return true, transactionSession.Commit()`: when the commit fails the
\* caller looks at the error first, whether or not Postgres applied it.
CommitHold ==
    /\ uPc = "commit"
    /\ \/ /\ ApplyHold
          /\ Return("BalanceReserved")
          /\ uTx' = "none"
          /\ UNCHANGED faults
       \/ /\ uTx = "open"
          /\ Fault("commit")
          /\ ApplyHold \/ UNCHANGED <<held, balance>>
          /\ ReturnError
    /\ UNCHANGED <<accounts, spent, progress, uRead, userOut>>

\* funded asks whether there is something to release ...
CheckFunded ==
    /\ uPc = "check_funded"
    /\ \/ /\ Found(Current.user, Current.invoice)
          /\ uPc' = "delete"
          /\ UNCHANGED <<uReply, faults>>
       \/ /\ ~Found(Current.user, Current.invoice)
          /\ Return("none")
          /\ UNCHANGED faults
       \/ /\ Fault("db")
          /\ uPc' = "poll"
          /\ UNCHANGED uReply
    /\ UNCHANGED <<store, progress, uRead, uTx, userOut>>

\* ... and deletes every row of this user, invoice and amount.
DeleteRows ==
    /\ SetHeld(0)
    /\ spent' = [spent EXCEPT ![Current.user][Current.invoice] =
                    @ + held[Current.user][Current.invoice]]

DeleteHold ==
    /\ uPc = "delete"
    /\ \/ /\ held[Current.user][Current.invoice] = 1
          /\ DeleteRows
          /\ Return("UserUpdated")
          /\ UNCHANGED faults
       \/ /\ held[Current.user][Current.invoice] # 1
          /\ DeleteRows
          /\ uPc' = "poll"
          /\ UNCHANGED <<uReply, faults>>
       \/ /\ Fault("db")
          /\ DeleteRows \/ UNCHANGED <<held, spent>>
          /\ uPc' = "poll"
          /\ UNCHANGED uReply
    /\ UNCHANGED <<accounts, balance, progress, uRead, uTx, userOut>>

----------------------------------------------------------------------------
(* Back in Listen: the answer, then the offset.                             *)

\* eventBuilder's key: the investor's id, except that FunderNotFound passes
\* on the key of the consumed event.  parseEvent reads that key from the
\* JSON value, where kafka-producer.js does not put it.
ReplyKey(reply, u) == IF reply = "FunderNotFound" THEN NoUser ELSE u

Outbound ==
    /\ uPc = "outbound"
    /\ userOut' = Append(userOut,
                         Activity(uReply, Current.invoice, Current.user,
                                  ReplyKey(uReply, Current.user)))
    /\ answered' = answered \cup {uPos}
    /\ uPc' = "mark"
    /\ uReply' = "none"
    /\ UNCHANGED <<store, uPos, uMarked, uCommitted, uRead, uTx, faults>>

\* Mutant of Mark: the next message's offset is marked instead.
MarkNext == uPos + 1

\* MarkOffset never moves back.
Mark == IF uPos > uMarked THEN uPos ELSE uMarked

\* The error of CommitOffsets is dropped.
MarkAndCommit ==
    /\ uPc = "mark"
    /\ uMarked' = Mark
    /\ \/ /\ uCommitted' = uMarked'
          /\ UNCHANGED faults
       \/ /\ Fault("offset")
          /\ UNCHANGED uCommitted
    /\ uPc' = "poll"
    /\ UNCHANGED <<store, uPos, uRead, uTx, uReply, answered, userOut>>

\* sarama-cluster commits what is marked once a second as well.
CommitInBackground ==
    /\ uCommitted # uMarked
    /\ uCommitted' = uMarked
    /\ UNCHANGED <<store, uPc, uPos, uRead, uTx, uReply, uMarked, answered,
                   userOut, faults>>

\* Mutant of Resume: the group is a new one after a restart, as it is for the
\* invoices service outside production.
ResumeOldest == 0

\* Where a new process starts: events/init.go names the group and asks for
\* the oldest message when it never committed.
Resume == uCommitted

\* Kill and restart: Postgres rolls an open transaction back, the producer's
\* buffer and the marked offset are gone.
UserCrash ==
    /\ Fault("user_crash")
    /\ uPc' = "poll"
    /\ uPos' = Resume
    /\ uMarked' = Resume
    /\ uCommitted' = Resume
    /\ uRead' = 0
    /\ uTx' = "none"
    /\ uReply' = "none"
    /\ userOut' = <<>>
    /\ UNCHANGED <<store, answered>>

\* The steps of the goroutine itself, in the order of the code.
ConsumerStep ==
    \/ Receive
    \/ GetInvestor
    \/ CheckHeld
    \/ BeginHold
    \/ InsertHold
    \/ UpdateBalance
    \/ CommitHold
    \/ CheckFunded
    \/ DeleteHold
    \/ Outbound
    \/ MarkAndCommit

ConsumerNext ==
    \/ ConsumerStep
    \/ CommitInBackground
    \/ UserCrash

----------------------------------------------------------------------------
(* Properties.                                                              *)

Steps == {"poll", "get_investor", "check_held", "begin", "insert",
          "update_balance", "commit", "check_funded", "delete", "outbound",
          "mark"}

\* The variables hold values of the types the tables and the process give
\* them; a message is in hand whenever a controller runs.
ConsumerTypeOK ==
    /\ accounts \subseteq Users
    /\ balance \in [Users -> Int]
    /\ held \in [Users -> [Invoices -> Nat]]
    /\ spent \in [Users -> [Invoices -> Nat]]
    /\ uPc \in Steps
    /\ uPos \in 0 .. Len(invoiceTopic)
    /\ uRead \in Int
    /\ uTx \in {"none", "open", "auto"}
    /\ uReply \in Replies \cup {"none"}
    /\ uMarked \in 0 .. Len(invoiceTopic)
    /\ uCommitted \in 0 .. Len(invoiceTopic)
    /\ answered \subseteq 1 .. Len(invoiceTopic)

\* A user never has two rows of held_balance for one invoice, whatever is
\* redelivered and whichever statement, Begin or Commit fails, if amounts
\* are whole cents: funded() treats any other number of deleted rows than
\* one as an error.  The table has no unique index that would enforce it
\* (models.go:12-16); holdBalance's check, made outside the transaction, is
\* all there is.
AtMostOneHold == \A u \in Users, i \in Invoices : held[u][i] <= 1

\* The history of holds: how often u has been charged for i.
Charged(u, i) == held[u][i] + spent[u][i]

\* The users service never says BalanceReserved for a user and an invoice
\* unless the hold is in the table, or was and has been settled: the event
\* is built only after the commit (controllers.go:97-111, 187).
ReservedBacked ==
    /\ \A k \in 1 .. Len(userTopic) :
          userTopic[k].type = "BalanceReserved"
            => Charged(userTopic[k].user, userTopic[k].invoice) >= 1
    /\ \A k \in 1 .. Len(userOut) :
          userOut[k].type = "BalanceReserved"
            => Charged(userOut[k].user, userOut[k].invoice) >= 1

\* While no statement and no Commit fails, the committed offset passes a
\* request to hold money only after its answer was handed to the producer:
\* Listen publishes first and marks second (consumer.go:49-55), so a restart
\* repeats a request rather than forgetting it.
AnswerBeforeCommit ==
    faults["db"] = 0 /\ faults["commit"] = 0
      => \A k \in 1 .. uCommitted :
            IsFundRequest(invoiceTopic[k]) => k \in answered

\* The broker's offset of the group never goes back (sarama's MarkOffset
\* keeps the highest mark), not even across restarts.
CommittedMonotone == [][uCommitted' >= uCommitted]_uCommitted

\* A hold takes exactly the amount of the invoice from the balance the user
\* has at that moment ("substract held balance from user",
\* controllers.go:178).
HoldSubtracts ==
    [][\A u \in Users, i \in Invoices :
          held'[u][i] > held[u][i] => balance'[u] = balance[u] - Amount[i]
      ]_<<held, balance>>

\* Insufficient balance is never answered for money that is already held
\* for this very invoice ("check if balance already held",
\* controllers.go:147).
RejectedNotHeld ==
    uPc = "outbound" /\ uReply = "InsufficientBalance"
      => held[Current.user][Current.invoice] = 0
=============================================================================
