------------------------- MODULE UserConsumerProofs ------------------------
(***************************************************************************)
(* What every step of the consumer of services/users preserves, whoever    *)
(* writes topic "invoice".  UserServiceProofs and FundingProofs cite the   *)
(* lemmas of this module for the two systems the consumer is part of.      *)
(***************************************************************************)
EXTENDS UserConsumer, TLAPS

\* A request to hold or to settle names a user: the code would otherwise
\* parse an absent investor_id as 0 (controllers.go:73).
WellAddressed ==
    \A k \in 1 .. Len(invoiceTopic) :
        IsFundRequest(invoiceTopic[k]) \/ IsFunded(invoiceTopic[k])
          => invoiceTopic[k].user \in Users

\* A running controller has a well-addressed message, and an answer when it
\* is about to publish one.
InHand ==
    /\ uPc # "poll" => uPos >= 1
    /\ uPc \notin {"poll", "mark"} => /\ Current.user \in Users
                                      /\ Current.invoice \in Invoices
    /\ uPc = "outbound" => uReply \in Replies

HoldSteps == {"check_held", "begin", "insert", "update_balance", "commit"}

\* The rows an insert leaves behind: one at least, and no second one when the
\* lookup before it could have found a first.
Inserted(u, i) == held[u][i] >= 1 /\ (InWholeCents(i) => held[u][i] = 1)

\* What the controller knows about the hold it is making.  The lookup would
\* still find nothing until the transaction commits; the row is there when
\* every statement commits by itself.
HoldState ==
    /\ uPc \in {"begin", "insert"} => ~Found(Current.user, Current.invoice)
    /\ uPc \in {"insert", "update_balance", "commit"} => uTx \in {"open", "auto"}
    /\ uPc \in {"update_balance", "commit"} =>
         IF uTx = "open" THEN ~Found(Current.user, Current.invoice)
                         ELSE Inserted(Current.user, Current.invoice)
    /\ uPc \in HoldSteps => uRead >= Amount[Current.invoice]

\* The answer about to be published is backed like the published ones.
OutboundBacked ==
    uPc = "outbound" /\ uReply = "BalanceReserved"
      => Charged(Current.user, Current.invoice) >= 1

\* At most one hold wherever the lookup can recognise the amount.
WholeHeldOnce ==
    \A u \in Users, i \in Invoices : InWholeCents(i) => held[u][i] <= 1

ConsumerInv ==
    /\ BrokerTypeOK
    /\ ConsumerTypeOK
    /\ WellAddressed
    /\ InHand
    /\ HoldState
    /\ WholeHeldOnce
    /\ OutboundBacked
    /\ ReservedBacked

\* A hypothesis of the lemmas about the consumer's steps: UserConsumer says
\* nothing of the logs, and UserService and Funding, which compose it with the
\* broker, conjoin to its steps that the logs stay as they are.
LogsStay == UNCHANGED <<invoiceTopic, userTopic, invoiceOut>>

\* No step undoes a charge: a row leaves held_balance only into the history.
ChargesGrow ==
    \A u \in Users, i \in Invoices : Charged(u, i)' >= Charged(u, i)

----------------------------------------------------------------------------

\* The types of everything the consumer's steps read and write.
LEMMA HeldTypes ==
    ASSUME ConsumerInv
    PROVE  /\ \A u \in Users, i \in Invoices : held[u][i] \in Nat
           /\ \A u \in Users, i \in Invoices : spent[u][i] \in Nat
           /\ \A u \in Users : balance[u] \in Int
  BY DEF ConsumerInv, ConsumerTypeOK

\* Rounding what is left of a balance never makes a debt of it.
LEMMA CentsNatural ==
    ASSUME NEW x \in Nat
    PROVE  Cents(x) \in Nat
  BY DEF Cents

\* Counting a fault keeps the counters natural.
LEMMA FaultTyped ==
    ASSUME ConsumerInv, NEW kind \in FaultKinds, Fault(kind)
    PROVE  faults' \in [FaultKinds -> Nat]
  BY DEF ConsumerInv, BrokerTypeOK, Fault

\* Messages already in the log stay where they are.
LEMMA StableCurrent ==
    ASSUME ConsumerInv, UNCHANGED <<invoiceTopic, uPos>>
    PROVE  Current' = Current
  BY DEF Current

\* Receive keeps the invariant: dispatch gives a controller a message that
\* names a user.
LEMMA ReceiveInv ==
    ASSUME ConsumerInv, Receive, LogsStay
    PROVE  ConsumerInv' /\ ChargesGrow
<1> DEFINE e == invoiceTopic[uPos + 1]
<1>1. /\ uPos \in 0 .. Len(invoiceTopic)
      /\ uPos' = uPos + 1
      /\ uPos' \in 1 .. Len(invoiceTopic)
  BY DEF ConsumerInv, ConsumerTypeOK, BrokerTypeOK, Receive
<1>2. Current' = e /\ e \in InvoiceEvents
  BY <1>1 DEF ConsumerInv, BrokerTypeOK, Current, LogsStay
<1>3. uPc' \in {"get_investor", "check_funded", "mark"}
  BY DEF Receive
<1>4. uPc' \in {"get_investor", "check_funded"} => e.user \in Users
  BY <1>1 DEF Receive, ConsumerInv, WellAddressed
<1>5. BrokerTypeOK' /\ WellAddressed'
  BY DEF ConsumerInv, BrokerTypeOK, WellAddressed, Receive, LogsStay
<1>6. ConsumerTypeOK'
  BY <1>1, <1>3 DEF ConsumerInv, ConsumerTypeOK, Receive, store, Steps, LogsStay
<1>7. InHand'
  BY <1>1, <1>2, <1>3, <1>4 DEF InHand, InvoiceEvents
<1>8. HoldState' /\ OutboundBacked'
  BY <1>3 DEF HoldState, HoldSteps, OutboundBacked
<1>9. WholeHeldOnce' /\ ReservedBacked' /\ ChargesGrow
  BY HeldTypes DEF ConsumerInv, WholeHeldOnce, ReservedBacked,
     ChargesGrow, Charged, Receive, store, LogsStay
<1> QED
  BY <1>5, <1>6, <1>7, <1>8, <1>9 DEF ConsumerInv

\* pendingFund's comparison establishes that the balance read covers the
\* amount.
LEMMA GetInvestorInv ==
    ASSUME ConsumerInv, GetInvestor, LogsStay
    PROVE  ConsumerInv' /\ ChargesGrow
<1>1. Current' = Current
  BY DEF GetInvestor, LogsStay, Current, progress
<1>2. BrokerTypeOK' /\ WellAddressed'
  BY FaultTyped DEF ConsumerInv, BrokerTypeOK, WellAddressed, GetInvestor, LogsStay,
     FaultKinds
<1>3. ConsumerTypeOK'
  BY DEF ConsumerInv, ConsumerTypeOK, GetInvestor, Return, ReturnError, store,
     progress,
     Steps, Replies, LogsStay
<1>4. InHand'
  BY <1>1 DEF ConsumerInv, InHand, GetInvestor, Return, ReturnError, Replies,
     progress
<1>5. HoldState'
  BY <1>1, HeldTypes DEF ConsumerInv, InHand, HoldState, HoldSteps, Found, Inserted,
     CanPay, GetInvestor, Return, ReturnError, store
<1>6. OutboundBacked'
  BY <1>1, HeldTypes DEF ConsumerInv, InHand, OutboundBacked, Charged, Found,
     GetInvestor, Return, ReturnError, store
<1>7. WholeHeldOnce' /\ ReservedBacked' /\ ChargesGrow
  BY HeldTypes DEF ConsumerInv, WholeHeldOnce, ReservedBacked,
     ChargesGrow, Charged, GetInvestor, store, LogsStay
<1> QED
  BY <1>2, <1>3, <1>4, <1>5, <1>6, <1>7 DEF ConsumerInv

\* An answer given because the money is already held is backed by that row.
LEMMA CheckHeldInv ==
    ASSUME ConsumerInv, CheckHeld, LogsStay
    PROVE  ConsumerInv' /\ ChargesGrow
<1>1. Current' = Current
  BY DEF CheckHeld, LogsStay, Current, progress
<1>2. BrokerTypeOK' /\ WellAddressed'
  BY FaultTyped DEF ConsumerInv, BrokerTypeOK, WellAddressed, CheckHeld, LogsStay,
     FaultKinds
<1>3. ConsumerTypeOK'
  BY DEF ConsumerInv, ConsumerTypeOK, CheckHeld, Return, ReturnError, store,
     progress,
     Steps, Replies, LogsStay
<1>4. InHand'
  BY <1>1 DEF ConsumerInv, InHand, CheckHeld, Return, ReturnError, Replies, progress
<1>5. HoldState'
  BY <1>1, HeldTypes DEF ConsumerInv, InHand, HoldState, HoldSteps, Found, Inserted,
     CanPay, CheckHeld, Return, ReturnError, store
<1>6. OutboundBacked'
  BY <1>1, HeldTypes DEF ConsumerInv, InHand, OutboundBacked, Charged, Found,
     CheckHeld, Return, ReturnError, store
<1>7. WholeHeldOnce' /\ ReservedBacked' /\ ChargesGrow
  BY HeldTypes DEF ConsumerInv, WholeHeldOnce, ReservedBacked,
     ChargesGrow, Charged, CheckHeld, store, LogsStay
<1> QED
  BY <1>2, <1>3, <1>4, <1>5, <1>6, <1>7 DEF ConsumerInv

\* Opening the transaction, or failing to, changes no table.
LEMMA BeginHoldInv ==
    ASSUME ConsumerInv, BeginHold, LogsStay
    PROVE  ConsumerInv' /\ ChargesGrow
<1>1. Current' = Current
  BY DEF BeginHold, LogsStay, Current, progress
<1>2. BrokerTypeOK' /\ WellAddressed'
  BY FaultTyped DEF ConsumerInv, BrokerTypeOK, WellAddressed, BeginHold, LogsStay,
     FaultKinds
<1>3. ConsumerTypeOK'
  BY DEF ConsumerInv, ConsumerTypeOK, BeginHold, Return, ReturnError, store,
     progress,
     Steps, Replies, LogsStay
<1>4. InHand'
  BY <1>1 DEF ConsumerInv, InHand, BeginHold, Return, ReturnError, Replies, progress
<1>5. HoldState'
  BY <1>1, HeldTypes DEF ConsumerInv, InHand, HoldState, HoldSteps, Found, Inserted,
     CanPay, BeginHold, Return, ReturnError, store
<1>6. OutboundBacked'
  BY <1>1, HeldTypes DEF ConsumerInv, InHand, OutboundBacked, Charged, Found,
     BeginHold, Return, ReturnError, store
<1>7. WholeHeldOnce' /\ ReservedBacked' /\ ChargesGrow
  BY HeldTypes DEF ConsumerInv, WholeHeldOnce, ReservedBacked,
     ChargesGrow, Charged, BeginHold, store, LogsStay
<1> QED
  BY <1>2, <1>3, <1>4, <1>5, <1>6, <1>7 DEF ConsumerInv

\* Looking for the row to settle changes no table.
LEMMA CheckFundedInv ==
    ASSUME ConsumerInv, CheckFunded, LogsStay
    PROVE  ConsumerInv' /\ ChargesGrow
<1>1. Current' = Current
  BY DEF CheckFunded, LogsStay, Current, progress
<1>2. BrokerTypeOK' /\ WellAddressed'
  BY FaultTyped DEF ConsumerInv, BrokerTypeOK, WellAddressed, CheckFunded, LogsStay,
     FaultKinds
<1>3. ConsumerTypeOK'
  BY DEF ConsumerInv, ConsumerTypeOK, CheckFunded, Return, ReturnError, store,
     progress,
     Steps, Replies, LogsStay
<1>4. InHand'
  BY <1>1 DEF ConsumerInv, InHand, CheckFunded, Return, ReturnError, Replies,
     progress
<1>5. HoldState'
  BY <1>1, HeldTypes DEF ConsumerInv, InHand, HoldState, HoldSteps, Found, Inserted,
     CanPay, CheckFunded, Return, ReturnError, store
<1>6. OutboundBacked'
  BY <1>1, HeldTypes DEF ConsumerInv, InHand, OutboundBacked, Charged, Found,
     CheckFunded, Return, ReturnError, store
<1>7. WholeHeldOnce' /\ ReservedBacked' /\ ChargesGrow
  BY HeldTypes DEF ConsumerInv, WholeHeldOnce, ReservedBacked,
     ChargesGrow, Charged, CheckFunded, store, LogsStay
<1> QED
  BY <1>2, <1>3, <1>4, <1>5, <1>6, <1>7 DEF ConsumerInv

----------------------------------------------------------------------------
(* The steps that write the tables.                                         *)

\* What a step does to one entry of a table of rows per user and invoice.
LEMMA SetHeldEffect ==
    ASSUME ConsumerInv, NEW n \in Nat, SetHeld(n),
           Current.user \in Users, Current.invoice \in Invoices
    PROVE  /\ held' \in [Users -> [Invoices -> Nat]]
           /\ \A u \in Users, i \in Invoices :
                held'[u][i] = IF u = Current.user /\ i = Current.invoice
                              THEN n ELSE held[u][i]
  BY DEF ConsumerInv, ConsumerTypeOK, SetHeld

\* An insert after a lookup that found nothing.
LEMMA AddHeldEffect ==
    ASSUME ConsumerInv, AddHeld, UNCHANGED spent,
           Current' = Current, Current.user \in Users, Current.invoice \in Invoices,
           ~Found(Current.user, Current.invoice)
    PROVE  /\ held' \in [Users -> [Invoices -> Nat]]
           /\ WholeHeldOnce'
           /\ ChargesGrow
           /\ Inserted(Current.user, Current.invoice)'
<1> DEFINE n == held[Current.user][Current.invoice] + 1
<1>1. n \in Nat /\ n >= 1 /\ (InWholeCents(Current.invoice) => n = 1)
  BY HeldTypes DEF Found
<1>2. /\ held' \in [Users -> [Invoices -> Nat]]
      /\ \A u \in Users, i \in Invoices :
           held'[u][i] = IF u = Current.user /\ i = Current.invoice
                         THEN n ELSE held[u][i]
  <2>1. SetHeld(n)
    BY DEF AddHeld
  <2> HIDE DEF n
  <2> QED
    BY <1>1, <2>1, SetHeldEffect
<1>3. WholeHeldOnce'
  BY <1>1, <1>2 DEF ConsumerInv, WholeHeldOnce
<1>4. ChargesGrow
  BY <1>2, HeldTypes DEF ChargesGrow, Charged
<1>5. Inserted(Current.user, Current.invoice)'
  BY <1>1, <1>2 DEF Inserted
<1> QED
  BY <1>2, <1>3, <1>4, <1>5

\* The balance written is what is left of the balance that was compared.
LEMMA WriteBalanceEffect ==
    ASSUME ConsumerInv, WriteBalance, Current.user \in Users,
           Current.invoice \in Invoices, uRead >= Amount[Current.invoice]
    PROVE  /\ balance' \in [Users -> Int]
           /\ \A u \in Users : balance'[u] # balance[u] => balance'[u] >= 0
<1>1. Amount[Current.invoice] \in Int /\ uRead \in Int
  BY EventsAssumption DEF ConsumerInv, ConsumerTypeOK
<1> DEFINE b == Cents(uRead - Amount[Current.invoice])
<1>2. b \in Nat
  BY <1>1, CentsNatural
<1>3. balance' = [balance EXCEPT ![Current.user] = b]
  BY DEF WriteBalance
<1> HIDE DEF b
<1> QED
  BY <1>2, <1>3 DEF ConsumerInv, ConsumerTypeOK

\* When charges only grow, everything they back stays backed.
LEMMA BackedStays ==
    ASSUME ConsumerInv, ChargesGrow, UNCHANGED <<userTopic, userOut>>,
           held' \in [Users -> [Invoices -> Nat]],
           spent' \in [Users -> [Invoices -> Nat]]
    PROVE  ReservedBacked'
<1>1. \A u \in Users, i \in Invoices : /\ Charged(u, i) \in Nat
                                      /\ Charged(u, i)' \in Nat
  BY DEF ConsumerInv, ConsumerTypeOK, Charged
<1>2. ASSUME NEW k \in 1 .. Len(userTopic)
      PROVE  userTopic[k].user \in Users /\ userTopic[k].invoice \in Invoices
  <2>1. userTopic[k] \in UserEvents
    BY DEF ConsumerInv, BrokerTypeOK
  <2> QED
    BY <2>1 DEF UserEvents
<1>3. ASSUME NEW k \in 1 .. Len(userOut)
      PROVE  userOut[k].user \in Users /\ userOut[k].invoice \in Invoices
  <2>1. userOut[k] \in UserEvents
    BY DEF ConsumerInv, BrokerTypeOK
  <2> QED
    BY <2>1 DEF UserEvents
<1>4. \A k \in 1 .. Len(userTopic) :
        userTopic[k].type = "BalanceReserved"
          => Charged(userTopic[k].user, userTopic[k].invoice)' >= 1
  BY <1>1, <1>2 DEF ConsumerInv, ReservedBacked, ChargesGrow
<1>5. \A k \in 1 .. Len(userOut) :
        userOut[k].type = "BalanceReserved"
          => Charged(userOut[k].user, userOut[k].invoice)' >= 1
  BY <1>1, <1>3 DEF ConsumerInv, ReservedBacked, ChargesGrow
<1> QED
  BY <1>4, <1>5 DEF ReservedBacked, Charged

\* Outside a transaction the row is there at once; inside one, or when the
\* statement fails, the table is as before.
LEMMA InsertHoldInv ==
    ASSUME ConsumerInv, InsertHold, LogsStay
    PROVE  ConsumerInv' /\ ChargesGrow
<1>1. /\ Current' = Current
      /\ Current.user \in Users
      /\ Current.invoice \in Invoices
      /\ ~Found(Current.user, Current.invoice)
      /\ uTx \in {"open", "auto"}
      /\ uRead >= Amount[Current.invoice]
  BY DEF ConsumerInv, InHand, HoldState, HoldSteps, InsertHold, LogsStay, Current,
     progress
<1>2. held' = held \/ (uTx = "auto" /\ AddHeld)
  BY <1>1 DEF InsertHold
<1>3. /\ held' \in [Users -> [Invoices -> Nat]]
      /\ WholeHeldOnce'
      /\ ChargesGrow
  <2>1. CASE held' = held
    BY <2>1, HeldTypes DEF ConsumerInv, ConsumerTypeOK, WholeHeldOnce, ChargesGrow,
       Charged, InsertHold
  <2>2. CASE AddHeld
    BY <1>1, <2>2, AddHeldEffect DEF InsertHold
  <2> QED
    BY <1>2, <2>1, <2>2
<1>4. BrokerTypeOK' /\ WellAddressed'
  BY FaultTyped DEF ConsumerInv, BrokerTypeOK, WellAddressed,
     InsertHold, LogsStay, FaultKinds
<1>5. ConsumerTypeOK'
  BY <1>3 DEF ConsumerInv, ConsumerTypeOK, InsertHold, ReturnError, progress, Steps,
     Replies, LogsStay
<1>6. InHand'
  BY <1>1 DEF ConsumerInv, InHand, InsertHold, ReturnError, progress
<1>7. HoldState'
  <2>1. CASE uPc' = "update_balance"
    <3>1. uTx' = uTx /\ uRead' = uRead /\ (IF uTx = "auto" THEN AddHeld ELSE held' = held)
      BY <1>1, <2>1 DEF InsertHold, ReturnError
    <3>2. uTx = "auto" => Inserted(Current.user, Current.invoice)'
      BY <1>1, <3>1, AddHeldEffect DEF InsertHold
    <3>3. uTx = "open" => ~Found(Current.user, Current.invoice)'
      BY <1>1, <3>1 DEF Found
    <3> QED
      BY <1>1, <2>1, <3>1, <3>2, <3>3 DEF HoldState
  <2>2. CASE uPc' = "poll"
    BY <2>2 DEF HoldState, HoldSteps
  <2> QED
    BY <2>1, <2>2 DEF InsertHold, ReturnError
<1>8. OutboundBacked' /\ ReservedBacked'
  <2>1. UNCHANGED <<userTopic, userOut, spent>>
    BY DEF InsertHold, LogsStay
  <2>2. ReservedBacked'
    BY <1>3, <2>1, BackedStays DEF ConsumerInv, ConsumerTypeOK
  <2> QED
    BY <2>2 DEF OutboundBacked, InsertHold, ReturnError
<1> QED
  BY <1>3, <1>4, <1>5, <1>6, <1>7, <1>8 DEF ConsumerInv

\* Outside a transaction the balance is written at once, and stays covered.
LEMMA UpdateBalanceInv ==
    ASSUME ConsumerInv, UpdateBalance, LogsStay
    PROVE  ConsumerInv' /\ ChargesGrow
<1>1. /\ Current' = Current
      /\ Current.user \in Users
      /\ Current.invoice \in Invoices
      /\ uRead >= Amount[Current.invoice]
  BY DEF ConsumerInv, InHand, HoldState, HoldSteps, UpdateBalance, LogsStay,
     Current, progress
<1>2. balance' = balance \/ WriteBalance
  BY DEF UpdateBalance
<1>3. balance' \in [Users -> Int]
  BY <1>1, <1>2, WriteBalanceEffect DEF ConsumerInv, ConsumerTypeOK
<1>4. BrokerTypeOK' /\ WellAddressed'
  BY FaultTyped DEF ConsumerInv, BrokerTypeOK, WellAddressed, UpdateBalance,
     LogsStay,
     FaultKinds
<1>5. ConsumerTypeOK'
  BY <1>3 DEF ConsumerInv, ConsumerTypeOK, UpdateBalance, ReturnError, progress,
     Steps,
     Replies, LogsStay
<1>6. InHand'
  BY <1>1 DEF ConsumerInv, InHand, UpdateBalance, ReturnError, progress
<1>7. HoldState'
  BY <1>1 DEF ConsumerInv, HoldState, HoldSteps, Found, Inserted, UpdateBalance,
     ReturnError
<1>8. WholeHeldOnce' /\ ReservedBacked' /\ OutboundBacked' /\ ChargesGrow
  BY HeldTypes DEF ConsumerInv, WholeHeldOnce, ReservedBacked, OutboundBacked,
     ChargesGrow, Charged, UpdateBalance, ReturnError, LogsStay
<1> QED
  BY <1>3, <1>4, <1>5, <1>6, <1>7, <1>8 DEF ConsumerInv

\* The transaction adds the row it found missing and takes the amount, or
\* does neither, whatever Commit reports.
LEMMA CommitHoldInv ==
    ASSUME ConsumerInv, CommitHold, LogsStay
    PROVE  ConsumerInv' /\ ChargesGrow
<1>1. /\ Current' = Current
      /\ Current.user \in Users
      /\ Current.invoice \in Invoices
      /\ uTx \in {"open", "auto"}
      /\ IF uTx = "open" THEN ~Found(Current.user, Current.invoice)
                         ELSE Inserted(Current.user, Current.invoice)
      /\ uRead >= Amount[Current.invoice]
  BY DEF ConsumerInv, InHand, HoldState, HoldSteps, CommitHold, LogsStay, Current,
     progress
<1>2. \/ uTx = "open" /\ AddHeld /\ WriteBalance
      \/ UNCHANGED <<held, balance>>
  BY <1>1 DEF CommitHold, ApplyHold
<1>3. balance' \in [Users -> Int]
  BY <1>1, <1>2, WriteBalanceEffect DEF ConsumerInv, ConsumerTypeOK
<1>4. /\ held' \in [Users -> [Invoices -> Nat]]
      /\ WholeHeldOnce'
      /\ ChargesGrow
  <2>1. CASE held' = held
    BY <2>1, HeldTypes DEF ConsumerInv, ConsumerTypeOK, WholeHeldOnce, ChargesGrow,
       Charged, CommitHold
  <2>2. CASE uTx = "open" /\ AddHeld
    BY <1>1, <2>2, AddHeldEffect DEF CommitHold
  <2> QED
    BY <1>2, <2>1, <2>2
<1>5. uPc' = "outbound" => held'[Current.user][Current.invoice] >= 1
  <2>1. CASE uTx = "open"
    <3>1. uPc' = "outbound" => AddHeld
      BY <1>1, <2>1 DEF CommitHold, ApplyHold, ReturnError
    <3> QED
      BY <1>1, <2>1, <3>1, AddHeldEffect DEF CommitHold, Inserted
  <2>2. CASE uTx = "auto"
    BY <1>1, <1>2, <2>2 DEF Inserted
  <2> QED
    BY <1>1, <2>1, <2>2
<1>6. BrokerTypeOK' /\ WellAddressed'
  BY FaultTyped DEF ConsumerInv, BrokerTypeOK, WellAddressed, CommitHold, LogsStay,
     FaultKinds
<1>7. ConsumerTypeOK'
  BY <1>3, <1>4 DEF ConsumerInv, ConsumerTypeOK, CommitHold, Return, ReturnError,
     progress, Steps, Replies, LogsStay
<1>8. InHand' /\ HoldState'
  BY <1>1 DEF ConsumerInv, InHand, HoldState, HoldSteps, CommitHold, Return,
     ReturnError, progress, Replies
<1>9. OutboundBacked'
  <2>1. held'[Current.user][Current.invoice] \in Nat
        /\ spent'[Current.user][Current.invoice] \in Nat
    BY <1>1, <1>7 DEF ConsumerTypeOK
  <2> QED
    BY <1>1, <1>5, <2>1 DEF OutboundBacked, Charged
<1>10. ReservedBacked'
  BY <1>4, BackedStays DEF ConsumerInv, ConsumerTypeOK, CommitHold, LogsStay
<1> QED
  BY <1>3, <1>4, <1>6, <1>7, <1>8, <1>9, <1>10 DEF ConsumerInv

\* A settled row goes to the history, so the charge stays.
LEMMA DeleteHoldInv ==
    ASSUME ConsumerInv, DeleteHold, LogsStay
    PROVE  ConsumerInv' /\ ChargesGrow
<1>1. /\ Current' = Current
      /\ Current.user \in Users
      /\ Current.invoice \in Invoices
  BY DEF ConsumerInv, InHand, DeleteHold, LogsStay, Current, progress
<1>2. DeleteRows \/ UNCHANGED <<held, spent>>
  BY DEF DeleteHold
<1>3. /\ held' \in [Users -> [Invoices -> Nat]]
      /\ spent' \in [Users -> [Invoices -> Nat]]
      /\ WholeHeldOnce'
      /\ ChargesGrow
  <2>1. CASE UNCHANGED <<held, spent>>
    BY <2>1, HeldTypes DEF ConsumerInv, ConsumerTypeOK, WholeHeldOnce, ChargesGrow,
       Charged
  <2>2. CASE DeleteRows
    <3>1. /\ held' \in [Users -> [Invoices -> Nat]]
          /\ \A u \in Users, i \in Invoices :
               held'[u][i] = IF u = Current.user /\ i = Current.invoice
                             THEN 0 ELSE held[u][i]
      BY <1>1, <2>2, SetHeldEffect DEF DeleteRows
    <3> DEFINE n == spent[Current.user][Current.invoice]
                      + held[Current.user][Current.invoice]
    <3>2. n \in Nat
      BY <1>1, HeldTypes
    <3>3. spent' = [spent EXCEPT ![Current.user][Current.invoice] = n]
      BY <2>2 DEF DeleteRows
    <3>4. /\ spent' \in [Users -> [Invoices -> Nat]]
          /\ \A u \in Users, i \in Invoices :
               spent'[u][i] = IF u = Current.user /\ i = Current.invoice
                              THEN n ELSE spent[u][i]
      <4> HIDE DEF n
      <4> QED
        BY <1>1, <3>2, <3>3 DEF ConsumerInv, ConsumerTypeOK
    <3>5. WholeHeldOnce'
      BY <3>1 DEF ConsumerInv, WholeHeldOnce
    <3>6. ASSUME NEW u \in Users, NEW i \in Invoices
          PROVE  held'[u][i] + spent'[u][i] >= held[u][i] + spent[u][i]
      <4>1. CASE u = Current.user /\ i = Current.invoice
        BY <3>1, <3>4, <4>1, HeldTypes
      <4>2. CASE ~(u = Current.user /\ i = Current.invoice)
        BY <3>1, <3>4, <4>2, HeldTypes
      <4> QED
        BY <4>1, <4>2
    <3> QED
      BY <3>1, <3>4, <3>5, <3>6 DEF ChargesGrow, Charged
  <2> QED
    BY <1>2, <2>1, <2>2
<1>4. BrokerTypeOK' /\ WellAddressed'
  BY FaultTyped DEF ConsumerInv, BrokerTypeOK, WellAddressed,
     DeleteHold,
     LogsStay, FaultKinds
<1>5. ConsumerTypeOK'
  BY <1>3 DEF ConsumerInv, ConsumerTypeOK, DeleteHold, Return, progress, Steps,
     Replies, LogsStay
<1>6. InHand' /\ HoldState' /\ OutboundBacked'
  BY <1>1 DEF ConsumerInv, InHand, HoldState, HoldSteps, OutboundBacked, DeleteHold,
     Return, progress, Replies
<1>7. ReservedBacked'
  BY <1>3, BackedStays DEF DeleteHold, LogsStay
<1> QED
  BY <1>3, <1>4, <1>5, <1>6, <1>7 DEF ConsumerInv

----------------------------------------------------------------------------
(* The steps of Listen, and the restart.                                    *)

\* What is published is the answer the controller found to be backed.
LEMMA OutboundInv ==
    ASSUME ConsumerInv, Outbound, LogsStay
    PROVE  ConsumerInv' /\ ChargesGrow
<1> DEFINE e == Activity(uReply, Current.invoice, Current.user,
                         ReplyKey(uReply, Current.user))
<1>1. /\ Current' = Current
      /\ Current.user \in Users
      /\ Current.invoice \in Invoices
      /\ uReply \in Replies
      /\ uPos \in 1 .. Len(invoiceTopic)
  BY DEF ConsumerInv, ConsumerTypeOK, BrokerTypeOK, InHand, Outbound, LogsStay,
     Current, progress
<1>2. e \in UserEvents
  BY <1>1 DEF Activity, ReplyKey, UserEvents, Replies
<1>3. userOut' = Append(userOut, e) /\ userOut \in Seq(UserEvents)
  BY DEF Outbound, ConsumerInv, BrokerTypeOK
<1>4. /\ userOut' \in Seq(UserEvents)
      /\ Len(userOut') = Len(userOut) + 1
      /\ \A k \in 1 .. Len(userOut') :
            userOut'[k] = IF k = Len(userOut') THEN e ELSE userOut[k]
  <2> HIDE DEF e
  <2> QED
    BY <1>2, <1>3
<1>5. UNCHANGED <<accounts, balance, held, spent, uPos, uMarked, uCommitted>>
  BY DEF Outbound, store
<1>6. BrokerTypeOK' /\ WellAddressed'
  BY <1>4 DEF ConsumerInv, BrokerTypeOK, WellAddressed, Outbound, LogsStay
<1>7. ConsumerTypeOK'
  BY <1>1, <1>5 DEF ConsumerInv, ConsumerTypeOK, Outbound, Steps, LogsStay
<1>8. InHand' /\ HoldState' /\ OutboundBacked'
  BY <1>5 DEF ConsumerInv, InHand, HoldState, HoldSteps, OutboundBacked, Outbound
<1>9. WholeHeldOnce' /\ ChargesGrow
  BY <1>5, HeldTypes DEF ConsumerInv, WholeHeldOnce, ChargesGrow,
     Charged
<1>10. ReservedBacked'
  <2>1. e.type = uReply /\ e.user = Current.user /\ e.invoice = Current.invoice
    BY DEF Activity
  <2>2. e.type = "BalanceReserved" => Charged(e.user, e.invoice) >= 1
    BY <2>1 DEF ConsumerInv, OutboundBacked, Outbound
  <2>3. \A k \in 1 .. Len(userOut') :
          userOut'[k].type = "BalanceReserved"
            => Charged(userOut'[k].user, userOut'[k].invoice) >= 1
    <3> HIDE DEF e
    <3> QED
      BY <1>3, <1>4, <2>2 DEF ConsumerInv, ReservedBacked
  <2> QED
    BY <1>5, <2>3 DEF ConsumerInv, ReservedBacked, Charged, LogsStay
<1> QED
  BY <1>6, <1>7, <1>8, <1>9, <1>10 DEF ConsumerInv

\* Offsets stay within the log.
LEMMA MarkAndCommitInv ==
    ASSUME ConsumerInv, MarkAndCommit, LogsStay
    PROVE  ConsumerInv' /\ ChargesGrow
<1>1. uMarked' \in 0 .. Len(invoiceTopic) /\ uCommitted' \in 0 .. Len(invoiceTopic)
  BY DEF ConsumerInv, ConsumerTypeOK, MarkAndCommit, Mark
<1>2. BrokerTypeOK' /\ WellAddressed'
  BY FaultTyped DEF ConsumerInv, BrokerTypeOK, WellAddressed, MarkAndCommit,
     LogsStay,
     FaultKinds
<1>3. ConsumerTypeOK'
  BY <1>1 DEF ConsumerInv, ConsumerTypeOK, MarkAndCommit, store, Steps, LogsStay
<1>4. InHand' /\ HoldState' /\ OutboundBacked'
  BY DEF ConsumerInv, InHand, HoldState, HoldSteps, OutboundBacked, MarkAndCommit
<1>5. WholeHeldOnce' /\ ReservedBacked' /\ ChargesGrow
  BY HeldTypes DEF ConsumerInv, WholeHeldOnce, ReservedBacked,
     ChargesGrow, Charged, MarkAndCommit, store, LogsStay
<1> QED
  BY <1>2, <1>3, <1>4, <1>5 DEF ConsumerInv

\* The background commit only moves an offset.
LEMMA CommitInBackgroundInv ==
    ASSUME ConsumerInv, CommitInBackground, LogsStay
    PROVE  ConsumerInv' /\ ChargesGrow
<1>1. Current' = Current
  BY DEF CommitInBackground, LogsStay, Current
<1>2. UNCHANGED <<store, uPc, uPos, uRead, uTx, uReply, userOut>>
  BY DEF CommitInBackground
<1>3. BrokerTypeOK' /\ WellAddressed' /\ ConsumerTypeOK'
  BY DEF ConsumerInv, BrokerTypeOK, WellAddressed, ConsumerTypeOK,
     CommitInBackground, store, LogsStay
<1>4. InHand' /\ HoldState' /\ OutboundBacked'
  BY <1>1, <1>2 DEF ConsumerInv, InHand, HoldState, Found, Inserted, OutboundBacked,
     Charged, store
<1>5. WholeHeldOnce' /\ ReservedBacked' /\ ChargesGrow
  BY <1>2, HeldTypes DEF ConsumerInv, WholeHeldOnce, ReservedBacked,
     ChargesGrow, Charged, store, LogsStay
<1> QED
  BY <1>3, <1>4, <1>5 DEF ConsumerInv

\* A restart loses the buffer, never the tables.
LEMMA UserCrashInv ==
    ASSUME ConsumerInv, UserCrash, LogsStay
    PROVE  ConsumerInv' /\ ChargesGrow
<1>1. UNCHANGED store /\ userOut' = <<>> /\ uPc' = "poll"
  BY DEF UserCrash
<1>2. BrokerTypeOK' /\ WellAddressed'
  BY <1>1, FaultTyped DEF ConsumerInv, BrokerTypeOK, WellAddressed, UserCrash,
     LogsStay, FaultKinds
<1>3. ConsumerTypeOK'
  BY DEF ConsumerInv, ConsumerTypeOK, UserCrash, Resume, store, Steps, LogsStay
<1>4. InHand' /\ HoldState' /\ OutboundBacked'
  BY <1>1 DEF InHand, HoldState, HoldSteps, OutboundBacked
<1>5. WholeHeldOnce' /\ ReservedBacked' /\ ChargesGrow
  BY <1>1, HeldTypes DEF ConsumerInv, WholeHeldOnce, ReservedBacked,
     ChargesGrow, Charged, store, LogsStay
<1> QED
  BY <1>2, <1>3, <1>4, <1>5 DEF ConsumerInv

\* While it alone moves (the modules that compose it say that the logs stay as
\* they are), the consumer of services/users preserves its invariant and never
\* undoes a charge, under every fault it can meet.
LEMMA ConsumerNextInv ==
    ASSUME ConsumerInv, ConsumerNext, LogsStay
    PROVE  ConsumerInv' /\ ChargesGrow
  BY ReceiveInv, GetInvestorInv, CheckHeldInv, BeginHoldInv, InsertHoldInv,
     UpdateBalanceInv, CommitHoldInv, CheckFundedInv, DeleteHoldInv, OutboundInv,
     MarkAndCommitInv, CommitInBackgroundInv, UserCrashInv
  DEF ConsumerNext, ConsumerStep

\* The balances that change are not negative afterwards.
CoversWrites ==
    \A u \in Users : balance'[u] # balance[u] => balance'[u] >= 0

\* What the consumer writes is covered by what it has read, in a transaction
\* or out of it, whatever the column held meanwhile.
LEMMA ConsumerCovers ==
    ASSUME ConsumerInv, ConsumerNext
    PROVE  CoversWrites
<1>1. CASE UpdateBalance \/ CommitHold
  <2>1. /\ Current.user \in Users
        /\ Current.invoice \in Invoices
        /\ uRead >= Amount[Current.invoice]
    BY <1>1 DEF ConsumerInv, InHand, HoldState, HoldSteps, UpdateBalance, CommitHold
  <2>2. balance' = balance \/ WriteBalance
    BY <1>1 DEF UpdateBalance, CommitHold, ApplyHold
  <2> QED
    BY <2>1, <2>2, WriteBalanceEffect DEF CoversWrites
<1>2. CASE ~(UpdateBalance \/ CommitHold)
  <2>1. balance' = balance
    BY <1>2 DEF ConsumerNext, ConsumerStep, Receive, GetInvestor, CheckHeld, BeginHold,
       InsertHold, CheckFunded, DeleteHold, Outbound, MarkAndCommit,
       CommitInBackground, UserCrash, store
  <2> QED
    BY <2>1 DEF CoversWrites
<1> QED
  BY <1>1, <1>2

----------------------------------------------------------------------------
(* The broker's steps.                                                      *)

userProcess == <<store, progress, uPc, uRead, uTx, uReply>>

\* Whether a well-addressed message is appended to topic "invoice" by a
\* delivery or by a repetition, what the consumer knows stays true.
LEMMA InvoiceTopicGrowsInv ==
    ASSUME ConsumerInv, UNCHANGED <<userProcess, userTopic, userOut>>,
           invoiceOut' \in Seq(InvoiceEvents), faults' \in [FaultKinds -> Nat],
           NEW e \in InvoiceEvents,
           IsFundRequest(e) \/ IsFunded(e) => e.user \in Users,
           invoiceTopic' = Append(invoiceTopic, e)
    PROVE  ConsumerInv' /\ ChargesGrow
<1> USE DEF userProcess, store, progress
<1>1. /\ invoiceTopic' \in Seq(InvoiceEvents)
      /\ Len(invoiceTopic) \in Nat
      /\ Len(invoiceTopic') = Len(invoiceTopic) + 1
      /\ \A k \in 1 .. Len(invoiceTopic) : invoiceTopic'[k] = invoiceTopic[k]
      /\ invoiceTopic'[Len(invoiceTopic')] = e
  BY DEF ConsumerInv, BrokerTypeOK
<1>2. uPc # "poll" => Current' = Current
  BY <1>1 DEF ConsumerInv, ConsumerTypeOK, InHand, Current
<1>3. BrokerTypeOK' /\ ConsumerTypeOK'
  BY <1>1 DEF ConsumerInv, BrokerTypeOK, ConsumerTypeOK
<1>4. WellAddressed'
  BY <1>1 DEF ConsumerInv, WellAddressed, IsFundRequest, IsFunded
<1>5. InHand' /\ HoldState' /\ OutboundBacked'
  BY <1>2 DEF ConsumerInv, InHand, HoldState, HoldSteps, Found, Inserted,
     OutboundBacked, Charged
<1>6. WholeHeldOnce' /\ ReservedBacked' /\ ChargesGrow
  BY HeldTypes DEF ConsumerInv, WholeHeldOnce, ReservedBacked,
     ChargesGrow, Charged
<1> QED
  BY <1>3, <1>4, <1>5, <1>6 DEF ConsumerInv

\* The sender of the users service moves, repeats or gives up on the oldest
\* answer; topic "user" holds nothing but answers that were published.
LEMMA UserSenderInv ==
    ASSUME ConsumerInv, DeliverUser \/ ResendUser \/ DropUser,
           UNCHANGED userProcess
    PROVE  ConsumerInv' /\ ChargesGrow
<1> USE DEF userProcess, store, progress
<1> DEFINE e == Head(userOut)
<1>1. /\ userOut # <<>>
      /\ userTopic' = Append(userTopic, e) \/ userTopic' = userTopic
      /\ userOut' = Tail(userOut) \/ userOut' = userOut
      /\ UNCHANGED <<invoiceTopic, invoiceOut>>
  BY DEF DeliverUser, ResendUser, DropUser
<1>2. /\ userOut \in Seq(UserEvents)
      /\ userTopic \in Seq(UserEvents)
      /\ faults' \in [FaultKinds -> Nat]
  BY FaultTyped DEF ConsumerInv, BrokerTypeOK, DeliverUser, ResendUser, DropUser,
     FaultKinds
<1>3. /\ e \in UserEvents
      /\ e = userOut[1]
      /\ 1 \in 1 .. Len(userOut)
  BY <1>1, <1>2
<1>4. /\ Tail(userOut) \in Seq(UserEvents)
      /\ Len(Tail(userOut)) = Len(userOut) - 1
      /\ \A k \in 1 .. Len(userOut) - 1 : Tail(userOut)[k] = userOut[k + 1]
  BY <1>1, <1>2
<1>5. /\ Append(userTopic, e) \in Seq(UserEvents)
      /\ Len(Append(userTopic, e)) = Len(userTopic) + 1
      /\ \A k \in 1 .. Len(userTopic) + 1 :
            Append(userTopic, e)[k]
              = IF k = Len(userTopic) + 1 THEN e ELSE userTopic[k]
  <2> HIDE DEF e
  <2> QED
    BY <1>2, <1>3
<1> HIDE DEF e
<1>6. BrokerTypeOK' /\ WellAddressed' /\ ConsumerTypeOK'
  BY <1>1, <1>2, <1>4, <1>5 DEF ConsumerInv, BrokerTypeOK, WellAddressed,
     ConsumerTypeOK
<1>7. InHand' /\ HoldState' /\ OutboundBacked'
  BY <1>1 DEF ConsumerInv, InHand, HoldState, HoldSteps, Found, Inserted,
     OutboundBacked, Charged, Current
<1>8. WholeHeldOnce' /\ ChargesGrow
  BY HeldTypes DEF ConsumerInv, WholeHeldOnce, ChargesGrow, Charged
<1>9. \A k \in 1 .. Len(userOut') :
        userOut'[k].type = "BalanceReserved"
          => Charged(userOut'[k].user, userOut'[k].invoice) >= 1
  <2>1. Len(userOut) \in Nat
    BY <1>2
  <2>2. CASE userOut' = userOut
    BY <2>2 DEF ConsumerInv, ReservedBacked
  <2>3. CASE userOut' = Tail(userOut)
    BY <1>4, <2>1, <2>3 DEF ConsumerInv, ReservedBacked
  <2> QED
    BY <1>1, <2>2, <2>3
<1>10. \A k \in 1 .. Len(userTopic') :
        userTopic'[k].type = "BalanceReserved"
          => Charged(userTopic'[k].user, userTopic'[k].invoice) >= 1
  <2>1. e.type = "BalanceReserved" => Charged(e.user, e.invoice) >= 1
    BY <1>3 DEF ConsumerInv, ReservedBacked
  <2>2. CASE userTopic' = userTopic
    BY <2>2 DEF ConsumerInv, ReservedBacked
  <2>3. CASE userTopic' = Append(userTopic, e)
    BY <1>5, <2>1, <2>3 DEF ConsumerInv, ReservedBacked
  <2> QED
    BY <1>1, <2>2, <2>3
<1> QED
  BY <1>6, <1>7, <1>8, <1>9, <1>10 DEF ConsumerInv, ReservedBacked, Charged

----------------------------------------------------------------------------
(* What a controller knows about the message in hand, and what it charges.  *)

\* Every controller runs for the kind of message Listen started it for; an
\* answer goes back to the request it was built for.
Dispatched ==
    /\ uPc \in {"get_investor"} \cup HoldSteps => IsFundRequest(Current)
    /\ uPc \in {"check_funded", "delete"} => IsFunded(Current)
    /\ uPc = "outbound" =>
         IF uReply = "UserUpdated" THEN IsFunded(Current)
                                   ELSE IsFundRequest(Current)

\* Dispatch is decided when the message is taken and never revised.
LEMMA DispatchedKept ==
    ASSUME ConsumerInv, Dispatched, ConsumerNext, LogsStay
    PROVE  Dispatched'
<1> USE DEF Dispatched, HoldSteps
<1>1. CASE Receive
  <2>1. Current' = invoiceTopic[uPos + 1]
    BY <1>1 DEF Receive, Current, LogsStay
  <2> QED
    BY <1>1, <2>1 DEF Receive
<1>2. CASE UserCrash
  BY <1>2 DEF UserCrash
<1>3. CASE MarkAndCommit \/ Outbound
  BY <1>3 DEF MarkAndCommit, Outbound
<1>4. CASE CommitInBackground
  BY <1>4, StableCurrent DEF CommitInBackground, LogsStay
<1>5. ASSUME UNCHANGED progress
      PROVE  Current' = Current
  BY <1>5, StableCurrent DEF LogsStay, progress
<1>6. CASE GetInvestor \/ CheckHeld \/ BeginHold
  BY <1>5, <1>6 DEF GetInvestor, CheckHeld, BeginHold, Return
<1>7. CASE InsertHold \/ UpdateBalance
  BY <1>5, <1>7 DEF InsertHold, UpdateBalance, ReturnError
<1>8. CASE CommitHold
  BY <1>5, <1>8 DEF CommitHold, Return, ReturnError
<1>9. CASE CheckFunded \/ DeleteHold
  BY <1>5, <1>9 DEF CheckFunded, DeleteHold, Return
<1> QED
  BY <1>1, <1>2, <1>3, <1>4, <1>6, <1>7, <1>8, <1>9 DEF ConsumerNext, ConsumerStep

\* Nor is it when messages are appended behind it.
LEMMA DispatchedStays ==
    ASSUME ConsumerInv, Dispatched, UNCHANGED <<uPc, uPos, uReply>>,
           \A k \in 1 .. Len(invoiceTopic) : invoiceTopic'[k] = invoiceTopic[k]
    PROVE  Dispatched'
<1>1. uPc # "poll" => uPos \in 1 .. Len(invoiceTopic)
  BY DEF ConsumerInv, InHand, ConsumerTypeOK, BrokerTypeOK
<1>2. uPc # "poll" => Current' = Current
  BY <1>1 DEF Current
<1> QED
  BY <1>2 DEF Dispatched, HoldSteps

\* The steps that can add a charge, and the one charge they add.
ChargesOne ==
    /\ uPc \in {"insert", "commit"}
    /\ \A u \in Users, i \in Invoices :
          Charged(u, i)' = IF u = Current.user /\ i = Current.invoice
                           THEN Charged(u, i) + 1 ELSE Charged(u, i)
    /\ UNCHANGED spent

ChargesStay == \A u \in Users, i \in Invoices : Charged(u, i)' = Charged(u, i)

\* A row inserted is one charge more.
LEMMA AddHeldCharges ==
    ASSUME ConsumerInv, AddHeld, UNCHANGED spent, uPc \in {"insert", "commit"},
           Current.user \in Users, Current.invoice \in Invoices
    PROVE  ChargesOne
<1> DEFINE n == held[Current.user][Current.invoice] + 1
<1>1. n \in Nat
  BY HeldTypes
<1>2. SetHeld(n)
  BY DEF AddHeld
<1>3. \A u \in Users, i \in Invoices :
        held'[u][i] = IF u = Current.user /\ i = Current.invoice
                      THEN n ELSE held[u][i]
  <2> HIDE DEF n
  <2> QED
    BY <1>1, <1>2, SetHeldEffect
<1> QED
  BY <1>3, HeldTypes DEF ChargesOne, Charged

\* Rows deleted are charges of the history, for the invoice in hand alone.
LEMMA DeleteCharges ==
    ASSUME ConsumerInv, DeleteRows, Current.user \in Users,
           Current.invoice \in Invoices
    PROVE  /\ ChargesStay
           /\ \A u \in Users, i \in Invoices :
                ~(u = Current.user /\ i = Current.invoice)
                  => held'[u][i] = held[u][i] /\ spent'[u][i] = spent[u][i]
           /\ held'[Current.user][Current.invoice] = 0
<1>1. \A u \in Users, i \in Invoices :
        held'[u][i] = IF u = Current.user /\ i = Current.invoice
                      THEN 0 ELSE held[u][i]
  BY SetHeldEffect DEF DeleteRows
<1> DEFINE n == spent[Current.user][Current.invoice]
                  + held[Current.user][Current.invoice]
<1>2. spent' = [spent EXCEPT ![Current.user][Current.invoice] = n]
  BY DEF DeleteRows
<1>3. n \in Nat
  BY HeldTypes
<1>4. \A u \in Users, i \in Invoices :
        spent'[u][i] = IF u = Current.user /\ i = Current.invoice
                       THEN n ELSE spent[u][i]
  <2> HIDE DEF n
  <2> QED
    BY <1>2, <1>3 DEF ConsumerInv, ConsumerTypeOK
<1>5. ASSUME NEW u \in Users, NEW i \in Invoices
      PROVE  held'[u][i] + spent'[u][i] = held[u][i] + spent[u][i]
  <2>1. CASE u = Current.user /\ i = Current.invoice
    BY <1>1, <1>4, <2>1, HeldTypes
  <2>2. CASE ~(u = Current.user /\ i = Current.invoice)
    BY <1>1, <1>4, <2>2
  <2> QED
    BY <2>1, <2>2
<1> QED
  BY <1>1, <1>4, <1>5 DEF ChargesStay, Charged

\* Every step of the consumer charges nothing, or one user once for the
\* invoice in hand.
LEMMA ConsumerCharges ==
    ASSUME ConsumerInv, ConsumerNext, LogsStay
    PROVE  ChargesStay \/ ChargesOne
<1>1. CASE InsertHold
  <2>1. UNCHANGED held \/ AddHeld
    BY <1>1 DEF InsertHold
  <2> QED
    BY <1>1, <2>1, AddHeldCharges
       DEF InsertHold, ChargesStay, Charged, ConsumerInv, InHand
<1>2. CASE CommitHold
  <2>1. UNCHANGED held \/ AddHeld
    BY <1>2 DEF CommitHold, ApplyHold
  <2> QED
    BY <1>2, <2>1, AddHeldCharges
       DEF CommitHold, ChargesStay, Charged, ConsumerInv, InHand
<1>3. CASE DeleteHold
  <2>1. UNCHANGED <<held, spent>> \/ DeleteRows
    BY <1>3 DEF DeleteHold
  <2> QED
    BY <1>3, <2>1, DeleteCharges
       DEF DeleteHold, ChargesStay, Charged, ConsumerInv, InHand
<1>4. CASE UNCHANGED <<held, spent>>
  BY <1>4 DEF ChargesStay, Charged
<1> QED
  BY <1>1, <1>2, <1>3, <1>4
     DEF ConsumerNext, ConsumerStep, Receive, GetInvestor, CheckHeld, BeginHold,
         UpdateBalance, CheckFunded, Outbound, MarkAndCommit, CommitInBackground,
         UserCrash, store

\* Whether the controller has charged for the request in hand by now: when
\* it answers so, or when its insert committed by itself.
Paid ==
    \/ uPc = "outbound" /\ uReply = "BalanceReserved"
    \/ uTx = "auto" /\ uPc \in {"update_balance", "commit"}

Serving == uPc \notin {"poll", "mark"} /\ IsFundRequest(Current)

\* The request in hand is charged for once, by the controller that runs.
PaidOnce ==
    Serving
      => Charged(Current.user, Current.invoice) = IF Paid THEN 1 ELSE 0

\* A request that was not charged for when it was taken is charged for once
\* at most, and by nothing but the request in hand.
LEMMA PaidOnceKept ==
    ASSUME ConsumerInv, Dispatched, PaidOnce, ConsumerNext, ~Receive, LogsStay
    PROVE  /\ PaidOnce'
           /\ Serving' => Serving
           /\ ChargesOne => Serving /\ ~Paid
<1> USE DEF Serving, Paid, PaidOnce
<1>1. Serving => Current.user \in Users /\ Current.invoice \in Invoices
  BY DEF ConsumerInv, InHand
<1>2. \A u \in Users, i \in Invoices : Charged(u, i) \in Nat
  BY HeldTypes DEF Charged
<1>3. uPc \in {"insert", "commit"} => Serving
  BY DEF Dispatched, HoldSteps
<1>4. CASE UserCrash \/ MarkAndCommit \/ Outbound
  BY <1>1, <1>2, <1>3, <1>4
     DEF UserCrash, MarkAndCommit, Outbound, ChargesOne, Charged, store
<1>5. CASE CommitInBackground
  <2>1. Current' = Current /\ UNCHANGED <<uPc, uReply, uTx, held, spent>>
    BY <1>5, StableCurrent DEF CommitInBackground, LogsStay, store
  <2>2. ~ChargesOne
    <3>1. uPc \in {"insert", "commit"} => Current.user \in Users
                                          /\ Current.invoice \in Invoices
      BY <1>1, <1>3
    <3> QED
      BY <1>2, <2>1, <3>1 DEF ChargesOne, Charged
  <2> QED
    BY <2>1, <2>2 DEF Charged
<1>6. ASSUME UNCHANGED progress
      PROVE  Current' = Current
  BY <1>6, StableCurrent DEF LogsStay, progress
<1>7. CASE GetInvestor \/ BeginHold \/ CheckFunded
  BY <1>1, <1>2, <1>6, <1>7
     DEF GetInvestor, BeginHold, CheckFunded, Return, store, Charged, ChargesOne
<1>8. CASE CheckHeld
  <2>1. Serving
    BY <1>8 DEF CheckHeld, Dispatched, HoldSteps
  <2>2. ~Found(Current.user, Current.invoice)
    BY <1>1, <1>8, <2>1, HeldTypes DEF CheckHeld, Found, Charged
  <2> QED
    BY <1>1, <1>2, <1>6, <1>8, <2>1, <2>2
       DEF CheckHeld, Return, store, Charged, ChargesOne
<1>9. CASE InsertHold
  <2>1. Serving /\ ~Paid /\ Current' = Current
    BY <1>3, <1>6, <1>9 DEF InsertHold
  <2>2. CASE uTx = "auto" /\ AddHeld
    <3>1. ChargesOne
      BY <1>1, <1>9, <2>1, <2>2, AddHeldCharges DEF InsertHold
    <3> QED
      BY <1>1, <1>2, <1>9, <2>1, <2>2, <3>1 DEF InsertHold, ReturnError, ChargesOne
  <2>3. CASE UNCHANGED held
    <3>1. uPc' = "update_balance" => uTx' # "auto" \/ AddHeld
      BY <1>9 DEF InsertHold, ReturnError
    <3>2. uPc' = "update_balance" => uTx' # "auto"
      BY <1>1, <2>1, <2>3, <3>1, HeldTypes DEF AddHeld, SetHeld, ConsumerInv,
         ConsumerTypeOK
    <3> QED
      BY <1>1, <1>2, <1>9, <2>1, <2>3, <3>2
         DEF InsertHold, ReturnError, ChargesOne, Charged
  <2> QED
    BY <1>9, <2>2, <2>3 DEF InsertHold
<1>10. CASE UpdateBalance
  BY <1>1, <1>2, <1>6, <1>10
     DEF UpdateBalance, ReturnError, ChargesOne, Charged
<1>11. CASE CommitHold
  <2>1. Serving /\ Current' = Current /\ uTx \in {"open", "auto"}
    BY <1>3, <1>6, <1>11 DEF CommitHold, ConsumerInv, HoldState
  <2>2. CASE uTx = "open" /\ AddHeld
    <3>1. ChargesOne
      BY <1>1, <1>11, <2>1, <2>2, AddHeldCharges DEF CommitHold
    <3> QED
      BY <1>1, <1>2, <1>11, <2>1, <2>2, <3>1
         DEF CommitHold, Return, ReturnError, ChargesOne
  <2>3. CASE UNCHANGED held
    <3>1. uTx = "open" => uPc' = "poll" \/ AddHeld
      BY <1>11 DEF CommitHold, ApplyHold, ReturnError
    <3>2. uTx = "open" => uPc' = "poll"
      BY <1>1, <2>1, <2>3, <3>1, HeldTypes DEF AddHeld, SetHeld, ConsumerInv,
         ConsumerTypeOK
    <3> QED
      BY <1>1, <1>2, <1>11, <2>1, <2>3, <3>2
         DEF CommitHold, Return, ReturnError, ChargesOne, Charged
  <2> QED
    BY <1>11, <2>1, <2>2, <2>3 DEF CommitHold, ApplyHold
<1>12. CASE DeleteHold
  <2>1. IsFunded(Current) /\ Current' = Current
    BY <1>6, <1>12 DEF DeleteHold, Dispatched
  <2> QED
    BY <1>12, <2>1 DEF DeleteHold, IsFunded, IsFundRequest, ChargesOne
<1> QED
  BY <1>4, <1>5, <1>7, <1>8, <1>9, <1>10, <1>11, <1>12
     DEF ConsumerNext, ConsumerStep

----------------------------------------------------------------------------
(* Money, while every Begin succeeds and nobody else writes balances.       *)

\* What is left after a hold is a whole number of cents again.
LEMMA CentsMinus ==
    ASSUME NEW x \in Int, NEW y \in Int, Cents(x) = x, Cents(y) = y
    PROVE  Cents(x - y) = x - y
<1>1. ASSUME NEW z \in Int, Cents(z) = z
      PROVE  \E q \in Int : z = 10 * q
  <2>1. CASE z >= 0
    <3>1. z = ((z + 5) \div 10) * 10 /\ (z + 5) \div 10 \in Int
      BY <1>1, <2>1 DEF Cents
    <3> QED
      BY <3>1
  <2>2. CASE z < 0
    <3>1. z = -(((5 - z) \div 10) * 10) /\ (5 - z) \div 10 \in Int
      BY <1>1, <2>2 DEF Cents
    <3>2. PICK w \in Int : w = (5 - z) \div 10
      BY <3>1
    <3>3. z = 10 * (-w) /\ -w \in Int
      BY <3>1, <3>2
    <3> QED
      BY <3>3
  <2> QED
    BY <2>1, <2>2
<1>2. ASSUME NEW q \in Int
      PROVE  Cents(10 * q) = 10 * q
  <2>1. /\ 10 * q \in Int
        /\ (10 * q + 5) \div 10 = q
        /\ (5 - 10 * q) \div 10 = -q
    OBVIOUS
  <2> DEFINE z == 10 * q
  <2>2. /\ z = q * 10
        /\ z = -((-q) * 10)
    OBVIOUS
  <2>3. Cents(z) = IF z >= 0 THEN q * 10 ELSE -((-q) * 10)
    BY <2>1 DEF Cents
  <2> HIDE DEF z
  <2>4. Cents(z) = z
    BY <2>2, <2>3
  <2> QED
    BY <2>4 DEF z
<1>3. PICK p \in Int : x = 10 * p
  BY <1>1
<1>4. PICK q \in Int : y = 10 * q
  BY <1>1
<1>5. x - y = 10 * (p - q) /\ p - q \in Int
  BY <1>3, <1>4
<1> QED
  BY <1>2, <1>5

\* The balance the controller compared is still the one in the column, and
\* nothing of it is lost to rounding.
MoneyFresh ==
    /\ uTx # "auto"
    /\ uPc \in HoldSteps => /\ Current.user \in accounts
                            /\ uRead = balance[Current.user]
    /\ \A u \in Users : Cents(balance[u]) = balance[u]

TakesMoney ==
    balance' = [balance EXCEPT ![Current.user] = @ - Amount[Current.invoice]]

\* Then a step moves money if and only if it charges, and it moves exactly
\* the amount of the invoice.
LEMMA MoneyMoves ==
    ASSUME ConsumerInv, MoneyFresh, ConsumerNext, LogsStay,
           \A i \in Invoices : InWholeCents(i), ~Fault("begin")
    PROVE  /\ MoneyFresh'
           /\ \/ ChargesStay /\ UNCHANGED balance
              \/ /\ ChargesOne /\ TakesMoney /\ uPc = "commit"
                 /\ Current.user \in accounts
                 /\ Current.user \in Users /\ Current.invoice \in Invoices
                 /\ balance[Current.user] >= Amount[Current.invoice]
                 /\ ~Found(Current.user, Current.invoice)
                 /\ AddHeld
<1> USE DEF MoneyFresh, HoldSteps
<1>1. CASE Receive \/ UserCrash \/ MarkAndCommit \/ Outbound
  BY <1>1 DEF Receive, UserCrash, MarkAndCommit, Outbound, store, ChargesStay,
     Charged
<1>2. CASE CommitInBackground
  <2>1. Current' = Current /\ UNCHANGED <<store, uPc, uRead, uTx>>
    BY <1>2, StableCurrent DEF CommitInBackground, LogsStay
  <2> QED
    BY <2>1 DEF store, ChargesStay, Charged
<1>3. ASSUME UNCHANGED progress
      PROVE  Current' = Current
  BY <1>3, StableCurrent DEF LogsStay, progress
<1>4. CASE GetInvestor \/ CheckHeld
  BY <1>3, <1>4 DEF GetInvestor, CheckHeld, Return, store, ChargesStay, Charged
<1>5. CASE BeginHold
  BY <1>3, <1>5 DEF BeginHold, store, ChargesStay, Charged
<1>6. CASE InsertHold \/ UpdateBalance
  BY <1>3, <1>6 DEF InsertHold, UpdateBalance, ReturnError, ChargesStay, Charged
<1>7. CASE CheckFunded
  BY <1>7 DEF CheckFunded, Return, store, ChargesStay, Charged
<1>8. CASE DeleteHold
  <2>1. UNCHANGED <<held, spent>> \/ DeleteRows
    BY <1>8 DEF DeleteHold
  <2> QED
    BY <1>8, <2>1, DeleteCharges
       DEF DeleteHold, Return, ChargesStay, Charged, ConsumerInv, InHand
<1>9. CASE CommitHold
  <2>1. /\ Current' = Current
        /\ Current.user \in Users
        /\ Current.invoice \in Invoices
        /\ uTx = "open"
        /\ ~Found(Current.user, Current.invoice)
        /\ uRead >= Amount[Current.invoice]
        /\ uRead = balance[Current.user]
        /\ Current.user \in accounts
    BY <1>3, <1>9 DEF CommitHold, ConsumerInv, HoldState, InHand
  <2>2. uPc' \in {"outbound", "poll"} /\ uTx' # "auto" /\ uPc = "commit"
    BY <1>9 DEF CommitHold, Return, ReturnError
  <2>3. CASE UNCHANGED <<held, balance>>
    BY <1>9, <2>2, <2>3 DEF CommitHold, ChargesStay, Charged
  <2>4. CASE AddHeld /\ WriteBalance
    <3>1. ChargesOne
      BY <1>9, <2>1, <2>2, <2>4, AddHeldCharges DEF CommitHold
    <3> DEFINE b == balance[Current.user] - Amount[Current.invoice]
    <3>2. /\ balance[Current.user] \in Int
          /\ Amount[Current.invoice] \in Int
          /\ Cents(Amount[Current.invoice]) = Amount[Current.invoice]
      BY <2>1, HeldTypes, EventsAssumption DEF InWholeCents
    <3>3. Cents(b) = b
      BY <2>1, <3>2, CentsMinus
    <3>4. TakesMoney
      BY <2>1, <2>4, <3>3 DEF WriteBalance, TakesMoney
    <3>5. \A u \in Users : Cents(balance'[u]) = balance'[u]
      BY <2>1, <3>3, <3>4 DEF TakesMoney, ConsumerInv, ConsumerTypeOK
    <3> QED
      BY <2>1, <2>2, <2>4, <3>1, <3>2, <3>4, <3>5
  <2> QED
    BY <1>9, <2>1, <2>3, <2>4 DEF CommitHold, ApplyHold
<1> QED
  BY <1>1, <1>2, <1>4, <1>5, <1>6, <1>7, <1>8, <1>9
     DEF ConsumerNext, ConsumerStep
=============================================================================
