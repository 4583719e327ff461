-------------------------- MODULE FundingSagaProofs ------------------------
(***************************************************************************)
(* The funding saga when nothing is repeated: one Fund call at a time, no  *)
(* message written twice, no process restarted.  Every other fault of the  *)
(* model may happen: messages are lost, and statements, transactions,      *)
(* offset commits, calls and handlers fail.                                *)
(*                                                                         *)
(* Then at most one party acts for an invoice at any time: the Fund call   *)
(* that made it pending, or the request for the money, or the answer to    *)
(* that request, up to the handler's update of the row.  Each of them      *)
(* knows the investor of the row and whether he was charged.               *)
(***************************************************************************)
EXTENDS FundingProofs

\* Calls one at a time, no second copy of a message, no restart.
NothingRepeated ==
    /\ SerialFunds = TRUE
    /\ FaultLimit["resend"] = 0
    /\ FaultLimit["user_crash"] = 0
    /\ FaultLimit["invoice_crash"] = 0

----------------------------------------------------------------------------
(* What each service has sent, whether or not the broker has it yet.        *)

\* The events of the invoices service.
SentLen == Len(invoiceTopic) + Len(invoiceOut)

Sent(k) == IF k <= Len(invoiceTopic) THEN invoiceTopic[k]
           ELSE invoiceOut[k - Len(invoiceTopic)]

\* The answers of the users service.
SaidLen == Len(userTopic) + Len(userOut)

Said(k) == IF k <= Len(userTopic) THEN userTopic[k]
           ELSE userOut[k - Len(userTopic)]

----------------------------------------------------------------------------
(* Who acts for invoice i.                                                  *)

\* Fund call c has written the row and not yet asked for the money.
CallFor(c, i) == call[c].pc = "produce" /\ call[c].invoice = i

\* The k-th message asks for the money and was not yet answered or dropped.
RequestFor(k, i) ==
    /\ k \in 1 .. SentLen
    /\ IsFundRequest(Sent(k))
    /\ Sent(k).invoice = i
    /\ k > uPos \/ (k = uPos /\ uPc \notin {"poll", "mark"})

\* A handler that has not yet written the row.
Undecided(j) == j.step \in {"find", "update"}

\* The k-th answer still has to change the row.
AnswerFor(k, i) ==
    /\ k \in 1 .. SaidLen
    /\ Said(k).type # "UserUpdated"
    /\ Said(k).invoice = i
    /\ k > iPos \/ (\E j \in jobs : j.offset = k /\ Undecided(j))

\* The row waits for u, who has been charged n times.
Waits(i, u, n) ==
    /\ rows[i].status = "pending_fund"
    /\ rows[i].investor = u
    /\ Charged(u, i) = n

\* How often the request at k has been charged for.
Level(k) == IF k = uPos /\ Paid THEN 1 ELSE 0

\* How often the investor was charged when the answer at k was given.
Answered(k) == IF Said(k).type = "BalanceReserved" THEN 1 ELSE 0

\* Whoever acts for the row knows whom it waits for and what he has paid.
Informed(i) ==
    /\ \A c \in Calls : CallFor(c, i) => Waits(i, call[c].investor, 0)
    /\ \A k \in Nat : RequestFor(k, i) => Waits(i, Sent(k).user, Level(k))
    /\ \A k \in Nat : AnswerFor(k, i) => Waits(i, Said(k).user, Answered(k))

\* There is one party at most that acts for the row.
Alone(i) ==
    /\ \A c \in Calls, k \in Nat : ~(CallFor(c, i) /\ RequestFor(k, i))
    /\ \A c \in Calls, k \in Nat : ~(CallFor(c, i) /\ AnswerFor(k, i))
    /\ \A k, l \in Nat : ~(RequestFor(k, i) /\ AnswerFor(l, i))
    /\ \A k, l \in Nat : RequestFor(k, i) /\ RequestFor(l, i) => k = l
    /\ \A k, l \in Nat : AnswerFor(k, i) /\ AnswerFor(l, i) => k = l

----------------------------------------------------------------------------
(* What the tables say of each other, and the messages of the tables.       *)

\* Only the investor of a row is charged, once, while he funds it or has.
Owned(i) ==
    /\ \A u \in Users :
          Charged(u, i) > 0 => /\ Charged(u, i) = 1
                               /\ rows[i].investor = u
                               /\ rows[i].status \in {"pending_fund", "funded"}
    /\ \A u \in Users : spent[u][i] > 0 => rows[i].status = "funded"
    /\ rows[i].status = "funded" => /\ rows[i].investor \in Users
                                    /\ Charged(rows[i].investor, i) = 1
    /\ creation[i] = "idle" => rows[i] = NoRow

\* Row i is funded by u.
FundedBy(i, u) == rows[i].status = "funded" /\ rows[i].investor = u

\* A confirmation names the investor of a funded row.
Confirmed ==
    /\ \A k \in 1 .. SentLen :
          IsFunded(Sent(k)) => FundedBy(Sent(k).invoice, Sent(k).user)
    /\ \A j \in jobs :
          j.step = "produce" /\ Msg(j).type = "BalanceReserved"
            => FundedBy(Msg(j).invoice, j.investor)

\* The handlers: one for each message read, for the investor it is about.
Handlers ==
    /\ \A j \in jobs : j.offset <= iPos
    /\ \A j, m \in jobs : j.offset = m.offset => j = m
    /\ \A j \in jobs : j.step # "commit" => Msg(j).type # "UserUpdated"
    /\ \A j \in jobs : j.step \in {"update", "produce"} => j.investor = Msg(j).user

\* One Fund call at a time; a row it found to be new still is.
OneCall ==
    /\ \A c, d \in Calls : InProgress(c) /\ InProgress(d) => c = d
    /\ \A c \in Calls :
          call[c].pc = "update" => rows[call[c].invoice].status = "new"

\* The invariant of the saga in which nothing is repeated.
SerialInv ==
    /\ FundingInv
    /\ Dispatched
    /\ PaidOnce
    /\ Handlers
    /\ OneCall
    /\ Confirmed
    /\ \A i \in Invoices : Owned(i) /\ Informed(i) /\ Alone(i)

----------------------------------------------------------------------------
(* The logs with their buffers, message by message.                         *)

\* The types of the logs, the buffers and what they hold.
LEMMA LogTypes ==
    ASSUME ConsumerInv
    PROVE  /\ Len(invoiceTopic) \in Nat /\ Len(invoiceOut) \in Nat
           /\ Len(userTopic) \in Nat /\ Len(userOut) \in Nat
           /\ SentLen \in Nat /\ SaidLen \in Nat
           /\ uPos \in 0 .. Len(invoiceTopic)
           /\ \A k \in 1 .. SentLen : Sent(k) \in InvoiceEvents
           /\ \A k \in 1 .. SaidLen : Said(k) \in UserEvents
<1>1. /\ invoiceTopic \in Seq(InvoiceEvents) /\ invoiceOut \in Seq(InvoiceEvents)
      /\ userTopic \in Seq(UserEvents) /\ userOut \in Seq(UserEvents)
      /\ uPos \in 0 .. Len(invoiceTopic)
  BY DEF ConsumerInv, BrokerTypeOK, ConsumerTypeOK
<1>2. /\ Len(invoiceTopic) \in Nat /\ Len(invoiceOut) \in Nat
      /\ Len(userTopic) \in Nat /\ Len(userOut) \in Nat
  BY <1>1
<1>3. ASSUME NEW k \in 1 .. SentLen
      PROVE  Sent(k) \in InvoiceEvents
  BY <1>1, <1>2, <1>3 DEF Sent, SentLen
<1>4. ASSUME NEW k \in 1 .. SaidLen
      PROVE  Said(k) \in UserEvents
  BY <1>1, <1>2, <1>4 DEF Said, SaidLen
<1> QED
  BY <1>1, <1>2, <1>3, <1>4 DEF SentLen, SaidLen

\* Producing an event puts it behind all the others.
LEMMA SentAppended ==
    ASSUME ConsumerInv, NEW e \in InvoiceEvents, UNCHANGED invoiceTopic,
           invoiceOut' = Append(invoiceOut, e)
    PROVE  /\ SentLen' = SentLen + 1
           /\ \A k \in 1 .. SentLen + 1 :
                 Sent(k)' = IF k = SentLen + 1 THEN e ELSE Sent(k)
<1>1. invoiceOut \in Seq(InvoiceEvents)
  BY DEF ConsumerInv, BrokerTypeOK
<1>2. /\ Len(invoiceOut') = Len(invoiceOut) + 1
      /\ \A k \in 1 .. Len(invoiceOut) : invoiceOut'[k] = invoiceOut[k]
      /\ invoiceOut'[Len(invoiceOut) + 1] = e
  BY <1>1
<1>3. Len(invoiceTopic) \in Nat /\ Len(invoiceOut) \in Nat
  BY LogTypes
<1>4. SentLen' = SentLen + 1
  BY <1>2, <1>3 DEF SentLen
<1>5. ASSUME NEW k \in 1 .. SentLen + 1
      PROVE  Sent(k)' = IF k = SentLen + 1 THEN e ELSE Sent(k)
  BY <1>2, <1>3 DEF Sent, SentLen
<1> QED
  BY <1>4, <1>5

\* Nor does an answer the users service puts into its buffer.
LEMMA SaidAppended ==
    ASSUME ConsumerInv, NEW e \in UserEvents, UNCHANGED userTopic,
           userOut' = Append(userOut, e)
    PROVE  /\ SaidLen' = SaidLen + 1
           /\ \A k \in 1 .. SaidLen + 1 :
                 Said(k)' = IF k = SaidLen + 1 THEN e ELSE Said(k)
<1>1. userOut \in Seq(UserEvents)
  BY DEF ConsumerInv, BrokerTypeOK
<1>2. /\ Len(userOut') = Len(userOut) + 1
      /\ \A k \in 1 .. Len(userOut) : userOut'[k] = userOut[k]
      /\ userOut'[Len(userOut) + 1] = e
  BY <1>1
<1>3. Len(userTopic) \in Nat /\ Len(userOut) \in Nat
  BY LogTypes
<1>4. SaidLen' = SaidLen + 1
  BY <1>2, <1>3 DEF SaidLen
<1>5. ASSUME NEW k \in 1 .. SaidLen + 1
      PROVE  Said(k)' = IF k = SaidLen + 1 THEN e ELSE Said(k)
  BY <1>2, <1>3 DEF Said, SaidLen
<1> QED
  BY <1>4, <1>5

\* Delivery moves the oldest message of the buffer behind the log, which
\* changes the place of none.
LEMMA SentDelivered ==
    ASSUME ConsumerInv, DeliverInvoice
    PROVE  /\ SentLen' = SentLen
           /\ \A k \in 1 .. SentLen : Sent(k)' = Sent(k)
           /\ Len(invoiceTopic') = Len(invoiceTopic) + 1
           /\ \A k \in 1 .. Len(invoiceTopic) : invoiceTopic'[k] = invoiceTopic[k]
<1> DEFINE e == Head(invoiceOut)
<1>1. /\ invoiceTopic \in Seq(InvoiceEvents) /\ invoiceOut \in Seq(InvoiceEvents)
      /\ invoiceOut # <<>> /\ invoiceOut' = Tail(invoiceOut)
      /\ invoiceTopic' = Append(invoiceTopic, e)
  BY DEF ConsumerInv, BrokerTypeOK, DeliverInvoice
<1>2. /\ e \in InvoiceEvents /\ e = invoiceOut[1]
      /\ Len(invoiceOut') = Len(invoiceOut) - 1
      /\ \A k \in 1 .. Len(invoiceOut) - 1 : invoiceOut'[k] = invoiceOut[k + 1]
  BY <1>1
<1> HIDE DEF e
<1>3. /\ Len(invoiceTopic') = Len(invoiceTopic) + 1
      /\ \A k \in 1 .. Len(invoiceTopic) : invoiceTopic'[k] = invoiceTopic[k]
      /\ invoiceTopic'[Len(invoiceTopic) + 1] = e
  BY <1>1, <1>2
<1>4. Len(invoiceTopic) \in Nat /\ Len(invoiceOut) \in Nat
  BY LogTypes
<1>5. SentLen' = SentLen
  BY <1>2, <1>3, <1>4 DEF SentLen
<1>6. ASSUME NEW k \in 1 .. SentLen
      PROVE  Sent(k)' = Sent(k)
  BY <1>2, <1>3, <1>4 DEF Sent, SentLen
<1> QED
  BY <1>3, <1>5, <1>6

\* A delivered answer only moves into the log, too.
LEMMA SaidDelivered ==
    ASSUME ConsumerInv, DeliverUser
    PROVE  /\ SaidLen' = SaidLen
           /\ \A k \in 1 .. SaidLen : Said(k)' = Said(k)
           /\ Len(userTopic') = Len(userTopic) + 1
           /\ \A k \in 1 .. Len(userTopic) : userTopic'[k] = userTopic[k]
<1> DEFINE e == Head(userOut)
<1>1. /\ userTopic \in Seq(UserEvents) /\ userOut \in Seq(UserEvents)
      /\ userOut # <<>> /\ userOut' = Tail(userOut)
      /\ userTopic' = Append(userTopic, e)
  BY DEF ConsumerInv, BrokerTypeOK, DeliverUser
<1>2. /\ e \in UserEvents /\ e = userOut[1]
      /\ Len(userOut') = Len(userOut) - 1
      /\ \A k \in 1 .. Len(userOut) - 1 : userOut'[k] = userOut[k + 1]
  BY <1>1
<1> HIDE DEF e
<1>3. /\ Len(userTopic') = Len(userTopic) + 1
      /\ \A k \in 1 .. Len(userTopic) : userTopic'[k] = userTopic[k]
      /\ userTopic'[Len(userTopic) + 1] = e
  BY <1>1, <1>2
<1>4. Len(userTopic) \in Nat /\ Len(userOut) \in Nat
  BY LogTypes
<1>5. SaidLen' = SaidLen
  BY <1>2, <1>3, <1>4 DEF SaidLen
<1>6. ASSUME NEW k \in 1 .. SaidLen
      PROVE  Said(k)' = Said(k)
  BY <1>2, <1>3, <1>4 DEF Said, SaidLen
<1> QED
  BY <1>3, <1>5, <1>6

\* The messages behind a dropped one move up, past none that is in the log.
Shift(n) == [k \in Nat |-> IF k <= n THEN k ELSE k + 1]

\* Dropping an event leaves the others, renumbered by Shift ...
LEMMA SentDropped ==
    ASSUME ConsumerInv, DropInvoice
    PROVE  /\ SentLen' = SentLen - 1
           /\ \A k \in 1 .. SentLen - 1 :
                 /\ Shift(Len(invoiceTopic))[k] \in 1 .. SentLen
                 /\ Sent(k)' = Sent(Shift(Len(invoiceTopic))[k])
<1>1. /\ Len(invoiceOut') = Len(invoiceOut) - 1
      /\ \A k \in 1 .. Len(invoiceOut) - 1 : invoiceOut'[k] = invoiceOut[k + 1]
      /\ invoiceTopic' = invoiceTopic
  BY DEF DropInvoice, ConsumerInv, BrokerTypeOK
<1>2. Len(invoiceTopic) \in Nat /\ Len(invoiceOut) \in Nat
  BY LogTypes
<1>3. SentLen' = SentLen - 1
  BY <1>1, <1>2 DEF SentLen
<1>4. ASSUME NEW k \in 1 .. SentLen - 1
      PROVE  /\ Shift(Len(invoiceTopic))[k] \in 1 .. SentLen
             /\ Sent(k)' = Sent(Shift(Len(invoiceTopic))[k])
  <2>1. k \in Nat /\ k >= 1 /\ k + 1 <= Len(invoiceTopic) + Len(invoiceOut)
    BY <1>2 DEF SentLen
  <2>2. CASE k <= Len(invoiceTopic)
    <3>1. Shift(Len(invoiceTopic))[k] = k
      BY <2>1, <2>2 DEF Shift
    <3> QED
      BY <1>1, <1>2, <2>1, <2>2, <3>1 DEF Sent, SentLen
  <2>3. CASE ~(k <= Len(invoiceTopic))
    <3>1. Shift(Len(invoiceTopic))[k] = k + 1
      BY <2>1, <2>3 DEF Shift
    <3>2. k - Len(invoiceTopic) \in 1 .. Len(invoiceOut) - 1
      BY <1>2, <2>1, <2>3
    <3>3. invoiceOut'[k - Len(invoiceTopic)] = invoiceOut[k - Len(invoiceTopic) + 1]
      BY <1>1, <3>2
    <3>4. k - Len(invoiceTopic) + 1 = k + 1 - Len(invoiceTopic)
      BY <1>2, <2>1
    <3> QED
      BY <1>1, <1>2, <2>1, <2>3, <3>1, <3>3, <3>4 DEF Sent, SentLen
  <2> QED
    BY <2>2, <2>3
<1> QED
  BY <1>3, <1>4

\* ... and so does dropping an answer.
LEMMA SaidDropped ==
    ASSUME ConsumerInv, DropUser
    PROVE  /\ SaidLen' = SaidLen - 1
           /\ \A k \in 1 .. SaidLen - 1 :
                 /\ Shift(Len(userTopic))[k] \in 1 .. SaidLen
                 /\ Said(k)' = Said(Shift(Len(userTopic))[k])
<1>1. /\ Len(userOut') = Len(userOut) - 1
      /\ \A k \in 1 .. Len(userOut) - 1 : userOut'[k] = userOut[k + 1]
      /\ userTopic' = userTopic
  BY DEF DropUser, ConsumerInv, BrokerTypeOK
<1>2. Len(userTopic) \in Nat /\ Len(userOut) \in Nat
  BY LogTypes
<1>3. SaidLen' = SaidLen - 1
  BY <1>1, <1>2 DEF SaidLen
<1>4. ASSUME NEW k \in 1 .. SaidLen - 1
      PROVE  /\ Shift(Len(userTopic))[k] \in 1 .. SaidLen
             /\ Said(k)' = Said(Shift(Len(userTopic))[k])
  <2>1. k \in Nat /\ k >= 1 /\ k + 1 <= Len(userTopic) + Len(userOut)
    BY <1>2 DEF SaidLen
  <2>2. CASE k <= Len(userTopic)
    <3>1. Shift(Len(userTopic))[k] = k
      BY <2>1, <2>2 DEF Shift
    <3> QED
      BY <1>1, <1>2, <2>1, <2>2, <3>1 DEF Said, SaidLen
  <2>3. CASE ~(k <= Len(userTopic))
    <3>1. Shift(Len(userTopic))[k] = k + 1
      BY <2>1, <2>3 DEF Shift
    <3>2. k - Len(userTopic) \in 1 .. Len(userOut) - 1
      BY <1>2, <2>1, <2>3
    <3>3. userOut'[k - Len(userTopic)] = userOut[k - Len(userTopic) + 1]
      BY <1>1, <3>2
    <3>4. k - Len(userTopic) + 1 = k + 1 - Len(userTopic)
      BY <1>2, <2>1
    <3> QED
      BY <1>1, <1>2, <2>1, <2>3, <3>1, <3>3, <3>4 DEF Said, SaidLen
  <2> QED
    BY <2>2, <2>3
<1> QED
  BY <1>3, <1>4

\* Shift renumbers, and nothing that is in the log.
LEMMA ShiftInjective ==
    ASSUME NEW n \in Nat
    PROVE  /\ Shift(n) \in [Nat -> Nat]
           /\ \A k, l \in Nat : Shift(n)[k] = Shift(n)[l] => k = l
           /\ \A k \in Nat : Shift(n)[k] >= k /\ (k <= n => Shift(n)[k] = k)
  BY DEF Shift

\* A step that drops nothing keeps the numbers.
Same == [k \in Nat |-> k]

\* Same renumbers nothing.
LEMMA SameInjective ==
    ASSUME NEW n \in Nat
    PROVE  /\ Same \in [Nat -> Nat]
           /\ \A k, l \in Nat : Same[k] = Same[l] => k = l
           /\ \A k \in Nat : /\ Same[k] = k
                             /\ Same[k] >= k
                             /\ k <= n => Same[k] = k
  BY DEF Same

----------------------------------------------------------------------------
(* What keeps an invoice in order.                                          *)

\* All that the invariant says of one invoice.
InOrder(i) == Owned(i) /\ Informed(i) /\ Alone(i)

\* Nothing happens to invoice i, except that its investor's hold is settled.
Quiet(i) ==
    /\ rows'[i] = rows[i]
    /\ creation'[i] = "idle" => creation[i] = "idle"
    /\ \A u \in Users : Charged(u, i)' = Charged(u, i)
    /\ \A u \in Users : spent'[u][i] = spent[u][i] \/ rows[i].status = "funded"

\* No call begins to act for invoice i.
CallsThin(i) ==
    \A c \in Calls : CallFor(c, i)' => /\ CallFor(c, i)
                                       /\ call'[c].investor = call[c].investor

\* Who acts for an invoice after a step acted for it before, at a place of
\* its own, and knows the same.
LEMMA Carried ==
    ASSUME NEW i \in Invoices, InOrder(i), Quiet(i), CallsThin(i),
           NEW f \in [Nat -> Nat], \A k, l \in Nat : f[k] = f[l] => k = l,
           NEW g \in [Nat -> Nat], \A k, l \in Nat : g[k] = g[l] => k = l,
           \A k \in Nat : RequestFor(k, i)' => /\ RequestFor(f[k], i)
                                               /\ Sent(k)'.user = Sent(f[k]).user
                                               /\ Level(k)' = Level(f[k]),
           \A k \in Nat : AnswerFor(k, i)' => /\ AnswerFor(g[k], i)
                                              /\ Said(k)' = Said(g[k]),
           \A k \in Nat : RequestFor(k, i) => Sent(k).user \in Users,
           \A k \in Nat : AnswerFor(k, i) => Said(k).user \in Users,
           \A c \in Calls : call[c].investor \in Users
    PROVE  InOrder(i)'
<1> USE DEF InOrder
<1>1. Owned(i)'
  BY DEF Owned, Quiet
<1>2. Informed(i)'
  <2>1. ASSUME NEW c \in Calls, CallFor(c, i)'
        PROVE  Waits(i, call[c].investor, 0)'
    BY <2>1 DEF CallsThin, Informed, Waits, Quiet
  <2>2. ASSUME NEW k \in Nat, RequestFor(k, i)'
        PROVE  Waits(i, Sent(k).user, Level(k))'
    <3>1. RequestFor(f[k], i) /\ Sent(k)'.user = Sent(f[k]).user /\ f[k] \in Nat
          /\ Level(k)' = Level(f[k])
      BY <2>2
    <3>2. Waits(i, Sent(f[k]).user, Level(f[k])) /\ Sent(f[k]).user \in Users
      BY <3>1 DEF Informed
    <3> QED
      BY <3>1, <3>2 DEF Waits, Quiet
  <2>3. ASSUME NEW k \in Nat, AnswerFor(k, i)'
        PROVE  Waits(i, Said(k).user, Answered(k))'
    <3>1. AnswerFor(g[k], i) /\ Said(k)' = Said(g[k]) /\ g[k] \in Nat
      BY <2>3
    <3>2. Waits(i, Said(g[k]).user, Answered(g[k])) /\ Said(g[k]).user \in Users
      BY <3>1 DEF Informed
    <3> QED
      BY <3>1, <3>2 DEF Waits, Quiet, Answered
  <2> QED
    BY <2>1, <2>2, <2>3 DEF Informed
<1>3. Alone(i)'
  BY DEF Alone, CallsThin
<1> QED
  BY <1>1, <1>2, <1>3

\* The same when no message changes its place.
LEMMA Stayed ==
    ASSUME NEW i \in Invoices, InOrder(i), Quiet(i), CallsThin(i),
           \A k \in Nat : RequestFor(k, i)' => /\ RequestFor(k, i)
                                               /\ Sent(k)'.user = Sent(k).user
                                               /\ Level(k)' = Level(k),
           \A k \in Nat : AnswerFor(k, i)' => /\ AnswerFor(k, i)
                                              /\ Said(k)' = Said(k),
           \A k \in Nat : RequestFor(k, i) => Sent(k).user \in Users,
           \A k \in Nat : AnswerFor(k, i) => Said(k).user \in Users,
           \A c \in Calls : call[c].investor \in Users
    PROVE  InOrder(i)'
<1> QED
  BY SameInjective, Carried

----------------------------------------------------------------------------
(* Steps that act for no one else.                                          *)

\* What a step does to the messages that act for an invoice when it only
\* takes some of them away.
RequestsThin(i) ==
    \A k \in Nat : RequestFor(k, i)' => /\ RequestFor(k, i)
                                        /\ Sent(k)' = Sent(k)

AnswersThin(i) ==
    \A k \in Nat : AnswerFor(k, i)' => /\ AnswerFor(k, i)
                                       /\ Said(k)' = Said(k)

\* Who acts for an invoice names a user.
LEMMA ActorTypes ==
    ASSUME FundingInv, NEW i \in Invoices
    PROVE  /\ \A k \in Nat : RequestFor(k, i) => Sent(k).user \in Users
           /\ \A k \in Nat : AnswerFor(k, i) => Said(k).user \in Users
           /\ \A c \in Calls : call[c].investor \in Users
<1>1. ASSUME NEW k \in Nat, RequestFor(k, i)
      PROVE  Sent(k).user \in Users
  <2>1. /\ Len(invoiceTopic) \in Nat /\ Len(invoiceOut) \in Nat
        /\ k \in 1 .. Len(invoiceTopic) + Len(invoiceOut)
    BY <1>1, LogTypes DEF FundingInv, RequestFor, SentLen
  <2>2. CASE k <= Len(invoiceTopic)
    BY <1>1, <2>1, <2>2
       DEF RequestFor, Sent, FundingInv, ConsumerInv, WellAddressed
  <2>3. CASE ~(k <= Len(invoiceTopic))
    <3>1. k - Len(invoiceTopic) \in 1 .. Len(invoiceOut)
      BY <2>1, <2>3
    <3> QED
      BY <1>1, <2>3, <3>1
         DEF RequestFor, Sent, FundingInv, OutAddressed, Addressed
  <2> QED
    BY <2>2, <2>3
<1>2. ASSUME NEW k \in Nat, AnswerFor(k, i)
      PROVE  Said(k).user \in Users
  <2>1. Said(k) \in UserEvents
    BY <1>2, LogTypes DEF FundingInv, AnswerFor
  <2> QED
    BY <2>1 DEF UserEvents
<1>3. \A c \in Calls : call[c].investor \in Users
  BY DEF FundingInv, InvoiceTypeOK
<1> QED
  BY <1>1, <1>2, <1>3

\* Nobody acts for an invoice whose row does not wait.
LEMMA NobodyActs ==
    ASSUME NEW i \in Invoices, InOrder(i), rows[i].status # "pending_fund"
    PROVE  /\ \A c \in Calls : ~CallFor(c, i)
           /\ \A k \in Nat : ~RequestFor(k, i) /\ ~AnswerFor(k, i)
  BY DEF InOrder, Informed, Waits

\* An invoice for which nobody acts needs only its tables in order.
LEMMA NobodyNeeded ==
    ASSUME NEW i \in Invoices, Owned(i),
           \A c \in Calls : ~CallFor(c, i),
           \A k \in Nat : ~RequestFor(k, i) /\ ~AnswerFor(k, i)
    PROVE  InOrder(i)
  BY DEF InOrder, Informed, Alone

\* The faults that repeat something do not happen.
LEMMA NeverRepeated ==
    ASSUME NothingRepeated, FundingInv
    PROVE  ~Fault("resend") /\ ~Fault("user_crash") /\ ~Fault("invoice_crash")
  BY DEF NothingRepeated, FundingInv, ConsumerInv, BrokerTypeOK, Fault, FaultKinds

----------------------------------------------------------------------------
(* The users service.                                                       *)

\* The controller acts for the invoice of the request in hand.
LEMMA InHandFacts ==
    ASSUME FundingInv, uPc # "poll"
    PROVE  /\ uPos \in 1 .. Len(invoiceTopic) /\ uPos \in Nat
           /\ uPos \in 1 .. SentLen
           /\ Sent(uPos) = Current
           /\ Serving => RequestFor(uPos, Current.invoice)
<1>1. uPos \in 1 .. Len(invoiceTopic)
  BY LogTypes DEF FundingInv, ConsumerInv, InHand
<1>2. Len(invoiceTopic) \in Nat /\ Len(invoiceOut) \in Nat
  BY LogTypes DEF FundingInv
<1> QED
  BY <1>1, <1>2 DEF Sent, SentLen, Current, Serving, RequestFor

\* What the consumer does to the requests: it may take the next one in hand,
\* and let go of the one it had.
LEMMA UserRequests ==
    ASSUME FundingInv, ConsumerNext, LogsStay, ~UserCrash,
           NEW i \in Invoices
    PROVE  /\ RequestsThin(i)
           /\ ~Receive => uPos' = uPos /\ Current' = Current
<1>1. SentLen' = SentLen /\ \A k \in Nat : Sent(k)' = Sent(k)
  BY DEF LogsStay, SentLen, Sent
<1>2. uPos \in Nat
  BY LogTypes DEF FundingInv
<1>3. CASE Receive
  BY <1>1, <1>2, <1>3 DEF Receive, RequestsThin, RequestFor
<1>4. CASE ~Receive
  <2>1. uPos' = uPos
    BY <1>4 DEF ConsumerNext, ConsumerStep, GetInvestor, CheckHeld, BeginHold,
       InsertHold, UpdateBalance, CommitHold, CheckFunded, DeleteHold, Outbound,
       MarkAndCommit, CommitInBackground, progress
  <2>2. uPc' \in {"poll", "mark"} \/ uPc \notin {"poll", "mark"}
    BY <1>4 DEF ConsumerNext, ConsumerStep, GetInvestor, CheckHeld, BeginHold,
       InsertHold, UpdateBalance, CommitHold, CheckFunded, DeleteHold, Outbound,
       MarkAndCommit, CommitInBackground
  <2> QED
    BY <1>1, <1>2, <1>4, <2>1, <2>2
       DEF RequestsThin, RequestFor, LogsStay, Current, Receive
<1> QED
  BY <1>3, <1>4

\* The request in hand is charged for once at most, the next one not at all
\* before it is taken.
LEMMA PaidOnceForever ==
    ASSUME SerialInv, ConsumerNext, LogsStay
    PROVE  PaidOnce'
<1>1. CASE Receive
  <2> SUFFICES ASSUME Serving'
               PROVE  /\ ~Paid'
                      /\ Charged(Current.user, Current.invoice)' = 0
    BY DEF PaidOnce
  <2>1. ~Paid'
    BY <1>1 DEF Receive, Paid
  <2>2. uPos \in Nat /\ uPos + 1 \in 1 .. Len(invoiceTopic)
        /\ Len(invoiceTopic) \in Nat /\ Len(invoiceOut) \in Nat
    BY <1>1, LogTypes DEF Receive, SerialInv, FundingInv
  <2>3. PICK k \in Nat : k = uPos + 1
    BY <2>2
  <2>4. /\ k \in 1 .. SentLen
        /\ Sent(k) = Current'
        /\ Sent(k) \in InvoiceEvents
        /\ k > uPos
    BY <1>1, <2>2, <2>3, LogTypes
       DEF SentLen, Sent, Current, Receive, LogsStay, SerialInv, FundingInv
  <2>5. PICK i \in Invoices : i = Sent(k).invoice
    BY <2>4 DEF InvoiceEvents
  <2>6. RequestFor(k, i) /\ Level(k) = 0
    BY <2>4, <2>5 DEF RequestFor, Serving, Level
  <2>7. Charged(Sent(k).user, i) = 0
    BY <2>6 DEF SerialInv, Informed, Waits
  <2>8. Charged(Current.user, Current.invoice)' = Charged(Sent(k).user, i)
    BY <1>1, <2>4, <2>5 DEF Charged, Receive, store
  <2> QED
    BY <2>1, <2>7, <2>8
<1>2. CASE ~Receive
  BY <1>2, PaidOnceKept DEF SerialInv, FundingInv
<1> QED
  BY <1>1, <1>2

\* While an invoice is charged for nothing, the request for it has the same
\* level: the charge and what the controller knows of it agree.
LEMMA LevelStays ==
    ASSUME SerialInv, ConsumerNext, LogsStay, ~UserCrash,
           NEW i \in Invoices, \A u \in Users : Charged(u, i)' = Charged(u, i),
           NEW k \in Nat, RequestFor(k, i)'
    PROVE  Level(k)' = Level(k)
<1>1. RequestFor(k, i) /\ Sent(k)' = Sent(k)
  BY UserRequests DEF RequestsThin, SerialInv
<1>2. CASE Receive
  <2>1. ~Paid'
    BY <1>2 DEF Receive, Paid
  <2>2. k # uPos
    BY <1>1, <1>2 DEF Receive, RequestFor
  <2> QED
    BY <2>1, <2>2 DEF Level
<1>3. CASE ~Receive /\ k = uPos
  <2>1. uPos' = uPos /\ Current' = Current
    BY <1>3, UserRequests DEF SerialInv
  <2>2. uPc \notin {"poll", "mark"} /\ uPc' \notin {"poll", "mark"}
    BY <1>1, <1>3, <2>1 DEF RequestFor
  <2>3. Sent(k) = Current
    BY <1>3, <2>2, InHandFacts DEF SerialInv
  <2>4. Serving /\ Serving' /\ Current.invoice = i /\ Current.user \in Users
    BY <1>1, <2>1, <2>2, <2>3, ActorTypes DEF RequestFor, Serving, SerialInv
  <2>5. Charged(Current.user, Current.invoice) = IF Paid THEN 1 ELSE 0
    BY <2>4 DEF SerialInv, PaidOnce
  <2>6. Charged(Current.user, Current.invoice)' = IF Paid' THEN 1 ELSE 0
    BY <2>4, PaidOnceForever DEF PaidOnce
  <2>7. Charged(Current.user, Current.invoice)'
          = Charged(Current.user, Current.invoice)
    BY <2>1, <2>4 DEF Charged
  <2> QED
    BY <1>3, <2>1, <2>5, <2>6, <2>7 DEF Level
<1>4. CASE ~Receive /\ k # uPos
  <2>1. uPos' = uPos
    BY <1>4, UserRequests DEF SerialInv
  <2> QED
    BY <1>4, <2>1 DEF Level
<1> QED
  BY <1>2, <1>3, <1>4

\* What a step of the users service leaves alone.
UserStays == LogsStay /\ UNCHANGED invoiceState

\* Everything but the last answer keeps its place.
LEMMA AnswersStay ==
    ASSUME FundingInv, UserStays, NEW i \in Invoices
    PROVE  /\ CallsThin(i)
           /\ UNCHANGED userOut => AnswersThin(i)
           /\ \A k \in 1 .. SaidLen : userOut' = userOut
                => Said(k)' = Said(k)
  BY DEF UserStays, LogsStay, invoiceState, CallsThin, CallFor, AnswersThin,
     AnswerFor, Said, SaidLen

\* A charge is made for the request in hand, which alone acts for its
\* invoice.
LEMMA ChargeInOrder ==
    ASSUME SerialInv, ConsumerNext, UserStays, ~UserCrash, ChargesOne,
           NEW i \in Invoices
    PROVE  InOrder(i)'
<1>1. ~Receive /\ UNCHANGED userOut
  BY DEF ChargesOne, ConsumerNext, ConsumerStep, Receive, GetInvestor, CheckHeld,
     BeginHold, InsertHold, UpdateBalance, CommitHold, CheckFunded, DeleteHold,
     Outbound, MarkAndCommit, CommitInBackground
<1>2. Serving /\ ~Paid
  BY <1>1, PaidOnceKept DEF SerialInv, FundingInv, UserStays
<1>3. /\ uPos \in Nat
      /\ uPos' = uPos /\ Current' = Current
      /\ Sent(uPos) = Current
      /\ RequestFor(uPos, Current.invoice)
  BY <1>1, <1>2, UserRequests, InHandFacts
     DEF UserStays, SerialInv, ChargesOne
<1>4. CallsThin(i) /\ AnswersThin(i) /\ RequestsThin(i)
  BY <1>1, AnswersStay, UserRequests DEF SerialInv, UserStays
<1>5. /\ \A u \in Users, m \in Invoices :
           Charged(u, m)' = IF u = Current.user /\ m = Current.invoice
                            THEN Charged(u, m) + 1 ELSE Charged(u, m)
      /\ UNCHANGED spent
  BY DEF ChargesOne
<1>6. UNCHANGED <<rows, creation, call>>
  BY DEF UserStays, invoiceState
<1>7. InOrder(i)
  BY DEF SerialInv, InOrder
<1>8. CASE i # Current.invoice
  <2>1. Quiet(i)
    BY <1>5, <1>6, <1>8 DEF Quiet
  <2>2. \A k \in Nat : RequestFor(k, i)' => Level(k)' = Level(k)
    BY <1>5, <1>8, LevelStays DEF UserStays
  <2> QED
    BY <1>4, <1>7, <2>1, <2>2, Stayed, ActorTypes
       DEF RequestsThin, AnswersThin, SerialInv
<1>9. CASE i = Current.invoice
  <2>1. PICK u \in Users : u = Current.user /\ Waits(i, u, 0)
    <3>1. Level(uPos) = 0
      BY <1>2 DEF Level
    <3> QED
      BY <1>3, <1>7, <1>9, <3>1, ActorTypes DEF InOrder, Informed, SerialInv
  <2>2. \A v \in Users :
          Charged(v, i)' = IF v = u THEN 1 ELSE Charged(v, i)
    BY <1>5, <1>9, <2>1 DEF Waits
  <2>3. Owned(i)'
    BY <1>5, <1>6, <1>7, <2>1, <2>2 DEF InOrder, Owned, Waits
  <2>4. /\ \A c \in Calls : ~CallFor(c, i)'
        /\ \A k \in Nat : ~AnswerFor(k, i)'
        /\ \A k \in Nat : RequestFor(k, i)' => k = uPos
    BY <1>3, <1>4, <1>7, <1>9
       DEF InOrder, Alone, CallsThin, AnswersThin, RequestsThin
  <2>5. ASSUME NEW k \in Nat, RequestFor(k, i)'
        PROVE  Waits(i, Sent(k).user, Level(k))'
    <3>1. k = uPos /\ Sent(k)' = Current
      BY <1>3, <1>4, <2>4, <2>5 DEF RequestsThin
    <3>2. Serving'
      BY <1>3, <2>5, <3>1 DEF RequestFor, Serving
    <3>3. Paid'
      BY <1>3, <1>9, <2>1, <2>2, <3>2, PaidOnceForever
         DEF PaidOnce, UserStays, Charged
    <3>4. Level(k)' = 1
      BY <1>3, <3>1, <3>3 DEF Level
    <3>5. Waits(i, u, 1)'
      BY <1>6, <2>1, <2>2 DEF Waits
    <3> QED
      BY <2>1, <3>1, <3>4, <3>5 DEF Waits, Charged
  <2> QED
    BY <2>3, <2>4, <2>5 DEF InOrder, Informed, Alone
<1> QED
  BY <1>8, <1>9

\* The answer takes over from the request it was built for.
LEMMA OutboundInOrder ==
    ASSUME SerialInv, Outbound, UserStays, NEW i \in Invoices
    PROVE  InOrder(i)'
<1> DEFINE e == Activity(uReply, Current.invoice, Current.user,
                         ReplyKey(uReply, Current.user))
<1>1. /\ uPc = "outbound" /\ uPc' = "mark" /\ uPos' = uPos /\ ~UserCrash
      /\ UNCHANGED <<accounts, balance, held, spent, uTx>>
      /\ ConsumerNext /\ LogsStay
  BY DEF Outbound, store, UserCrash, ConsumerNext, ConsumerStep, UserStays
<1>2. /\ Sent(uPos) = Current
      /\ uPos \in Nat
      /\ Serving => RequestFor(uPos, Current.invoice)
      /\ Current.user \in Users /\ Current.invoice \in Invoices
      /\ uReply \in Replies
  BY <1>1, InHandFacts DEF SerialInv, FundingInv, ConsumerInv, InHand
<1>3. e \in UserEvents
  BY <1>2 DEF Activity, UserEvents, ReplyKey, Replies
<1>4. /\ e.type = uReply /\ e.invoice = Current.invoice /\ e.user = Current.user
  BY DEF Activity
<1>5. userOut' = Append(userOut, e) /\ UNCHANGED userTopic
  BY DEF Outbound, UserStays, LogsStay
<1> HIDE DEF e
<1>6. /\ SaidLen' = SaidLen + 1 /\ SaidLen \in Nat
      /\ \A k \in 1 .. SaidLen + 1 :
            Said(k)' = IF k = SaidLen + 1 THEN e ELSE Said(k)
  BY <1>3, <1>5, SaidAppended, LogTypes DEF SerialInv, FundingInv
<1>7. UNCHANGED <<rows, creation, call, jobs, iPos>>
  BY DEF UserStays, invoiceState
<1>8. /\ CallsThin(i) /\ RequestsThin(i)
      /\ \A k \in Nat : RequestFor(k, i)' => k # uPos
  BY <1>1, <1>7, UserRequests
     DEF SerialInv, CallsThin, CallFor, RequestFor
<1>9. \A k \in Nat : RequestFor(k, i)' => Level(k)' = Level(k)
  BY <1>1, LevelStays DEF Charged
<1>10. Quiet(i) /\ InOrder(i)
  BY <1>1, <1>7 DEF Quiet, Charged, SerialInv, InOrder
<1>11. ASSUME NEW k \in Nat, AnswerFor(k, i)'
       PROVE  \/ AnswerFor(k, i) /\ Said(k)' = Said(k) /\ k # SaidLen + 1
              \/ /\ k = SaidLen + 1
                 /\ Said(k)' = e
                 /\ uReply # "UserUpdated"
                 /\ i = Current.invoice
  BY <1>4, <1>6, <1>7, <1>11 DEF AnswerFor
<1>12. CASE uReply # "UserUpdated" /\ i = Current.invoice
  <2>1. Serving
    BY <1>1, <1>12 DEF SerialInv, Dispatched, Serving
  <2>2. RequestFor(uPos, i)
    BY <1>2, <1>12, <2>1
  <2>3. PICK u \in Users : u = Current.user /\ Waits(i, u, Level(uPos))
    BY <1>2, <1>10, <2>2 DEF InOrder, Informed
  <2>4. Level(uPos) = IF uReply = "BalanceReserved" THEN 1 ELSE 0
    BY <1>1 DEF Level, Paid
  <2>5. /\ \A c \in Calls : ~CallFor(c, i)'
        /\ \A k \in Nat : ~RequestFor(k, i)'
        /\ \A k \in Nat : AnswerFor(k, i)' => k = SaidLen + 1 /\ Said(k)' = e
    BY <1>2, <1>8, <1>10, <1>11, <2>2
       DEF InOrder, Alone, CallsThin, RequestsThin
  <2>6. ASSUME NEW k \in Nat, AnswerFor(k, i)'
        PROVE  Waits(i, Said(k).user, Answered(k))'
    <3>1. Said(k)' = e
      BY <2>5, <2>6
    <3>2. Answered(k)' = Level(uPos)
      BY <1>4, <2>4, <3>1 DEF Answered
    <3> QED
      BY <1>1, <1>4, <1>7, <2>3, <3>1, <3>2 DEF Waits, Charged
  <2>7. Owned(i)'
    BY <1>10 DEF InOrder, Owned, Quiet
  <2> QED
    BY <2>5, <2>6, <2>7 DEF InOrder, Informed, Alone
<1>13. CASE ~(uReply # "UserUpdated" /\ i = Current.invoice)
  <2>1. \A k \in Nat : AnswerFor(k, i)' => AnswerFor(k, i) /\ Said(k)' = Said(k)
    BY <1>11, <1>13
  <2> QED
    BY <1>8, <1>9, <1>10, <2>1, Stayed, ActorTypes
       DEF RequestsThin, SerialInv
<1> QED
  BY <1>12, <1>13

\* Only the hold of a funded invoice is deleted.
LEMMA SettledIsFunded ==
    ASSUME SerialInv, ConsumerNext, LogsStay, NEW i \in Invoices,
           rows[i].status # "funded"
    PROVE  \A u \in Users : spent'[u][i] = spent[u][i]
<1>1. CASE DeleteHold /\ DeleteRows
  <2>1. uPc = "delete" /\ IsFunded(Current)
    BY <1>1 DEF DeleteHold, SerialInv, Dispatched
  <2>2. uPos \in 1 .. SentLen /\ Sent(uPos) = Current
    BY <2>1, InHandFacts DEF SerialInv
  <2>3. FundedBy(Current.invoice, Current.user)
    BY <2>1, <2>2 DEF SerialInv, Confirmed
  <2>4. i # Current.invoice
    BY <2>3 DEF FundedBy
  <2>5. Current.user \in Users /\ Current.invoice \in Invoices
    BY <2>1 DEF SerialInv, FundingInv, ConsumerInv, InHand
  <2> QED
    BY <1>1, <2>4, <2>5, DeleteCharges DEF SerialInv, FundingInv
<1>2. CASE UNCHANGED spent
  BY <1>2
<1> QED
  BY <1>1, <1>2
     DEF ConsumerNext, ConsumerStep, Receive, GetInvestor, CheckHeld, BeginHold,
         InsertHold, UpdateBalance, CommitHold, CheckFunded, DeleteHold, Outbound,
         MarkAndCommit, CommitInBackground, UserCrash, store

\* Every step of the users service keeps the saga in order.
LEMMA UserMovesSerial ==
    ASSUME NothingRepeated, SerialInv, UserMoves
    PROVE  SerialInv'
<1>1. ConsumerNext /\ LogsStay /\ UserStays
  BY DEF UserMoves, UserStays, LogsStay, invoiceVars, invoiceState
<1>2. ~UserCrash
  BY NeverRepeated DEF UserCrash, SerialInv
<1>3. FundingInv'
  BY NextFunding DEF SerialInv, Next
<1>4. Dispatched' /\ PaidOnce'
  BY <1>1, DispatchedKept, PaidOnceForever DEF SerialInv, FundingInv
<1>5. Handlers' /\ OneCall'
  BY <1>1 DEF SerialInv, Handlers, OneCall, InProgress, Msg, UserStays,
     invoiceState, LogsStay
<1>6. Confirmed'
  BY <1>1 DEF SerialInv, Confirmed, FundedBy, Sent, SentLen, Msg, UserStays,
     invoiceState, LogsStay
<1>7. ASSUME NEW i \in Invoices
      PROVE  InOrder(i)'
  <2>1. CASE ChargesOne
    BY <1>1, <1>2, <2>1, ChargeInOrder
  <2>2. CASE Outbound
    BY <1>1, <2>2, OutboundInOrder
  <2>3. CASE ChargesStay /\ ~Outbound
    <3>1. UNCHANGED userOut
      BY <1>1, <1>2, <2>3
         DEF ConsumerNext, ConsumerStep, Receive, GetInvestor, CheckHeld,
             BeginHold, InsertHold, UpdateBalance, CommitHold, CheckFunded,
             DeleteHold, MarkAndCommit, CommitInBackground
    <3>2. CallsThin(i) /\ AnswersThin(i) /\ RequestsThin(i)
      BY <1>1, <1>2, <3>1, AnswersStay, UserRequests DEF SerialInv
    <3>3. \A k \in Nat : RequestFor(k, i)' => Level(k)' = Level(k)
      BY <1>1, <1>2, <2>3, LevelStays DEF ChargesStay
    <3>4. Quiet(i)
      BY <1>1, <2>3, SettledIsFunded
         DEF Quiet, ChargesStay, UserStays, invoiceState
    <3>5. InOrder(i)
      BY DEF SerialInv, InOrder
    <3> QED
      BY <3>2, <3>3, <3>4, <3>5, Stayed, ActorTypes
         DEF RequestsThin, AnswersThin, SerialInv
  <2> QED
    BY <1>1, <2>1, <2>2, <2>3, ConsumerCharges DEF SerialInv, FundingInv
<1> QED
  BY <1>3, <1>4, <1>5, <1>6, <1>7 DEF SerialInv, InOrder
----------------------------------------------------------------------------
(* The invoices service.                                                    *)

\* What a step of the invoices service leaves as it is.
LEMMA OthersFacts ==
    ASSUME FundingInv, OthersStay
    PROVE  /\ SaidLen' = SaidLen /\ \A k \in Nat : Said(k)' = Said(k)
           /\ \A u \in Users, i \in Invoices : Charged(u, i)' = Charged(u, i)
           /\ UNCHANGED <<uPos, uPc, uReply, uTx, held, spent>>
           /\ \A k \in Nat : Level(k)' = Level(k)
  BY DEF OthersStay, userVars, SaidLen, Said, Charged, Level, Paid

\* The events of the invoices service that ask for nothing.
LEMMA NothingAsked ==
    ASSUME FundingInv, OthersStay, NEW i \in Invoices,
           \/ UNCHANGED invoiceOut
           \/ \E e \in InvoiceEvents : /\ invoiceOut' = Append(invoiceOut, e)
                                       /\ ~(IsFundRequest(e) /\ e.invoice = i)
    PROVE  RequestsThin(i)
<1>1. SentLen \in Nat /\ UNCHANGED <<uPos, uPc>>
  BY LogTypes, OthersFacts DEF FundingInv
<1>2. CASE UNCHANGED invoiceOut
  BY <1>1, <1>2 DEF RequestsThin, RequestFor, SentLen, Sent, OthersStay
<1>3. ASSUME NEW e \in InvoiceEvents, invoiceOut' = Append(invoiceOut, e),
             ~(IsFundRequest(e) /\ e.invoice = i)
      PROVE  RequestsThin(i)
  <2>1. /\ SentLen' = SentLen + 1
        /\ \A k \in 1 .. SentLen + 1 :
              Sent(k)' = IF k = SentLen + 1 THEN e ELSE Sent(k)
    BY <1>3, SentAppended DEF FundingInv, OthersStay
  <2>2. ASSUME NEW k \in Nat, RequestFor(k, i)'
        PROVE  RequestFor(k, i) /\ Sent(k)' = Sent(k)
    <3>1. k \in 1 .. SentLen + 1 /\ IsFundRequest(Sent(k)') /\ Sent(k)'.invoice = i
      BY <2>1, <2>2 DEF RequestFor, IsFundRequest
    <3>2. k # SentLen + 1
      BY <1>3, <2>1, <3>1
    <3>3. k \in 1 .. SentLen /\ Sent(k)' = Sent(k)
      BY <1>1, <2>1, <3>1, <3>2
    <3> QED
      BY <1>1, <2>2, <3>1, <3>3 DEF RequestFor
  <2> QED
    BY <2>2 DEF RequestsThin
<1> QED
  BY <1>2, <1>3

\* A step that leaves an invoice and whoever acts for it alone.
LEMMA LeftAlone ==
    ASSUME SerialInv, OthersStay, NEW i \in Invoices,
           rows'[i] = rows[i], creation'[i] = "idle" => creation[i] = "idle",
           CallsThin(i), RequestsThin(i), AnswersThin(i)
    PROVE  InOrder(i)'
<1>1. Quiet(i)
  BY OthersFacts DEF Quiet, SerialInv
<1>2. \A k \in Nat : Level(k)' = Level(k)
  BY OthersFacts DEF SerialInv
<1>3. InOrder(i)
  BY DEF SerialInv, InOrder
<1> QED
  BY <1>1, <1>2, <1>3, Stayed, ActorTypes
     DEF RequestsThin, AnswersThin, SerialInv

\* A step that writes the row of an invoice for which nobody acts after it.
LEMMA Released ==
    ASSUME SerialInv, OthersStay, NEW i \in Invoices,
           \A c \in Calls : ~CallFor(c, i)',
           \A k \in Nat : ~RequestFor(k, i)' /\ ~AnswerFor(k, i)',
           creation'[i] = "idle" => rows'[i] = NoRow,
           \/ /\ \A u \in Users : Charged(u, i) = 0
              /\ rows'[i].status # "funded"
           \/ \E u \in Users : /\ Charged(u, i) = 1
                               /\ rows[i].status = "pending_fund"
                               /\ rows[i].investor = u
                               /\ rows'[i].status = "funded"
                               /\ rows'[i].investor = u
    PROVE  InOrder(i)'
<1>1. \A u \in Users : /\ Charged(u, i)' = Charged(u, i)
                       /\ spent'[u][i] = spent[u][i]
                       /\ spent[u][i] \in Nat /\ held[u][i] \in Nat
  BY OthersFacts, HeldTypes DEF SerialInv, FundingInv
<1>2. Owned(i)'
  <2>1. ASSUME \A u \in Users : Charged(u, i) = 0, rows'[i].status # "funded"
        PROVE  Owned(i)'
    <3>1. \A u \in Users : spent[u][i] = 0
      BY <1>1, <2>1 DEF Charged
    <3> QED
      BY <1>1, <2>1, <3>1 DEF Owned
  <2>2. ASSUME NEW u \in Users, Charged(u, i) = 1,
               rows[i].status = "pending_fund", rows[i].investor = u,
               rows'[i].status = "funded", rows'[i].investor = u
        PROVE  Owned(i)'
    BY <1>1, <2>2 DEF SerialInv, Owned
  <2> QED
    BY <2>1, <2>2
<1> QED
  BY <1>2 DEF InOrder, Informed, Alone

\* Nobody is charged for an invoice that is new or not there.
LEMMA UnchargedFree ==
    ASSUME SerialInv, NEW i \in Invoices,
           rows[i].status \notin {"pending_fund", "funded"}
    PROVE  \A u \in Users : Charged(u, i) = 0
<1>1. ASSUME NEW u \in Users
      PROVE  Charged(u, i) = 0
  <2>1. Charged(u, i) \in Nat
    BY HeldTypes DEF SerialInv, FundingInv, Charged
  <2> QED
    BY <2>1 DEF SerialInv, Owned
<1> QED
  BY <1>1

\* What does not look at the invoices service stays.
LEMMA UserSide ==
    ASSUME SerialInv, OthersStay
    PROVE  Dispatched' /\ PaidOnce'
  BY DEF SerialInv, OthersStay, userVars, Dispatched, HoldSteps, Current, PaidOnce,
     Serving, Paid, Charged

\* The confirmations stay while the funded rows do.
LEMMA ConfirmedStays ==
    ASSUME SerialInv, OthersStay,
           \A i \in Invoices : rows[i].status = "funded" => rows'[i] = rows[i],
           \/ UNCHANGED invoiceOut
           \/ \E e \in InvoiceEvents :
                /\ invoiceOut' = Append(invoiceOut, e)
                /\ IsFunded(e) => FundedBy(e.invoice, e.user)
    PROVE  \A k \in 1 .. SentLen' :
              IsFunded(Sent(k)') => FundedBy(Sent(k).invoice, Sent(k).user)'
<1>1. ASSUME NEW i \in Invoices, NEW u, FundedBy(i, u)
      PROVE  FundedBy(i, u)'
  BY <1>1 DEF FundedBy
<1>2. ASSUME NEW e \in InvoiceEvents, IsFunded(e) => FundedBy(e.invoice, e.user)
      PROVE  IsFunded(e) => FundedBy(e.invoice, e.user)'
  <2>1. e.invoice \in Invoices
    BY DEF InvoiceEvents
  <2> QED
    BY <1>1, <1>2, <2>1 DEF FundedBy
<1>3. /\ SentLen \in Nat
      /\ \A k \in 1 .. SentLen : Sent(k) \in InvoiceEvents
      /\ \A k \in 1 .. SentLen :
            IsFunded(Sent(k)) => FundedBy(Sent(k).invoice, Sent(k).user)
  BY LogTypes DEF SerialInv, FundingInv, Confirmed
<1>4. CASE UNCHANGED invoiceOut
  <2>1. SentLen' = SentLen /\ \A k \in 1 .. SentLen : Sent(k)' = Sent(k)
    BY <1>4 DEF OthersStay, SentLen, Sent
  <2> QED
    BY <1>2, <1>3, <2>1 DEF FundedBy
<1>5. ASSUME NEW e \in InvoiceEvents, invoiceOut' = Append(invoiceOut, e),
             IsFunded(e) => FundedBy(e.invoice, e.user)
      PROVE  \A k \in 1 .. SentLen' :
                IsFunded(Sent(k)') => FundedBy(Sent(k).invoice, Sent(k).user)'
  <2>1. /\ SentLen' = SentLen + 1
        /\ \A k \in 1 .. SentLen + 1 :
              Sent(k)' = IF k = SentLen + 1 THEN e ELSE Sent(k)
    BY <1>5, SentAppended DEF SerialInv, FundingInv, OthersStay
  <2>2. ASSUME NEW k \in 1 .. SentLen'
        PROVE  IsFunded(Sent(k)') => FundedBy(Sent(k).invoice, Sent(k).user)'
    <3>1. CASE k = SentLen + 1
      BY <1>2, <1>5, <2>1, <2>2, <3>1 DEF FundedBy
    <3>2. CASE k # SentLen + 1
      <4>1. k \in 1 .. SentLen /\ Sent(k)' = Sent(k)
        BY <1>3, <2>1, <2>2, <3>2
      <4> QED
        BY <1>2, <1>3, <4>1 DEF FundedBy
    <3> QED
      BY <3>1, <3>2
  <2> QED
    BY <2>2
<1> QED
  BY <1>4, <1>5
----------------------------------------------------------------------------
(* The gRPC calls.                                                          *)

\* What a step must establish beyond FundingInv.
SagaKept ==
    /\ Handlers'
    /\ OneCall'
    /\ Confirmed'
    /\ \A i \in Invoices : InOrder(i)'

\* The handlers and the answers do not change under a call.
LEMMA CallsAside ==
    ASSUME SerialInv, OthersStay, UNCHANGED <<jobs, iPos>>
    PROVE  /\ Handlers'
           /\ \A i \in Invoices : AnswersThin(i)
           /\ \A j \in jobs : Msg(j)' = Msg(j)
  BY OthersFacts
     DEF SerialInv, Handlers, Msg, OthersStay, AnswersThin, AnswerFor

\* The confirmations of the handlers too, when no funded row is written.
LEMMA CallConfirmed ==
    ASSUME SerialInv, OthersStay, UNCHANGED <<jobs, iPos>>,
           \A i \in Invoices : rows[i].status = "funded" => rows'[i] = rows[i],
           \/ UNCHANGED invoiceOut
           \/ \E e \in InvoiceEvents : /\ invoiceOut' = Append(invoiceOut, e)
                                       /\ ~IsFunded(e)
    PROVE  Confirmed'
<1>1. \A k \in 1 .. SentLen' :
        IsFunded(Sent(k)') => FundedBy(Sent(k).invoice, Sent(k).user)'
  BY ConfirmedStays
<1>2. ASSUME NEW j \in jobs, j.step = "produce", Msg(j).type = "BalanceReserved"
      PROVE  FundedBy(Msg(j).invoice, j.investor)'
  <2>1. FundedBy(Msg(j).invoice, j.investor) /\ Msg(j).invoice \in Invoices
    BY <1>2, JobTypes DEF SerialInv, Confirmed
  <2> QED
    BY <1>2, <2>1, CallsAside DEF FundedBy
<1> QED
  BY <1>1, <1>2, CallsAside DEF Confirmed, FundedBy, IsFunded

\* Create works on an invoice that nobody knows yet.
LEMMA CreateSerial ==
    ASSUME SerialInv, OthersStay, NEW i \in Invoices,
           CreateRow(i) \/ CreateReject(i) \/ AnnounceRow(i)
    PROVE  SagaKept
<1> USE DEF CreateRow, CreateReject, AnnounceRow
<1>1. /\ UNCHANGED <<call, jobs, iPos>>
      /\ \A m \in Invoices : m # i => creation'[m] = creation[m]
      /\ creation'[i] # "idle"
      /\ creation[i] # "idle" => UNCHANGED rows
      /\ creation[i] = "idle" =>
           UNCHANGED rows \/ rows' = [rows EXCEPT ![i] = Row("new", NoUser)]
  BY DEF SerialInv, FundingInv, InvoiceTypeOK
<1>2. /\ \A m \in Invoices : m # i => rows'[m] = rows[m]
      /\ rows[i] # NoRow => rows'[i] = rows[i]
      /\ rows'[i] = rows[i] \/ rows'[i] = Row("new", NoUser)
  BY <1>1 DEF SerialInv, Owned, FundingInv, InvoiceTypeOK
<1>3. \/ UNCHANGED invoiceOut
      \/ \E e \in InvoiceEvents : /\ invoiceOut' = Append(invoiceOut, e)
                                  /\ ~IsFunded(e) /\ ~IsFundRequest(e)
  <2>1. /\ InvoiceCreated(i) \in InvoiceEvents
        /\ ~IsFunded(InvoiceCreated(i)) /\ ~IsFundRequest(InvoiceCreated(i))
    BY DEF InvoiceCreated, Event, InvoiceEvents, Statuses, IsFunded, IsFundRequest
  <2> QED
    BY <2>1
<1>4. /\ Handlers'
      /\ \A m \in Invoices : /\ CallsThin(m)
                             /\ RequestsThin(m)
                             /\ AnswersThin(m)
  BY <1>1, <1>3, CallsAside, NothingAsked DEF SerialInv, CallsThin, CallFor
<1>5. OneCall'
  BY <1>1, <1>2 DEF SerialInv, OneCall, InProgress, Row, NoRow, FundingInv,
     InvoiceTypeOK
<1>6. Confirmed'
  BY <1>1, <1>2, <1>3, CallConfirmed DEF NoRow, Row
<1>7. ASSUME NEW m \in Invoices
      PROVE  InOrder(m)'
  <2>1. CASE rows'[m] = rows[m] /\ (creation'[m] = "idle" => creation[m] = "idle")
    BY <1>4, <2>1, LeftAlone
  <2>2. CASE m = i /\ rows[i] = NoRow /\ rows'[i] = Row("new", NoUser)
    <3>1. InOrder(i) /\ rows[i].status = "none" /\ rows'[i].status = "new"
      BY <2>2 DEF SerialInv, InOrder, NoRow, Row
    <3>2. /\ \A c \in Calls : ~CallFor(c, i)'
          /\ \A k \in Nat : ~RequestFor(k, i)' /\ ~AnswerFor(k, i)'
      BY <1>4, <3>1, NobodyActs DEF CallsThin, RequestsThin, AnswersThin
    <3> QED
      BY <1>1, <2>2, <3>1, <3>2, UnchargedFree, Released
  <2> QED
    BY <1>1, <1>2, <2>1, <2>2
<1> QED
  BY <1>4, <1>5, <1>6, <1>7 DEF SagaKept

\* What a step of call c writes to the calls.
LEMMA CallMoved ==
    ASSUME SerialInv, NEW c \in Calls, NEW pc, Goto(c, pc)
    PROVE  \A d \in Calls :
              /\ call'[d].invoice = call[d].invoice
              /\ call'[d].investor = call[d].investor
              /\ call'[d].pc = IF d = c THEN pc ELSE call[d].pc
  BY DEF SerialInv, FundingInv, InvoiceTypeOK, Goto

\* Steps of a call that write nothing and ask for nothing.
LEMMA CallMovesOn ==
    ASSUME NothingRepeated, SerialInv, OthersStay, NEW c \in Calls,
           \/ Turn /\ FundRequest(c)
           \/ FundFind(c)
           \/ FundReject(c) /\ UNCHANGED rows
    PROVE  SagaKept
<1> USE DEF FundRequest, FundFind, FundReject
<1>1. UNCHANGED <<rows, creation, jobs, iPos, invoiceOut>>
  OBVIOUS
<1>2. PICK pc : /\ Goto(c, pc) /\ pc # "produce"
                /\ pc = "update" => rows[call[c].invoice].status = "new"
                /\ pc \in {"find", "update"} => InProgress(c) \/ Turn
  BY DEF InProgress, Fundable
<1>3. \A d \in Calls :
        /\ call'[d].invoice = call[d].invoice
        /\ call'[d].investor = call[d].investor
        /\ call'[d].pc = IF d = c THEN pc ELSE call[d].pc
  BY <1>2, CallMoved
<1>4. \A m \in Invoices : CallsThin(m) /\ RequestsThin(m) /\ AnswersThin(m)
  BY <1>1, <1>2, <1>3, CallsAside, NothingAsked DEF SerialInv, CallsThin, CallFor
<1>5. OneCall'
  <2>1. \A d \in Calls : InProgress(d)' => InProgress(d) \/ (d = c /\ Turn)
    BY <1>2, <1>3 DEF InProgress
  <2>2. Turn => \A d \in Calls : ~InProgress(d)
    BY DEF Turn, NothingRepeated
  <2>3. \A d, f \in Calls : InProgress(d)' /\ InProgress(f)' => d = f
    BY <2>1, <2>2 DEF SerialInv, OneCall
  <2> QED
    BY <1>1, <1>2, <1>3, <2>3 DEF SerialInv, OneCall, InProgress
<1>6. Confirmed' /\ Handlers'
  BY <1>1, CallConfirmed, CallsAside
<1>7. \A m \in Invoices : InOrder(m)'
  BY <1>1, <1>4, LeftAlone
<1> QED
  BY <1>5, <1>6, <1>7 DEF SagaKept

\* The write of pending_fund: nobody acts for a row that is new, and the
\* call that makes it wait acts for it now, unless it rejects.
LEMMA CallWrites ==
    ASSUME SerialInv, OthersStay, NEW c \in Calls, call[c].pc = "update",
           WritePending(c),
           Goto(c, "produce") \/ Goto(c, "failed"),
           UNCHANGED <<creation, jobs, iPos, invoiceOut>>
    PROVE  SagaKept
<1>1. PICK i \in Invoices, u \in Users :
        /\ i = call[c].invoice /\ u = call[c].investor
        /\ rows[i].status = "new"
  BY DEF SerialInv, OneCall, FundingInv, InvoiceTypeOK
<1>2. \A m \in Invoices :
        rows'[m] = IF m = i THEN Row("pending_fund", u) ELSE rows[m]
  BY <1>1 DEF WritePending, SerialInv, FundingInv, InvoiceTypeOK
<1>3. PICK pc \in {"produce", "failed"} :
        \A d \in Calls :
          /\ call'[d].invoice = call[d].invoice
          /\ call'[d].investor = call[d].investor
          /\ call'[d].pc = IF d = c THEN pc ELSE call[d].pc
  <2>1. CASE Goto(c, "produce")
    BY <2>1, CallMoved
  <2>2. CASE Goto(c, "failed")
    BY <2>2, CallMoved
  <2> QED
    BY <2>1, <2>2
<1>4. \A m \in Invoices : RequestsThin(m) /\ AnswersThin(m)
  BY CallsAside, NothingAsked DEF SerialInv
<1>5. OneCall'
  <2>1. \A d \in Calls : InProgress(d)' => InProgress(d)
    BY <1>3 DEF InProgress
  <2>2. \A d \in Calls : InProgress(d)' => d = c
    BY <2>1 DEF SerialInv, OneCall, InProgress
  <2> QED
    BY <1>3, <2>2 DEF OneCall, InProgress
<1>6. Confirmed' /\ Handlers'
  BY <1>1, <1>2, CallConfirmed, CallsAside
<1>7. ASSUME NEW m \in Invoices
      PROVE  InOrder(m)'
  <2>1. CASE m # i
    <3>1. CallsThin(m)
      BY <1>1, <1>3, <2>1 DEF CallsThin, CallFor
    <3> QED
      BY <1>2, <1>4, <2>1, <3>1, LeftAlone
  <2>2. CASE m = i
    <3>1. /\ \A d \in Calls : ~CallFor(d, i)
          /\ \A k \in Nat : ~RequestFor(k, i)' /\ ~AnswerFor(k, i)'
      BY <1>1, <1>4, NobodyActs DEF SerialInv, InOrder, RequestsThin, AnswersThin
    <3>2. \A d \in Calls : CallFor(d, i)' => d = c
      BY <1>3, <3>1 DEF CallFor
    <3>3. \A v \in Users : /\ Charged(v, i)' = 0
                           /\ spent'[v][i] = spent[v][i]
                           /\ spent[v][i] \in Nat /\ held[v][i] \in Nat
                           /\ Charged(v, i) = 0
      BY <1>1, UnchargedFree, OthersFacts, HeldTypes DEF SerialInv, FundingInv
    <3>4. rows'[i].status = "pending_fund" /\ rows'[i].investor = u
      BY <1>2 DEF Row
    <3>5. Owned(i)'
      <4>1. \A v \in Users : spent[v][i] = 0
        BY <3>3 DEF Charged
      <4>2. creation'[i] # "idle"
        BY <1>1 DEF SerialInv, Owned, NoRow, Row
      <4> QED
        BY <3>3, <3>4, <4>1, <4>2 DEF Owned
    <3>6. ASSUME NEW d \in Calls, CallFor(d, i)'
          PROVE  Waits(i, call[d].investor, 0)'
      <4>1. call'[d].investor = u
        BY <1>1, <1>3, <3>2, <3>6
      <4> QED
        BY <3>3, <3>4, <4>1 DEF Waits, Charged
    <3> QED
      BY <2>2, <3>1, <3>5, <3>6 DEF InOrder, Informed, Alone
  <2> QED
    BY <2>1, <2>2
<1> QED
  BY <1>5, <1>6, <1>7 DEF SagaKept

\* The request takes over from the call that sends it.
LEMMA CallAsks ==
    ASSUME SerialInv, OthersStay, NEW c \in Calls, FundProduce(c)
    PROVE  SagaKept
<1> USE DEF FundProduce
<1> DEFINE e == FundRequested(c)
<1>1. UNCHANGED <<rows, creation, jobs, iPos>>
  OBVIOUS
<1>2. PICK i \in Invoices, u \in Users :
        /\ i = call[c].invoice /\ u = call[c].investor
        /\ CallFor(c, i)
  BY DEF CallFor, SerialInv, FundingInv, InvoiceTypeOK
<1>3. /\ e \in InvoiceEvents /\ IsFundRequest(e) /\ ~IsFunded(e)
      /\ e.invoice = i /\ e.user = u
      /\ invoiceOut' = Append(invoiceOut, e)
  BY <1>2 DEF FundRequested, InvoiceUpdated, Event, InvoiceEvents, Statuses,
     IsFundRequest, IsFunded
<1> HIDE DEF e
<1>4. /\ SentLen \in Nat /\ SentLen' = SentLen + 1
      /\ \A k \in 1 .. SentLen + 1 :
            Sent(k)' = IF k = SentLen + 1 THEN e ELSE Sent(k)
  BY <1>3, SentAppended, LogTypes DEF SerialInv, FundingInv, OthersStay
<1>5. \A d \in Calls :
        /\ call'[d].invoice = call[d].invoice
        /\ call'[d].investor = call[d].investor
        /\ call'[d].pc = IF d = c THEN "done" ELSE call[d].pc
  BY CallMoved
<1>6. OneCall'
  BY <1>1, <1>5 DEF SerialInv, OneCall, InProgress
<1>7. Confirmed' /\ Handlers' /\ \A m \in Invoices : AnswersThin(m)
  BY <1>1, <1>3, CallConfirmed, CallsAside
<1>8. \A m \in Invoices : CallsThin(m)
  BY <1>5 DEF CallsThin, CallFor
<1>9. ASSUME NEW m \in Invoices
      PROVE  InOrder(m)'
  <2>1. CASE m # i
    BY <1>1, <1>3, <1>7, <1>8, <2>1, NothingAsked, LeftAlone DEF SerialInv
  <2>2. CASE m = i
    <3>1. InOrder(i)
      BY DEF SerialInv, InOrder
    <3>2. /\ \A d \in Calls : CallFor(d, i) => d = c
          /\ \A k \in Nat : ~RequestFor(k, i) /\ ~AnswerFor(k, i)
      BY <1>2, <3>1 DEF InOrder, Alone, SerialInv, OneCall, CallFor, InProgress
    <3>3. /\ \A d \in Calls : ~CallFor(d, i)'
          /\ \A k \in Nat : ~AnswerFor(k, i)'
      BY <1>5, <1>7, <1>8, <3>2 DEF CallsThin, AnswersThin, CallFor
    <3>4. ASSUME NEW k \in Nat, RequestFor(k, i)'
          PROVE  k = SentLen + 1 /\ Sent(k)' = e
      <4>1. k \in 1 .. SentLen + 1
        BY <1>4, <3>4 DEF RequestFor
      <4>2. CASE k # SentLen + 1
        <5>1. k \in 1 .. SentLen /\ Sent(k)' = Sent(k)
          BY <1>4, <4>1, <4>2
        <5>2. RequestFor(k, i)
          BY <3>4, <5>1, OthersFacts DEF RequestFor, SerialInv
        <5> QED
          BY <3>2, <5>2
      <4> QED
        BY <1>4, <4>1, <4>2
    <3>5. ASSUME NEW k \in Nat, RequestFor(k, i)'
          PROVE  Waits(i, Sent(k).user, Level(k))'
      <4>1. k = SentLen + 1 /\ Sent(k)' = e
        BY <3>4, <3>5
      <4>2. k # uPos
        <5>1. /\ uPos \in 0 .. Len(invoiceTopic)
              /\ Len(invoiceTopic) \in Nat /\ Len(invoiceOut) \in Nat
          BY LogTypes DEF SerialInv, FundingInv
        <5> QED
          BY <4>1, <5>1 DEF SentLen
      <4>3. Level(k)' = 0
        BY <4>2, OthersFacts DEF Level, SerialInv
      <4>4. Waits(i, u, 0)
        BY <1>2, <3>1 DEF InOrder, Informed
      <4>5. Charged(u, i)' = 0
        BY <4>4, OthersFacts DEF Waits, SerialInv
      <4> QED
        BY <1>1, <1>3, <4>1, <4>3, <4>4, <4>5 DEF Waits, Charged
    <3>6. Owned(i)'
      BY <1>1, <3>1, OthersFacts DEF InOrder, Owned, SerialInv
    <3>7. \A k, l \in Nat : RequestFor(k, i)' /\ RequestFor(l, i)' => k = l
      BY <3>4
    <3> QED
      BY <2>2, <3>3, <3>5, <3>6, <3>7 DEF InOrder, Informed, Alone
  <2> QED
    BY <2>1, <2>2
<1> QED
  BY <1>6, <1>7, <1>9 DEF SagaKept

----------------------------------------------------------------------------
(* The handlers.                                                            *)

\* The message of a handler that has not written its row acts for it.
LEMMA HandlerActs ==
    ASSUME SerialInv, NEW j \in jobs, Undecided(j)
    PROVE  /\ AnswerFor(j.offset, Msg(j).invoice)
           /\ Said(j.offset) = Msg(j)
           /\ j.offset \in Nat
           /\ Waits(Msg(j).invoice, Msg(j).user, Answered(j.offset))
<1>1. /\ j.offset \in 1 .. Len(userTopic)
      /\ Len(userTopic) \in Nat /\ Len(userOut) \in Nat
      /\ Msg(j).invoice \in Invoices
  BY JobTypes, LogTypes DEF SerialInv, FundingInv
<1>2. Said(j.offset) = Msg(j) /\ j.offset \in 1 .. SaidLen /\ j.offset \in Nat
  BY <1>1 DEF Said, SaidLen, Msg
<1>3. AnswerFor(j.offset, Msg(j).invoice)
  BY <1>2 DEF AnswerFor, SerialInv, Handlers, Undecided
<1> QED
  BY <1>1, <1>2, <1>3 DEF SerialInv, Informed

\* What a handler's step does to the answers when it moves on or ends.
LEMMA HandlersThin ==
    ASSUME SerialInv, OthersStay, UNCHANGED iPos,
           NEW j \in jobs, NEW next,
           \/ jobs' = jobs \ {j}
           \/ /\ Step(j, next)
              /\ next.offset = j.offset
              /\ Undecided(next) => Undecided(j)
    PROVE  /\ \A i \in Invoices : AnswersThin(i)
           /\ ~Undecided(next) \/ jobs' = jobs \ {j}
                => \A i \in Invoices : ~AnswerFor(j.offset, i)'
<1>1. SaidLen' = SaidLen /\ \A k \in Nat : Said(k)' = Said(k)
  BY OthersFacts DEF SerialInv
<1>2. \A m \in jobs' : \/ m \in jobs /\ m # j
                       \/ m = next /\ Step(j, next)
  BY DEF Step
<1>3. \A m \in jobs' : Undecided(m) =>
        \E n \in jobs : n.offset = m.offset /\ Undecided(n)
  BY <1>2 DEF Step
<1>4. \A i \in Invoices : AnswersThin(i)
  BY <1>1, <1>3 DEF AnswersThin, AnswerFor, Undecided
<1>5. ASSUME ~Undecided(next) \/ jobs' = jobs \ {j}, NEW i \in Invoices
      PROVE  ~AnswerFor(j.offset, i)'
  <2>1. j.offset <= iPos
    BY DEF SerialInv, Handlers
  <2>2. \A m \in jobs' : m.offset = j.offset => ~Undecided(m)
    BY <1>2, <1>5 DEF SerialInv, Handlers, Step
  <2>3. j.offset \in Nat /\ iPos \in Nat
    BY JobTypes, LogTypes DEF SerialInv, FundingInv, InvoiceTypeOK
  <2> QED
    BY <2>1, <2>2, <2>3 DEF AnswerFor, Undecided
<1> QED
  BY <1>4, <1>5

\* The handlers stay distinct, and know the investor of their message.
LEMMA HandlersStay ==
    ASSUME SerialInv, OthersStay, UNCHANGED iPos,
           NEW j \in jobs, NEW next,
           \/ jobs' = jobs \ {j}
           \/ /\ Step(j, next)
              /\ next.offset = j.offset
              /\ next.step # "commit" => j.step # "commit"
              /\ next.step \in {"update", "produce"} => next.investor = Msg(j).user
    PROVE  Handlers'
<1>1. \A m \in jobs' : \/ m \in jobs /\ m # j
                       \/ m = next /\ Step(j, next)
  BY DEF Step
<1>2. \A m : m.offset = j.offset => Msg(m) = Msg(j)
  BY DEF Msg
<1>3. userTopic' = userTopic
  BY DEF OthersStay
<1>4. \A m, n \in jobs' : m.offset = n.offset => m = n
  BY <1>1 DEF SerialInv, Handlers
<1>5. ASSUME NEW m \in jobs'
      PROVE  /\ m.offset <= iPos
             /\ m.step # "commit" => Msg(m).type # "UserUpdated"
             /\ m.step \in {"update", "produce"} => m.investor = Msg(m).user
  BY <1>1, <1>2, <1>5 DEF SerialInv, Handlers
<1> QED
  BY <1>3, <1>4, <1>5 DEF Handlers, Msg

\* A handler is started for a message that acts already.
LEMMA StartSerial ==
    ASSUME SerialInv, OthersStay, StartJob
    PROVE  SagaKept
<1> USE DEF StartJob
<1>1. /\ UNCHANGED <<rows, creation, call, invoiceOut>>
      /\ iPos \in Nat /\ iPos' = iPos + 1
  BY LogTypes DEF SerialInv, FundingInv, InvoiceTypeOK
<1>2. PICK step \in {"commit", "find"} :
        /\ jobs' = jobs \cup {Job(iPos + 1, step, NoUser)}
        /\ step = "find" => userTopic[iPos + 1].type # "UserUpdated"
  OBVIOUS
<1>3. PICK new : /\ jobs' = jobs \cup {new}
                 /\ new.offset = iPos + 1
                 /\ new.step = step
  <2> DEFINE n == Job(iPos + 1, step, NoUser)
  <2>1. n.offset = iPos + 1 /\ n.step = step
    BY DEF Job
  <2>2. jobs' = jobs \cup {n}
    BY <1>2
  <2> HIDE DEF n
  <2> QED
    BY <2>1, <2>2
<1>4. \A j \in jobs : j.offset <= iPos /\ j.offset \in Nat
  BY JobTypes DEF SerialInv, FundingInv, Handlers
<1>5. Handlers'
  <2>1. \A j, m \in jobs' : j.offset = m.offset => j = m
    BY <1>1, <1>3, <1>4 DEF SerialInv, Handlers
  <2>2. \A j \in jobs' : j.offset <= iPos'
    BY <1>1, <1>3, <1>4
  <2>3. ASSUME NEW j \in jobs'
        PROVE  /\ j.step # "commit" => Msg(j)'.type # "UserUpdated"
               /\ j.step \in {"update", "produce"} => j.investor = Msg(j)'.user
    BY <1>2, <1>3, <2>3 DEF SerialInv, Handlers, Msg, OthersStay
  <2> QED
    BY <2>1, <2>2, <2>3 DEF Handlers, Msg
<1>6. OneCall'
  BY <1>1 DEF SerialInv, OneCall, InProgress
<1>7. Confirmed'
  <2>1. \A k \in 1 .. SentLen' :
          IsFunded(Sent(k)') => FundedBy(Sent(k).invoice, Sent(k).user)'
    BY <1>1, ConfirmedStays
  <2>2. \A j \in jobs' : j.step = "produce" => j \in jobs
    BY <1>2, <1>3
  <2>3. ASSUME NEW j \in jobs', j.step = "produce",
               Msg(j)'.type = "BalanceReserved"
        PROVE  FundedBy(Msg(j).invoice, j.investor)'
    BY <1>1, <2>2, <2>3 DEF SerialInv, Confirmed, FundedBy, Msg, OthersStay
  <2> QED
    BY <2>1, <2>3 DEF Confirmed, FundedBy, IsFunded, Msg
<1>8. ASSUME NEW i \in Invoices
      PROVE  InOrder(i)'
  <2>1. AnswersThin(i)
    <3>1. ASSUME NEW k \in Nat, AnswerFor(k, i)'
          PROVE  k > iPos \/ (\E j \in jobs : j.offset = k /\ Undecided(j))
      BY <1>1, <1>3, <3>1 DEF AnswerFor
    <3> QED
      BY <3>1, OthersFacts DEF AnswersThin, AnswerFor, SerialInv
  <2>2. CallsThin(i) /\ RequestsThin(i)
    BY <1>1, NothingAsked DEF SerialInv, CallsThin, CallFor
  <2> QED
    BY <1>1, <2>1, <2>2, LeftAlone
<1> QED
  BY <1>5, <1>6, <1>7, <1>8 DEF SagaKept

\* The row is found to wait, for the user the message is about.
LEMMA FindSerial ==
    ASSUME SerialInv, OthersStay, NEW j \in jobs, JobFind(j)
    PROVE  SagaKept
<1> USE DEF JobFind
<1>1. UNCHANGED <<rows, creation, call, iPos, invoiceOut>> /\ j.step = "find"
  OBVIOUS
<1>2. Waits(Msg(j).invoice, Msg(j).user, Answered(j.offset))
  BY <1>1, HandlerActs DEF Undecided
<1>3. PICK next : /\ Step(j, next)
                  /\ next = Job(j.offset, "update", Msg(j).user)
  BY <1>2 DEF Waits
<1>4. /\ next.offset = j.offset
      /\ next.step = "update" /\ next.investor = Msg(j).user
      /\ Undecided(next) /\ Undecided(j)
  BY <1>1, <1>3 DEF Job, Undecided
<1>5. Handlers'
  BY <1>1, <1>3, <1>4, HandlersStay
<1>6. \A i \in Invoices : AnswersThin(i)
  BY <1>1, <1>3, <1>4, HandlersThin
<1>7. OneCall'
  BY <1>1 DEF SerialInv, OneCall, InProgress
<1>8. Confirmed'
  <2>1. \A k \in 1 .. SentLen' :
          IsFunded(Sent(k)') => FundedBy(Sent(k).invoice, Sent(k).user)'
    BY <1>1, ConfirmedStays
  <2>2. \A m \in jobs' : m.step = "produce" => m \in jobs
    BY <1>3, <1>4 DEF Step
  <2>3. ASSUME NEW m \in jobs', m.step = "produce",
               Msg(m)'.type = "BalanceReserved"
        PROVE  FundedBy(Msg(m).invoice, m.investor)'
    BY <1>1, <2>2, <2>3 DEF SerialInv, Confirmed, FundedBy, Msg, OthersStay
  <2> QED
    BY <2>1, <2>3 DEF Confirmed, FundedBy, IsFunded, Msg
<1>9. ASSUME NEW i \in Invoices
      PROVE  InOrder(i)'
  <2>1. CallsThin(i) /\ RequestsThin(i)
    BY <1>1, NothingAsked DEF SerialInv, CallsThin, CallFor
  <2> QED
    BY <1>1, <1>6, <2>1, LeftAlone
<1> QED
  BY <1>5, <1>7, <1>8, <1>9 DEF SagaKept

\* The write that decides: the row becomes funded when its investor is
\* charged, and new when he is not; nobody acts for it any more.
LEMMA OutcomeSerial ==
    ASSUME SerialInv, OthersStay, NEW j \in jobs, j.step = "update",
           WriteOutcome(j), UNCHANGED <<creation, call, iPos, invoiceOut>>,
           \/ jobs' = jobs \ {j}
           \/ Step(j, [j EXCEPT !.step = "produce"])
    PROVE  SagaKept
<1>1. PICK i \in Invoices, u \in Users :
        /\ i = Msg(j).invoice /\ u = Msg(j).user /\ u = j.investor
        /\ AnswerFor(j.offset, i)
        /\ Said(j.offset) = Msg(j)
        /\ Waits(i, u, Answered(j.offset))
        /\ j.offset \in Nat
  BY HandlerActs, JobTypes DEF Undecided, SerialInv, Handlers
<1>2. PICK next : /\ next = [j EXCEPT !.step = "produce"]
                  /\ jobs' = jobs \ {j} \/ Step(j, next)
  OBVIOUS
<1>3. /\ next.offset = j.offset /\ next.step = "produce"
      /\ next.investor = u /\ ~Undecided(next)
      /\ j.step # "commit"
  <2>1. next = Job(j.offset, "produce", j.investor)
    BY <1>2, JobTypes DEF Job, SerialInv
  <2> QED
    BY <1>1, <2>1 DEF Job, Undecided
<1>4. Handlers'
  BY <1>1, <1>2, <1>3, HandlersStay
<1>5. /\ \A m \in Invoices : AnswersThin(m)
      /\ ~AnswerFor(j.offset, i)'
  BY <1>2, <1>3, HandlersThin
<1>6. \A m \in Invoices : RequestsThin(m) /\ CallsThin(m)
  BY NothingAsked DEF SerialInv, CallsThin, CallFor
<1>7. PICK row : /\ row = Written(j, rows[i])
                 /\ \A m \in Invoices : rows'[m] = IF m = i THEN row ELSE rows[m]
  BY <1>1 DEF WriteOutcome, SerialInv, FundingInv, InvoiceTypeOK
<1>8. /\ rows[i].status = "pending_fund" /\ rows[i].investor = u
      /\ Msg(j).type = "BalanceReserved" =>
           Charged(u, i) = 1 /\ row.status = "funded" /\ row.investor = u
      /\ Msg(j).type # "BalanceReserved" =>
           Charged(u, i) = 0 /\ row.status = "new"
  <2>1. rows[i].status = "pending_fund" /\ rows[i].investor = u
        /\ Charged(u, i) = Answered(j.offset)
    BY <1>1 DEF Waits
  <2>2. rows[i] \in [status : Statuses \cup {"none"}, investor : Users \cup {NoUser}]
    BY DEF SerialInv, FundingInv, InvoiceTypeOK
  <2> QED
    BY <1>1, <1>7, <2>1, <2>2 DEF Answered, Written, Row
<1>9. OneCall'
  BY <1>7, <1>8 DEF SerialInv, OneCall, InProgress, FundingInv, InvoiceTypeOK
<1>10. Confirmed'
  <2>1. \A m \in Invoices : rows[m].status = "funded" => rows'[m] = rows[m]
    BY <1>7, <1>8
  <2>2. \A k \in 1 .. SentLen' :
          IsFunded(Sent(k)') => FundedBy(Sent(k).invoice, Sent(k).user)'
    BY <2>1, ConfirmedStays
  <2>3. ASSUME NEW m \in jobs', m.step = "produce",
               Msg(m)'.type = "BalanceReserved"
        PROVE  FundedBy(Msg(m).invoice, m.investor)'
    <3>1. Msg(m)' = Msg(m)
      BY DEF Msg, OthersStay
    <3>2. CASE m \in jobs
      <4>1. FundedBy(Msg(m).invoice, m.investor) /\ Msg(m).invoice \in Invoices
        BY <2>3, <3>1, <3>2, JobTypes DEF SerialInv, Confirmed
      <4> QED
        BY <2>1, <3>1, <4>1 DEF FundedBy
    <3>3. CASE m = next
      <4>1. Msg(m) = Msg(j)
        BY <1>3, <3>3 DEF Msg
      <4> QED
        BY <1>1, <1>3, <1>7, <1>8, <2>3, <3>1, <3>3, <4>1 DEF FundedBy
    <3> QED
      BY <1>2, <2>3, <3>2, <3>3 DEF Step
  <2> QED
    BY <2>2, <2>3 DEF Confirmed, FundedBy, IsFunded, Msg
<1>11. ASSUME NEW m \in Invoices
       PROVE  InOrder(m)'
  <2>1. CASE m # i
    BY <1>5, <1>6, <1>7, <2>1, LeftAlone
  <2>2. CASE m = i
    <3>1. InOrder(i)
      BY DEF SerialInv, InOrder
    <3>2. /\ \A c \in Calls : ~CallFor(c, i)'
          /\ \A k \in Nat : ~RequestFor(k, i)' /\ ~AnswerFor(k, i)'
      BY <1>1, <1>5, <1>6, <3>1
         DEF InOrder, Alone, CallsThin, RequestsThin, AnswersThin
    <3>3. creation'[i] # "idle"
      BY <1>8, <3>1 DEF InOrder, Owned, NoRow, Row
    <3>4. CASE Msg(j).type = "BalanceReserved"
      BY <1>7, <1>8, <2>2, <3>2, <3>3, <3>4, Released
    <3>5. CASE Msg(j).type # "BalanceReserved"
      <4>1. \A v \in Users : Charged(v, i) = 0
        <5>1. ASSUME NEW v \in Users
              PROVE  Charged(v, i) = 0
          <6>1. Charged(v, i) \in Nat
            BY HeldTypes DEF SerialInv, FundingInv, Charged
          <6> QED
            BY <1>8, <3>1, <3>5, <6>1 DEF InOrder, Owned
        <5> QED
          BY <5>1
      <4> QED
        BY <1>7, <1>8, <2>2, <3>2, <3>3, <3>5, <4>1, Released
    <3> QED
      BY <3>4, <3>5
  <2> QED
    BY <2>1, <2>2
<1> QED
  BY <1>4, <1>9, <1>10, <1>11 DEF SagaKept

\* A handler announces what it has written, or ends.
LEMMA HandlerEnds ==
    ASSUME SerialInv, OthersStay, NEW j \in jobs,
           \/ JobProduce(j) \/ JobNotFound(j) \/ JobCommit(j)
           \/ JobReject(j) /\ UNCHANGED rows
    PROVE  SagaKept
<1> USE DEF JobProduce, JobNotFound, JobCommit, JobReject
<1>1. UNCHANGED <<rows, creation, call, iPos>>
  OBVIOUS
<1>2. PICK next : /\ next = [j EXCEPT !.step = "commit"]
                  /\ jobs' = jobs \ {j} \/ Step(j, next)
  OBVIOUS
<1>3. next.offset = j.offset /\ next.step = "commit" /\ ~Undecided(next)
  <2>1. next = Job(j.offset, "commit", j.investor)
    BY <1>2, JobTypes DEF Job, SerialInv
  <2> QED
    BY <2>1 DEF Job, Undecided
<1>4. Handlers'
  BY <1>1, <1>2, <1>3, HandlersStay
<1>5. \A i \in Invoices : AnswersThin(i)
  BY <1>1, <1>2, <1>3, HandlersThin
<1>6. \/ UNCHANGED invoiceOut
      \/ \E e \in InvoiceEvents :
           /\ invoiceOut' = Append(invoiceOut, e)
           /\ ~IsFundRequest(e)
           /\ IsFunded(e) => FundedBy(e.invoice, e.user)
  <2>1. CASE JobCommit(j) \/ JobReject(j)
    BY <2>1
  <2>2. CASE JobNotFound(j)
    <3>1. /\ ReservationNotFound(Msg(j).invoice, Msg(j).user) \in InvoiceEvents
          /\ ~IsFundRequest(ReservationNotFound(Msg(j).invoice, Msg(j).user))
          /\ ~IsFunded(ReservationNotFound(Msg(j).invoice, Msg(j).user))
      BY JobTypes DEF ReservationNotFound, Event, InvoiceEvents, IsFundRequest,
         IsFunded, SerialInv
    <3> QED
      BY <2>2, <3>1
  <2>3. CASE JobProduce(j)
    <3>1. j.investor \in Users /\ Msg(j).invoice \in Invoices
      BY <2>3, JobTypes DEF SerialInv, FundingInv, JobsAddressed
    <3>2. CASE Msg(j).type = "BalanceReserved"
      <4> DEFINE e == InvoiceUpdated(Msg(j).invoice, j.investor, "funded")
      <4>1. /\ e \in InvoiceEvents /\ ~IsFundRequest(e)
            /\ e.invoice = Msg(j).invoice /\ e.user = j.investor
        BY <3>1 DEF InvoiceUpdated, Event, InvoiceEvents, Statuses, IsFundRequest
      <4>2. invoiceOut' = Append(invoiceOut, e)
        BY <2>3, <3>2 DEF Outcome, Row
      <4>3. FundedBy(Msg(j).invoice, j.investor)
        BY <2>3, <3>2 DEF SerialInv, Confirmed
      <4> HIDE DEF e
      <4> QED
        BY <4>1, <4>2, <4>3
    <3>3. CASE Msg(j).type # "BalanceReserved"
      <4> DEFINE e == InvoiceUpdated(Msg(j).invoice, NoUser, "new")
      <4>1. e \in InvoiceEvents /\ ~IsFundRequest(e) /\ ~IsFunded(e)
        BY <3>1 DEF InvoiceUpdated, Event, InvoiceEvents, Statuses, IsFundRequest,
           IsFunded
      <4>2. invoiceOut' = Append(invoiceOut, e)
        BY <2>3, <3>3 DEF Outcome, Row
      <4> HIDE DEF e
      <4> QED
        BY <4>1, <4>2
    <3> QED
      BY <3>2, <3>3
  <2> QED
    BY <2>1, <2>2, <2>3
<1>7. OneCall'
  BY <1>1 DEF SerialInv, OneCall, InProgress
<1>8. Confirmed'
  <2>1. \A k \in 1 .. SentLen' :
          IsFunded(Sent(k)') => FundedBy(Sent(k).invoice, Sent(k).user)'
    BY <1>1, <1>6, ConfirmedStays
  <2>2. \A m \in jobs' : m.step = "produce" => m \in jobs
    BY <1>2, <1>3 DEF Step
  <2>3. ASSUME NEW m \in jobs', m.step = "produce",
               Msg(m)'.type = "BalanceReserved"
        PROVE  FundedBy(Msg(m).invoice, m.investor)'
    BY <1>1, <2>2, <2>3 DEF SerialInv, Confirmed, FundedBy, Msg, OthersStay
  <2> QED
    BY <2>1, <2>3 DEF Confirmed, FundedBy, IsFunded, Msg
<1>9. ASSUME NEW i \in Invoices
      PROVE  InOrder(i)'
  <2>1. CallsThin(i) /\ RequestsThin(i)
    BY <1>1, <1>6, NothingAsked DEF SerialInv, CallsThin, CallFor
  <2> QED
    BY <1>1, <1>5, <2>1, LeftAlone
<1> QED
  BY <1>4, <1>7, <1>8, <1>9 DEF SagaKept

\* Every step of the invoices service keeps the saga in order.
LEMMA InvoiceMovesSerial ==
    ASSUME NothingRepeated, SerialInv, InvoiceMoves
    PROVE  SerialInv'
<1>1. OthersStay /\ ~InvoiceCrash
  BY NeverRepeated DEF InvoiceMoves, OthersStay, InvoiceCrash, SerialInv
<1>2. FundingInv' /\ Dispatched' /\ PaidOnce'
  BY <1>1, UserSide, NextFunding DEF SerialInv, Next
<1>3. ASSUME NEW c \in Calls, (Turn /\ FundRequest(c)) \/ FundStep(c) \/ FundReject(c)
      PROVE  SagaKept
  <2>1. CASE FundUpdate(c) \/ (FundReject(c) /\ rows' # rows)
    <3>1. /\ WritePending(c) /\ call[c].pc = "update"
          /\ Goto(c, "produce") \/ Goto(c, "failed")
          /\ UNCHANGED <<creation, jobs, iPos, invoiceOut>>
      BY <2>1 DEF FundUpdate, FundReject
    <3> QED
      BY <1>1, <3>1, CallWrites
  <2>2. CASE FundReject(c) /\ rows' = rows
    BY <1>1, <2>2, CallMovesOn
  <2>3. CASE (Turn /\ FundRequest(c)) \/ FundFind(c)
    BY <1>1, <2>3, CallMovesOn
  <2>4. CASE FundProduce(c)
    BY <1>1, <2>4, CallAsks
  <2> QED
    BY <1>3, <2>1, <2>2, <2>3, <2>4 DEF FundStep
<1>4. ASSUME NEW j \in jobs, JobStep(j) \/ JobReject(j)
      PROVE  SagaKept
  <2>1. CASE JobUpdate(j) \/ (JobReject(j) /\ rows' # rows)
    <3>1. /\ WriteOutcome(j) /\ j.step = "update"
          /\ UNCHANGED <<creation, call, iPos, invoiceOut>>
          /\ \/ jobs' = jobs \ {j}
             \/ Step(j, [j EXCEPT !.step = "produce"])
      BY <2>1 DEF JobUpdate, JobReject
    <3> QED
      BY <1>1, <3>1, OutcomeSerial
  <2>2. CASE JobReject(j) /\ rows' = rows
    BY <1>1, <2>2, HandlerEnds
  <2>3. CASE JobFind(j)
    BY <1>1, <2>3, FindSerial
  <2>4. CASE JobProduce(j) \/ JobNotFound(j) \/ JobCommit(j)
    BY <1>1, <2>4, HandlerEnds
  <2> QED
    BY <1>4, <2>1, <2>2, <2>3, <2>4 DEF JobStep
<1>5. SagaKept
  BY <1>1, <1>3, <1>4, CreateSerial, StartSerial
     DEF InvoiceMoves, InvoiceNext, InvoiceWork
<1> QED
  BY <1>2, <1>5 DEF SerialInv, SagaKept, InOrder

----------------------------------------------------------------------------
(* The broker.                                                              *)

\* A message that is delivered keeps its place, and one that is lost only
\* makes room.
LEMMA BrokerMovesSerial ==
    ASSUME NothingRepeated, SerialInv, BrokerMoves
    PROVE  SerialInv'
<1>1. /\ UNCHANGED <<rows, creation, call, jobs, iPos>>
      /\ UNCHANGED <<held, spent, uPc, uPos, uReply, uTx>>
  BY DEF BrokerMoves, invoiceState, userState, store, progress
<1>2. \/ /\ DeliverInvoice \/ DropInvoice
         /\ UNCHANGED <<userTopic, userOut>>
      \/ /\ DeliverUser \/ DropUser
         /\ UNCHANGED <<invoiceTopic, invoiceOut>>
  BY NeverRepeated DEF BrokerMoves, BrokerNext, SerialInv, DeliverInvoice,
     DropInvoice, DeliverUser, DropUser, ResendInvoice, ResendUser
<1>3. /\ uPos \in 0 .. Len(invoiceTopic) /\ iPos \in 0 .. Len(userTopic)
      /\ Len(invoiceTopic) \in Nat /\ Len(userTopic) \in Nat
      /\ SentLen \in Nat /\ SaidLen \in Nat
      /\ \A j \in jobs : j.offset \in 1 .. Len(userTopic)
  BY LogTypes, JobTypes DEF SerialInv, FundingInv, InvoiceTypeOK
<1>a. PICK n \in Nat : n = Len(invoiceTopic) /\ uPos \in 0 .. n
  BY <1>3
<1>b. PICK m \in Nat : /\ m = Len(userTopic) /\ iPos \in 0 .. m
                       /\ \A j \in jobs : j.offset \in 1 .. m
  BY <1>3
<1>4. PICK f \in [Nat -> Nat] :
        /\ \A k, l \in Nat : f[k] = f[l] => k = l
        /\ \A k \in Nat : f[k] >= k /\ (k <= n => f[k] = k)
        /\ \A k \in 1 .. SentLen' : f[k] \in 1 .. SentLen /\ Sent(k)' = Sent(f[k])
  <2>1. CASE DropInvoice
    <3>1. \A k \in 1 .. SentLen' : /\ Shift(n)[k] \in 1 .. SentLen
                                   /\ Sent(k)' = Sent(Shift(n)[k])
      BY <1>a, <2>1, SentDropped DEF SerialInv, FundingInv
    <3> QED
      BY <3>1, ShiftInjective
  <2>2. CASE ~DropInvoice
    <3>1. SentLen' = SentLen /\ \A k \in 1 .. SentLen : Sent(k)' = Sent(k)
      BY <1>2, <2>2, SentDelivered DEF SerialInv, FundingInv, SentLen, Sent
    <3> QED
      BY <3>1, SameInjective
  <2> QED
    BY <2>1, <2>2
<1>5. PICK g \in [Nat -> Nat] :
        /\ \A k, l \in Nat : g[k] = g[l] => k = l
        /\ \A k \in Nat : g[k] >= k /\ (k <= m => g[k] = k)
        /\ \A k \in 1 .. SaidLen' : g[k] \in 1 .. SaidLen /\ Said(k)' = Said(g[k])
  <2>1. CASE DropUser
    <3>1. \A k \in 1 .. SaidLen' : /\ Shift(m)[k] \in 1 .. SaidLen
                                   /\ Said(k)' = Said(Shift(m)[k])
      BY <1>b, <2>1, SaidDropped DEF SerialInv, FundingInv
    <3> QED
      BY <3>1, ShiftInjective
  <2>2. CASE ~DropUser
    <3>1. SaidLen' = SaidLen /\ \A k \in 1 .. SaidLen : Said(k)' = Said(k)
      BY <1>2, <2>2, SaidDelivered DEF SerialInv, FundingInv, SaidLen, Said
    <3> QED
      BY <3>1, SameInjective
  <2> QED
    BY <2>1, <2>2
<1>6. /\ \A k \in 1 .. Len(invoiceTopic) : invoiceTopic'[k] = invoiceTopic[k]
      /\ \A k \in 1 .. Len(userTopic) : userTopic'[k] = userTopic[k]
  BY <1>2, SentDelivered, SaidDelivered
     DEF SerialInv, FundingInv, DropInvoice, DropUser
<1>7. FundingInv'
  BY NextFunding DEF SerialInv, Next
<1>8. Dispatched'
  BY <1>1, <1>6, DispatchedStays DEF SerialInv, FundingInv
<1>9. PaidOnce'
  <2>1. uPc # "poll" => Current' = Current
    BY <1>1, <1>6, InHandFacts DEF SerialInv, Current
  <2> QED
    BY <1>1, <2>1 DEF SerialInv, PaidOnce, Serving, Paid, Charged
<1>10. \A j \in jobs : Msg(j)' = Msg(j)
  BY <1>1, <1>3, <1>6 DEF Msg
<1>11. Handlers' /\ OneCall'
  BY <1>1, <1>10 DEF SerialInv, Handlers, OneCall, InProgress
<1>12. Confirmed'
  <2>1. ASSUME NEW k \in 1 .. SentLen', IsFunded(Sent(k)')
        PROVE  FundedBy(Sent(k).invoice, Sent(k).user)'
    <3>1. f[k] \in 1 .. SentLen /\ Sent(k)' = Sent(f[k])
      BY <1>4
    <3>2. FundedBy(Sent(f[k]).invoice, Sent(f[k]).user)
      BY <2>1, <3>1 DEF SerialInv, Confirmed
    <3> QED
      BY <1>1, <3>1, <3>2 DEF FundedBy
  <2>2. ASSUME NEW j \in jobs, j.step = "produce", Msg(j)'.type = "BalanceReserved"
        PROVE  FundedBy(Msg(j).invoice, j.investor)'
    <3>1. Msg(j)' = Msg(j)
      BY <1>10
    <3>2. FundedBy(Msg(j).invoice, j.investor)
      BY <2>2, <3>1 DEF SerialInv, Confirmed
    <3> QED
      BY <1>1, <3>1, <3>2 DEF FundedBy
  <2> QED
    BY <1>1, <2>1, <2>2 DEF Confirmed, FundedBy, IsFunded
<1>13. ASSUME NEW i \in Invoices
       PROVE  InOrder(i)'
  <2>1. InOrder(i) /\ Quiet(i) /\ CallsThin(i)
    BY <1>1 DEF SerialInv, InOrder, Quiet, Charged, CallsThin, CallFor
  <2>2. ASSUME NEW k \in Nat, RequestFor(k, i)'
        PROVE  /\ RequestFor(f[k], i)
               /\ Sent(k)'.user = Sent(f[k]).user
               /\ Level(k)' = Level(f[k])
    <3>1. /\ f[k] \in 1 .. SentLen /\ Sent(k)' = Sent(f[k])
          /\ f[k] >= k /\ f[k] \in Nat
      BY <1>4, <2>2 DEF RequestFor
    <3>0. k = uPos <=> f[k] = uPos
      <4>1. uPos \in Nat /\ uPos <= n /\ f[uPos] = uPos
        BY <1>a, <1>4
      <4> QED
        BY <1>4, <4>1
    <3>2. f[k] > uPos \/ (f[k] = uPos /\ uPc \notin {"poll", "mark"})
      <4>1. k > uPos \/ (k = uPos /\ uPc \notin {"poll", "mark"})
        BY <1>1, <2>2 DEF RequestFor
      <4>2. uPos \in Nat
        BY <1>3
      <4> QED
        BY <3>0, <3>1, <4>1, <4>2
    <3>3. Level(k)' = Level(f[k])
      BY <1>1, <3>0 DEF Level, Paid
    <3> QED
      BY <2>2, <3>1, <3>2, <3>3 DEF RequestFor
  <2>3. ASSUME NEW k \in Nat, AnswerFor(k, i)'
        PROVE  AnswerFor(g[k], i) /\ Said(k)' = Said(g[k])
    <3>1. /\ g[k] \in 1 .. SaidLen /\ Said(k)' = Said(g[k])
          /\ g[k] >= k /\ (k <= m => g[k] = k) /\ g[k] \in Nat
      BY <1>5, <2>3 DEF AnswerFor
    <3>2. g[k] > iPos \/ (\E j \in jobs : j.offset = g[k] /\ Undecided(j))
      <4>1. k > iPos \/ (\E j \in jobs : j.offset = k /\ Undecided(j))
        BY <1>1, <2>3 DEF AnswerFor, Undecided
      <4>2. iPos \in Nat
        BY <1>b
      <4>3. ASSUME NEW j \in jobs, j.offset = k
            PROVE  g[k] = k
        <5>1. k \in 1 .. m
          BY <1>b, <4>3
        <5> QED
          BY <3>1, <5>1
      <4> QED
        BY <3>1, <4>1, <4>2, <4>3
    <3> QED
      BY <2>3, <3>1, <3>2 DEF AnswerFor
  <2> QED
    BY <1>4, <1>5, <2>1, <2>2, <2>3, Carried, ActorTypes DEF SerialInv
<1> QED
  BY <1>7, <1>8, <1>9, <1>11, <1>12, <1>13 DEF SerialInv, InOrder
----------------------------------------------------------------------------
(* The invariant, and what follows from it.                                 *)

\* At the start nothing is charged, written or said.
LEMMA InitSerial == Init => SerialInv
<1> SUFFICES ASSUME Init PROVE SerialInv
  OBVIOUS
<1> USE DEF Init, BrokerInit, ConsumerInit, InvoiceInit
<1>1. FundingInv
  BY InitFunding
<1>2. Dispatched /\ PaidOnce
  BY DEF Dispatched, HoldSteps, PaidOnce, Serving
<1>3. SentLen = 0 /\ SaidLen = 0
  BY DEF SentLen, SaidLen
<1>4. Handlers /\ OneCall /\ Confirmed
  BY <1>3 DEF Handlers, OneCall, InProgress, Confirmed
<1>5. ASSUME NEW i \in Invoices
      PROVE  Owned(i) /\ Informed(i) /\ Alone(i)
  <2>1. Owned(i)
    BY DEF Owned, Charged, NoRow, Row
  <2>2. /\ \A c \in Calls : ~CallFor(c, i)
        /\ \A k \in Nat : ~RequestFor(k, i) /\ ~AnswerFor(k, i)
    BY <1>3 DEF CallFor, RequestFor, AnswerFor
  <2> QED
    BY <2>1, <2>2, NobodyNeeded DEF InOrder
<1> QED
  BY <1>1, <1>2, <1>4, <1>5 DEF SerialInv

\* Every step of the system keeps the saga in order.
LEMMA NextSerial ==
    ASSUME NothingRepeated
    PROVE  SerialInv /\ [Next]_vars => SerialInv'
<1> SUFFICES ASSUME SerialInv, [Next]_vars PROVE SerialInv'
  OBVIOUS
<1>1. CASE UNCHANGED vars
  <2> USE <1>1 DEF vars, brokerVars, userVars, invoiceVars
  <2>1. FundingInv'
    BY NextFunding DEF SerialInv
  <2>2. Dispatched' /\ PaidOnce'
    BY UserSide DEF OthersStay
  <2>3. Handlers' /\ OneCall'
    BY DEF SerialInv, Handlers, OneCall, InProgress, Msg
  <2>4. Confirmed'
    BY DEF SerialInv, Confirmed, FundedBy, Sent, SentLen, Msg
  <2>5. ASSUME NEW i \in Invoices
        PROVE  InOrder(i)'
    <3>1. CallsThin(i) /\ RequestsThin(i) /\ AnswersThin(i)
      BY DEF CallsThin, CallFor, RequestsThin, RequestFor, Sent, SentLen,
         AnswersThin, AnswerFor, Said, SaidLen
    <3> QED
      BY <3>1, LeftAlone DEF OthersStay
  <2> QED
    BY <2>1, <2>2, <2>3, <2>4, <2>5 DEF SerialInv, InOrder
<1> QED
  BY <1>1, UserMovesSerial, InvoiceMovesSerial, BrokerMovesSerial DEF Next

\* The invariant of a saga in which nothing is repeated.
LEMMA SerialInvariant ==
    ASSUME NothingRepeated
    PROVE  Spec => []SerialInv
  BY InitSerial, NextSerial, PTL DEF Spec

\* If calls to fund are made one at a time, no message is written twice and
\* no process restarts, the investor of a funded invoice is the one who
\* paid, whatever messages are lost and whatever statements, transactions,
\* calls and handlers fail.
THEOREM InvestorPaid ==
    ASSUME NothingRepeated
    PROVE  Spec => []FundedPaid
<1>1. SerialInv => FundedPaid
  BY DEF SerialInv, Owned, FundedPaid
<1> QED
  BY <1>1, SerialInvariant, PTL

\* Then nobody is charged twice for an invoice.
THEOREM NobodyPaysTwice ==
    ASSUME NothingRepeated
    PROVE  Spec => []ChargedOnce
<1>1. SerialInv => ChargedOnce
  <2> SUFFICES ASSUME SerialInv, NEW u \in Users, NEW i \in Invoices
               PROVE  Charged(u, i) <= 1
    BY DEF ChargedOnce
  <2>1. Charged(u, i) \in Nat
    BY HeldTypes DEF SerialInv, FundingInv, Charged
  <2>2. Charged(u, i) > 0 => Charged(u, i) = 1
    BY DEF SerialInv, Owned
  <2> QED
    BY <2>1, <2>2
<1> QED
  BY <1>1, SerialInvariant, PTL

\* Then no hold is left behind: money is held only for the investor of an
\* invoice that waits for him or that he has funded.
THEOREM HoldsAccounted ==
    ASSUME NothingRepeated
    PROVE  Spec => []NoStrandedHold
<1>1. SerialInv => NoStrandedHold
  <2> SUFFICES ASSUME SerialInv, NEW u \in Users, NEW i \in Invoices,
                      held[u][i] > 0
               PROVE  /\ rows[i].status \in {"pending_fund", "funded"}
                      /\ rows[i].investor = u
    BY DEF NoStrandedHold
  <2>1. held[u][i] \in Nat /\ spent[u][i] \in Nat
    BY HeldTypes DEF SerialInv, FundingInv
  <2>2. Charged(u, i) > 0
    BY <2>1 DEF Charged
  <2> QED
    BY <2>2 DEF SerialInv, Owned
<1> QED
  BY <1>1, SerialInvariant, PTL

\* Then a funded invoice stays funded by the same investor: no call and no
\* late answer finds it in a state in which it may write.
THEOREM FundedForGood ==
    ASSUME NothingRepeated
    PROVE  Spec => FundedFinal
<1> DEFINE Final == [\A i \in Invoices :
                        rows[i].status = "funded" => rows'[i] = rows[i]]_rows
<1>1. ASSUME SerialInv, [Next]_vars
      PROVE  Final
  <2>1. CASE UNCHANGED rows
    BY <2>1
  <2>2. ASSUME OthersStay, NEW i \in Invoices, CreateRow(i) \/ CreateReject(i)
        PROVE  Final
    <3>1. rows[i].status = "none"
      BY <1>1, <2>2 DEF CreateRow, CreateReject, SerialInv, Owned, NoRow, Row
    <3>2. \A m \in Invoices : m # i => rows'[m] = rows[m]
      BY <1>1, <2>2 DEF CreateRow, CreateReject, SerialInv, FundingInv,
         InvoiceTypeOK
    <3> QED
      BY <3>1, <3>2
  <2>3. ASSUME NEW c \in Calls, call[c].pc = "update", WritePending(c)
        PROVE  Final
    <3>1. rows[call[c].invoice].status = "new" /\ call[c].invoice \in Invoices
      BY <1>1, <2>3 DEF SerialInv, OneCall, FundingInv, InvoiceTypeOK
    <3>2. \A m \in Invoices : m # call[c].invoice => rows'[m] = rows[m]
      BY <1>1, <2>3, <3>1 DEF WritePending, SerialInv, FundingInv, InvoiceTypeOK
    <3> QED
      BY <3>1, <3>2
  <2>4. ASSUME NEW j \in jobs, j.step = "update", WriteOutcome(j)
        PROVE  Final
    <3>1. rows[Msg(j).invoice].status = "pending_fund" /\ Msg(j).invoice \in Invoices
      BY <1>1, <2>4, HandlerActs, JobTypes DEF SerialInv, Undecided, Waits
    <3>2. \A m \in Invoices : m # Msg(j).invoice => rows'[m] = rows[m]
      BY <1>1, <2>4, <3>1 DEF WriteOutcome, SerialInv, FundingInv, InvoiceTypeOK
    <3> QED
      BY <3>1, <3>2
  <2>5. CASE InvoiceMoves
    <3>1. OthersStay
      BY <2>5 DEF InvoiceMoves, OthersStay
    <3>2. \/ UNCHANGED rows
          \/ \E i \in Invoices : CreateRow(i) \/ CreateReject(i)
          \/ \E c \in Calls : call[c].pc = "update" /\ WritePending(c)
          \/ \E j \in jobs : j.step = "update" /\ WriteOutcome(j)
      BY <2>5 DEF InvoiceMoves, InvoiceNext, InvoiceWork, AnnounceRow, FundRequest,
         FundStep, FundFind, FundUpdate, FundProduce, FundReject, StartJob, JobStep,
         JobFind, JobUpdate, JobProduce, JobNotFound, JobCommit, JobReject,
         InvoiceCrash
    <3> QED
      BY <2>1, <2>2, <2>3, <2>4, <3>1, <3>2
  <2>6. CASE UserMoves \/ BrokerMoves \/ UNCHANGED vars
    BY <2>6 DEF UserMoves, BrokerMoves, vars, invoiceVars, invoiceState
  <2> QED
    BY <1>1, <2>5, <2>6 DEF Next
<1>2. SerialInv /\ [Next]_vars => Final
  BY <1>1
<1> QED
  BY <1>2, SerialInvariant, PTL DEF Spec, FundedFinal

----------------------------------------------------------------------------
(* The two services implement FundingSaga.                                  *)

\* Amounts and opening balances are whole cents, no amount is negative and
\* every Begin succeeds: a hold then takes exactly its amount.
MoneyExact ==
    /\ FaultLimit["begin"] = 0
    /\ \A i \in Invoices : Amount[i] \in Nat /\ InWholeCents(i)
    /\ \A u \in Users : Cents(Opening[u]) = Opening[u]

\* User u cannot pay for invoice i.  With no deposits this stays so.
Short(u, i) == u \in Registered => balance[u] < Amount[i]

\* The answers that send the row back to new.
Refusal(type) == type \in {"InsufficientBalance", "FunderNotFound"}

\* Nobody is refused who could pay, now or when the refusal arrives.
RefusedShort ==
    /\ \A k \in 1 .. SaidLen :
          Refusal(Said(k).type) => Short(Said(k).user, Said(k).invoice)
    /\ uPc = "outbound" /\ Refusal(uReply)
         => Short(Current.user, Current.invoice)

\* The invariant under which a step maps to a step of FundingSaga.
SagaInv ==
    /\ SerialInv
    /\ accounts = Registered
    /\ MoneyFresh
    /\ RefusedShort

\* A balance that only falls pays for no more than before.
LEMMA ShortStays ==
    ASSUME SerialInv, SerialInv', \A u \in Users : balance'[u] <= balance[u],
           NEW u \in Users, NEW i \in Invoices, Amount[i] \in Nat, Short(u, i)
    PROVE  Short(u, i)'
<1>1. balance[u] \in Int /\ balance'[u] \in Int
  BY DEF SerialInv, FundingInv, ConsumerInv, ConsumerTypeOK
<1> QED
  BY <1>1 DEF Short

\* An answer names a user and an invoice.
LEMMA SaidTypes ==
    ASSUME SerialInv, NEW k \in 1 .. SaidLen
    PROVE  /\ Said(k) \in UserEvents
           /\ Said(k).user \in Users
           /\ Said(k).invoice \in Invoices
<1>1. Said(k) \in UserEvents
  BY LogTypes DEF SerialInv, FundingInv
<1> QED
  BY <1>1 DEF UserEvents

\* The consumer refuses whoever cannot pay, and takes money from no one else.
LEMMA UserMovesSaga ==
    ASSUME NothingRepeated, MoneyExact, SagaInv, UserMoves
    PROVE  SagaInv'
<1>1. ConsumerNext /\ LogsStay /\ ~UserCrash /\ UNCHANGED userTopic
  BY NeverRepeated DEF UserMoves, LogsStay, UserCrash, SagaInv, SerialInv, invoiceVars
<1>2. SerialInv /\ SerialInv' /\ ConsumerInv
  BY UserMovesSerial DEF SagaInv, SerialInv, FundingInv
<1>3. ~Fault("begin")
  BY DEF MoneyExact, SagaInv, SerialInv, FundingInv, ConsumerInv, BrokerTypeOK,
     Fault, FaultKinds
<1>4. /\ MoneyFresh'
      /\ \/ UNCHANGED balance
         \/ /\ TakesMoney
            /\ Current.user \in Users /\ Current.invoice \in Invoices
  BY <1>1, <1>2, <1>3, MoneyMoves DEF MoneyExact, SagaInv
<1>5. \A u \in Users : balance'[u] <= balance[u]
  <2>1. balance \in [Users -> Int]
    BY <1>2 DEF ConsumerInv, ConsumerTypeOK
  <2> QED
    BY <1>4, <2>1 DEF TakesMoney, MoneyExact
<1>6. accounts' = Registered
  BY <1>1 DEF SagaInv, ConsumerNext, ConsumerStep, Receive, GetInvestor, CheckHeld,
     BeginHold, InsertHold, UpdateBalance, CommitHold, CheckFunded, DeleteHold,
     Outbound, MarkAndCommit, CommitInBackground, store
<1>7. \A u \in Users, i \in Invoices : Short(u, i) => Short(u, i)'
  BY <1>2, <1>5, ShortStays DEF MoneyExact
<1>8. uPc = "outbound" => Current.user \in Users /\ Current.invoice \in Invoices
  BY <1>2 DEF ConsumerInv, InHand
<1>9. \A k \in 1 .. SaidLen' :
         Refusal(Said(k)'.type) => Short(Said(k).user, Said(k).invoice)'
  <2>1. CASE Outbound
    <3> DEFINE e == Activity(uReply, Current.invoice, Current.user,
                             ReplyKey(uReply, Current.user))
    <3>1. uPc = "outbound" /\ userOut' = Append(userOut, e)
      BY <2>1 DEF Outbound
    <3>2. e.type = uReply /\ e.user = Current.user /\ e.invoice = Current.invoice
      BY DEF Activity
    <3>3. e \in UserEvents
      BY <1>2, <1>8, <3>1 DEF Activity, UserEvents, ReplyKey, Replies, ConsumerInv, InHand
    <3> HIDE DEF e
    <3>4. /\ SaidLen' = SaidLen + 1 /\ SaidLen \in Nat
          /\ \A k \in 1 .. SaidLen + 1 :
                Said(k)' = IF k = SaidLen + 1 THEN e ELSE Said(k)
      BY <1>1, <1>2, <3>1, <3>3, SaidAppended, LogTypes
    <3>5. ASSUME NEW k \in 1 .. SaidLen', Refusal(Said(k)'.type)
          PROVE  Short(Said(k).user, Said(k).invoice)'
      <4>1. CASE k = SaidLen + 1
        <5>1. Said(k)' = e
          BY <3>4, <4>1
        <5>2. Short(Current.user, Current.invoice)
          BY <3>1, <3>2, <3>5, <5>1 DEF SagaInv, RefusedShort
        <5>3. PICK u \in Users, i \in Invoices :
                u = Current.user /\ i = Current.invoice
          BY <1>8, <3>1
        <5>4. Short(u, i)'
          BY <1>7, <5>2, <5>3
        <5> QED
          BY <3>2, <5>1, <5>3, <5>4 DEF Short
      <4>2. CASE k # SaidLen + 1
        <5>1. k \in 1 .. SaidLen /\ Said(k)' = Said(k)
          BY <3>4, <3>5, <4>2
        <5>2. PICK u \in Users, i \in Invoices :
                u = Said(k).user /\ i = Said(k).invoice
          BY <1>2, <5>1, SaidTypes
        <5>3. Short(u, i)'
          BY <1>7, <3>5, <5>1, <5>2 DEF SagaInv, RefusedShort
        <5> QED
          BY <5>1, <5>2, <5>3 DEF Short
      <4> QED
        BY <4>1, <4>2
    <3> QED
      BY <3>5
  <2>2. CASE ~Outbound
    <3>1. UNCHANGED userOut
      BY <1>1, <2>2
         DEF ConsumerNext, ConsumerStep, Receive, GetInvestor, CheckHeld, BeginHold,
             InsertHold, UpdateBalance, CommitHold, CheckFunded, DeleteHold,
             MarkAndCommit, CommitInBackground
    <3>2. SaidLen' = SaidLen /\ \A k \in Nat : Said(k)' = Said(k)
      BY <1>1, <3>1 DEF SaidLen, Said
    <3>3. ASSUME NEW k \in 1 .. SaidLen', Refusal(Said(k)'.type)
          PROVE  Short(Said(k).user, Said(k).invoice)'
      <4>1. k \in 1 .. SaidLen /\ Said(k)' = Said(k)
        BY <3>2, <3>3
      <4>2. PICK u \in Users, i \in Invoices :
              u = Said(k).user /\ i = Said(k).invoice
        BY <1>2, <4>1, SaidTypes
      <4>3. Short(u, i)'
        BY <1>7, <3>3, <4>1, <4>2 DEF SagaInv, RefusedShort
      <4> QED
        BY <4>1, <4>2, <4>3 DEF Short
    <3> QED
      BY <3>3
  <2> QED
    BY <2>1, <2>2
<1>10. uPc' = "outbound" /\ Refusal(uReply') => Short(Current.user, Current.invoice)'
  <2> SUFFICES ASSUME uPc' = "outbound", Refusal(uReply')
               PROVE  Short(Current.user, Current.invoice)'
    OBVIOUS
  <2>1. \/ /\ GetInvestor
           /\ \/ Current.user \notin accounts
              \/ ~CanPay(Current.user, Current.invoice)
        \/ /\ CommitInBackground
           /\ uPc = "outbound" /\ uReply' = uReply
    BY <1>1
       DEF ConsumerNext, ConsumerStep, Receive, GetInvestor, CheckHeld, BeginHold,
           InsertHold, UpdateBalance, CommitHold, CheckFunded, DeleteHold, Outbound,
           MarkAndCommit, CommitInBackground, Return, ReturnError, Refusal
  <2>2. Current' = Current
    BY <1>1, <1>2, <2>1, StableCurrent
       DEF GetInvestor, CommitInBackground, progress, LogsStay
  <2>3. Current.user \in Users /\ Current.invoice \in Invoices
    BY <1>2, <2>1 DEF GetInvestor, ConsumerInv, InHand
  <2>4. Short(Current.user, Current.invoice)
    <3>1. balance[Current.user] \in Int /\ Amount[Current.invoice] \in Int
      BY <1>2, <2>3, EventsAssumption DEF ConsumerInv, ConsumerTypeOK
    <3> QED
      BY <2>1, <3>1 DEF SagaInv, RefusedShort, Short, CanPay
  <2>5. PICK u \in Users, i \in Invoices : u = Current.user /\ i = Current.invoice
    BY <2>3
  <2>6. Short(u, i)'
    BY <1>7, <2>4, <2>5
  <2> QED
    BY <2>2, <2>5, <2>6 DEF Short
<1> QED
  BY <1>2, <1>4, <1>6, <1>9, <1>10 DEF SagaInv, RefusedShort

\* The other service and the broker move no money; what was said is only
\* delivered or lost.
LEMMA OthersMoveSaga ==
    ASSUME NothingRepeated, SagaInv,
           InvoiceMoves \/ BrokerMoves \/ UNCHANGED vars
    PROVE  SagaInv'
<1>1. SerialInv /\ FundingInv /\ SerialInv'
  BY NextSerial DEF SagaInv, SerialInv, Next
<1>2. UNCHANGED <<accounts, balance, uPc, uRead, uTx, uReply, uPos>>
  BY DEF InvoiceMoves, BrokerMoves, userState, store, progress, userVars, vars
<1>3. uPc # "poll" => Current' = Current
  <2>1. CASE BrokerMoves
    <3>1. \A k \in 1 .. Len(invoiceTopic) : invoiceTopic'[k] = invoiceTopic[k]
      BY <1>1, <2>1, NeverRepeated, SentDelivered
         DEF FundingInv, BrokerMoves, BrokerNext, ResendInvoice, ResendUser,
             DeliverUser, DropInvoice, DropUser
    <3> QED
      BY <1>1, <1>2, <3>1, InHandFacts DEF Current
  <2>2. CASE ~BrokerMoves
    BY <1>2, <2>2 DEF InvoiceMoves, vars, brokerVars, Current
  <2> QED
    BY <2>1, <2>2
<1>4. MoneyFresh'
  BY <1>2, <1>3 DEF SagaInv, MoneyFresh, HoldSteps
<1>5. \A k \in 1 .. SaidLen' : \E l \in 1 .. SaidLen : Said(k)' = Said(l)
  <2>1. CASE DropUser
    BY <1>1, <2>1, SaidDropped DEF FundingInv
  <2>2. CASE DeliverUser
    BY <1>1, <2>2, SaidDelivered DEF FundingInv
  <2>3. CASE UNCHANGED <<userTopic, userOut>>
    <3>1. SaidLen' = SaidLen /\ \A k \in Nat : Said(k)' = Said(k)
      BY <2>3 DEF SaidLen, Said
    <3> QED
      BY <3>1
  <2> QED
    BY <1>1, <2>1, <2>2, <2>3, NeverRepeated
       DEF InvoiceMoves, BrokerMoves, BrokerNext, ResendInvoice, ResendUser,
           DeliverInvoice, DropInvoice, vars, brokerVars, userVars
<1>6. ASSUME NEW k \in 1 .. SaidLen', Refusal(Said(k)'.type)
      PROVE  Short(Said(k).user, Said(k).invoice)'
  <2>1. PICK l \in 1 .. SaidLen : Said(k)' = Said(l)
    BY <1>5
  <2>2. Short(Said(l).user, Said(l).invoice)
    BY <1>6, <2>1 DEF SagaInv, RefusedShort
  <2> QED
    BY <1>2, <2>1, <2>2 DEF Short
<1>7. uPc' = "outbound" /\ Refusal(uReply') => Short(Current.user, Current.invoice)'
  BY <1>2, <1>3 DEF SagaInv, RefusedShort, Short
<1> QED
  BY <1>1, <1>2, <1>4, <1>6, <1>7 DEF SagaInv, RefusedShort

----------------------------------------------------------------------------

\* What the mapping looks at.
MapStays == UNCHANGED <<rows, balance, held, spent>>

\* A step that writes no table is a stutter of the abstract program.
LEMMA Stutters ==
    ASSUME MapStays
    PROVE  UNCHANGED Saga!sagaVars
  BY DEF MapStays, Saga!sagaVars, Payment

\* The mapping of a write to one row ...
LEMMA RowMapped ==
    ASSUME SerialInv, NEW i \in Invoices, NEW row,
           \A m \in Invoices : rows'[m] = IF m = i THEN row ELSE rows[m]
    PROVE  /\ [m \in Invoices |-> rows'[m].status]
                = [[m \in Invoices |-> rows[m].status] EXCEPT ![i] = row.status]
           /\ [m \in Invoices |-> rows'[m].investor]
                = [[m \in Invoices |-> rows[m].investor] EXCEPT ![i] = row.investor]
  OBVIOUS

\* ... and of a write to the payments of one user for one invoice.
LEMMA PaymentMapped ==
    ASSUME NEW u \in Users, NEW i \in Invoices, NEW new,
           \A v \in Users, m \in Invoices :
              Payment(v, m)' = IF v = u /\ m = i THEN new ELSE Payment(v, m)
    PROVE  [v \in Users |-> [m \in Invoices |-> Payment(v, m)']]
             = [[v \in Users |-> [m \in Invoices |-> Payment(v, m)]]
                  EXCEPT ![u][i] = new]
<1> DEFINE P == [v \in Users |-> [m \in Invoices |-> Payment(v, m)]]
           Q == [v \in Users |-> [m \in Invoices |-> Payment(v, m)']]
<1>1. ASSUME NEW v \in Users
      PROVE  Q[v] = [P EXCEPT ![u][i] = new][v]
  <2>1. CASE v = u
    <3>1. Q[v] = [m \in Invoices |-> IF m = i THEN new ELSE Payment(v, m)]
      BY <2>1
    <3>2. [P EXCEPT ![u][i] = new][v]
            = [[m \in Invoices |-> Payment(v, m)] EXCEPT ![i] = new]
      BY <2>1
    <3> QED
      BY <3>1, <3>2
  <2>2. CASE v # u
    BY <2>2
  <2> QED
    BY <2>1, <2>2
<1> QED
  BY <1>1

\* A step of the abstract program, or none.
SagaStep == [Saga!SagaNext]_(Saga!sagaVars)

\* The tables of the users service, as the saga sees them, stay.
LEMMA PursesStay ==
    ASSUME OthersStay
    PROVE  UNCHANGED <<balance, [v \in Users |-> [m \in Invoices |-> Payment(v, m)]]>>
  BY DEF OthersStay, userVars, Payment

\* Create is Offer.
LEMMA CreateOffers ==
    ASSUME SerialInv, OthersStay, NEW i \in Invoices,
           CreateRow(i) \/ CreateReject(i)
    PROVE  SagaStep
<1>1. CASE UNCHANGED rows
  BY <1>1, Stutters DEF MapStays, OthersStay, userVars, SagaStep
<1>2. CASE rows' = [rows EXCEPT ![i] = Row("new", NoUser)]
  <2>1. rows[i].status = "none" /\ rows[i].investor = NoUser
    BY DEF CreateRow, CreateReject, SerialInv, Owned, NoRow, Row
  <2>2. \A m \in Invoices : rows'[m] = IF m = i THEN Row("new", NoUser) ELSE rows[m]
    BY <1>2 DEF SerialInv, FundingInv, InvoiceTypeOK
  <2>3. Row("new", NoUser).status = "new" /\ Row("new", NoUser).investor = NoUser
    BY DEF Row
  <2>4. [m \in Invoices |-> rows'[m].status]
           = [[m \in Invoices |-> rows[m].status] EXCEPT ![i] = "new"]
    BY <2>2, <2>3, RowMapped
  <2>5. [m \in Invoices |-> rows'[m].investor] = [m \in Invoices |-> rows[m].investor]
    BY <2>1, <2>2, <2>3
  <2>6. Saga!Offer(i)
    BY <2>1, <2>4, <2>5, PursesStay DEF Saga!Offer
  <2> QED
    BY <2>6 DEF SagaStep, Saga!SagaNext
<1> QED
  BY <1>1, <1>2 DEF CreateRow, CreateReject

\* The write of pending_fund is Invest: the row is still new when it comes.
LEMMA FundInvests ==
    ASSUME SerialInv, OthersStay, NEW c \in Calls, call[c].pc = "update",
           WritePending(c)
    PROVE  SagaStep
<1>1. PICK i \in Invoices, u \in Users :
        /\ i = call[c].invoice /\ u = call[c].investor
        /\ rows[i].status = "new" /\ u # Provider[i]
  BY DEF SerialInv, OneCall, FundingInv, InvoiceTypeOK, CallsChecked
<1>2. \A m \in Invoices :
        rows'[m] = IF m = i THEN Row("pending_fund", u) ELSE rows[m]
  BY <1>1 DEF WritePending, SerialInv, FundingInv, InvoiceTypeOK
<1>3. Row("pending_fund", u).status = "pending_fund" /\ Row("pending_fund", u).investor = u
  BY DEF Row
<1>4. Saga!Invest(i, u)
  BY <1>1, <1>2, <1>3, RowMapped, PursesStay DEF Saga!Invest
<1> QED
  BY <1>4 DEF SagaStep, Saga!SagaNext

\* What a user for whom a row waits has paid.
LEMMA WaitingPayment ==
    ASSUME SerialInv, NEW i \in Invoices, NEW u \in Users, NEW n \in {0, 1},
           Waits(i, u, n)
    PROVE  /\ held[u][i] = n /\ spent[u][i] = 0
           /\ Payment(u, i) = IF n = 1 THEN "held" ELSE "none"
<1>1. held[u][i] \in Nat /\ spent[u][i] \in Nat
  BY HeldTypes DEF SerialInv, FundingInv
<1>2. spent[u][i] = 0
  BY <1>1 DEF SerialInv, Owned, Waits
<1>3. held[u][i] = n
  BY <1>1, <1>2 DEF Waits, Charged
<1> QED
  BY <1>2, <1>3 DEF Payment

\* The update of a handler is Confirm when the money is held, and Refuse when
\* the investor could not pay.
LEMMA OutcomeDecides ==
    ASSUME SagaInv, OthersStay, NEW j \in jobs, j.step = "update",
           WriteOutcome(j), \A i \in Invoices : Amount[i] \in Nat
    PROVE  SagaStep
<1>1. PICK i \in Invoices, u \in Users :
        /\ i = Msg(j).invoice /\ u = Msg(j).user
        /\ Said(j.offset) = Msg(j)
        /\ j.offset \in 1 .. SaidLen
        /\ Waits(i, u, Answered(j.offset))
        /\ Msg(j).type # "UserUpdated" /\ Msg(j) \in UserEvents
  BY HandlerActs, JobTypes DEF Undecided, SagaInv, SerialInv, Handlers, AnswerFor
<1>2. rows[i].status = "pending_fund" /\ rows[i].investor = u
  BY <1>1 DEF Waits
<1>3. /\ Answered(j.offset) \in {0, 1}
      /\ Payment(u, i) = IF Answered(j.offset) = 1 THEN "held" ELSE "none"
  BY <1>1, WaitingPayment DEF Answered, SagaInv
<1>4. PICK row : /\ row = Written(j, rows[i])
                 /\ \A m \in Invoices : rows'[m] = IF m = i THEN row ELSE rows[m]
  BY <1>1 DEF WriteOutcome, SagaInv, SerialInv, FundingInv, InvoiceTypeOK
<1>5. /\ [m \in Invoices |-> rows'[m].status]
            = [[m \in Invoices |-> rows[m].status] EXCEPT ![i] = row.status]
      /\ [m \in Invoices |-> rows'[m].investor]
            = [[m \in Invoices |-> rows[m].investor] EXCEPT ![i] = row.investor]
  BY <1>4, RowMapped DEF SagaInv
<1>6. CASE Msg(j).type = "BalanceReserved"
  <2>1. Payment(u, i) = "held"
    BY <1>1, <1>3, <1>6 DEF Answered
  <2>2. row.status = "funded" /\ row.investor = u
    <3>1. rows[i] \in [status : Statuses \cup {"none"}, investor : Users \cup {NoUser}]
      BY DEF SagaInv, SerialInv, FundingInv, InvoiceTypeOK
    <3> QED
      BY <1>2, <1>4, <1>6, <3>1 DEF Written
  <2>3. [m \in Invoices |-> rows'[m].investor] = [m \in Invoices |-> rows[m].investor]
    BY <1>2, <1>4, <2>2
  <2>4. Saga!Confirm(i, u)
    BY <1>2, <1>5, <2>1, <2>2, <2>3, PursesStay DEF Saga!Confirm
  <2> QED
    BY <2>4 DEF SagaStep, Saga!SagaNext
<1>7. CASE Msg(j).type # "BalanceReserved"
  <2>1. Payment(u, i) = "none"
    BY <1>1, <1>3, <1>7 DEF Answered
  <2>2. row.status = "new" /\ row.investor = NoUser
    BY <1>4, <1>7 DEF Written, Row
  <2>3. Refusal(Msg(j).type)
    BY <1>1, <1>7 DEF UserEvents, Refusal
  <2>4. Short(u, i)
    BY <1>1, <2>3 DEF SagaInv, RefusedShort
  <2>5. balance[u] \in Int
    BY DEF SagaInv, SerialInv, FundingInv, ConsumerInv, ConsumerTypeOK
  <2>6. ~Saga!CanPay(u, i)
    BY <2>4, <2>5 DEF Short, Saga!CanPay
  <2>7. Saga!Refuse(i, u)
    BY <1>2, <1>5, <2>1, <2>2, <2>6, PursesStay DEF Saga!Refuse
  <2> QED
    BY <2>7 DEF SagaStep, Saga!SagaNext
<1> QED
  BY <1>6, <1>7

\* The commit of a transaction is Hold.
LEMMA CommitHolds ==
    ASSUME SagaInv, ConsumerNext, LogsStay, ChargesOne, TakesMoney, AddHeld,
           uPc = "commit", Current.user \in accounts,
           Current.user \in Users, Current.invoice \in Invoices,
           balance[Current.user] >= Amount[Current.invoice],
           UNCHANGED rows
    PROVE  SagaStep
<1>1. PICK i \in Invoices, u \in Users : i = Current.invoice /\ u = Current.user
  OBVIOUS
<1>2. Serving /\ ~Paid
  <2>1. ~Receive
    BY DEF Receive
  <2> QED
    BY <2>1, PaidOnceKept DEF SagaInv, SerialInv, FundingInv
<1>3. Waits(i, u, 0)
  <2>1. RequestFor(uPos, i) /\ Sent(uPos) = Current /\ uPos \in Nat
    BY <1>1, <1>2, InHandFacts DEF SagaInv, SerialInv, Serving
  <2>2. Level(uPos) = 0
    BY <1>2 DEF Level
  <2> QED
    BY <1>1, <2>1, <2>2 DEF SagaInv, SerialInv, Informed
<1>4. held[u][i] = 0 /\ spent[u][i] = 0 /\ Payment(u, i) = "none"
  BY <1>3, WaitingPayment DEF SagaInv
<1>5. /\ \A v \in Users, m \in Invoices :
           held'[v][m] = IF v = u /\ m = i THEN 1 ELSE held[v][m]
      /\ UNCHANGED spent
  <2>1. SetHeld(1)
    BY <1>1, <1>4 DEF AddHeld
  <2> QED
    BY <1>1, <2>1, SetHeldEffect DEF SagaInv, SerialInv, FundingInv, ChargesOne
<1>6. \A v \in Users, m \in Invoices :
        Payment(v, m)' = IF v = u /\ m = i THEN "held" ELSE Payment(v, m)
  BY <1>5 DEF Payment
<1>7. balance' = [balance EXCEPT ![u] = @ - Amount[i]]
  BY <1>1 DEF TakesMoney
<1>8. Saga!CanPay(u, i)
  BY <1>1 DEF Saga!CanPay, SagaInv
<1>9. Saga!Hold(i, u)
  BY <1>3, <1>4, <1>6, <1>7, <1>8, PaymentMapped DEF Saga!Hold, Waits
<1> QED
  BY <1>9 DEF SagaStep, Saga!SagaNext

\* The deletion of a hold is Settle: only a funded row is confirmed.
LEMMA DeleteSettles ==
    ASSUME SagaInv, DeleteHold, DeleteRows, UNCHANGED <<rows, balance>>
    PROVE  SagaStep
<1>1. PICK i \in Invoices, u \in Users : i = Current.invoice /\ u = Current.user
  BY DEF DeleteHold, SagaInv, SerialInv, FundingInv, ConsumerInv, InHand
<1>2. rows[i].status = "funded" /\ rows[i].investor = u
  <2>1. IsFunded(Current) /\ uPc # "poll"
    BY DEF DeleteHold, SagaInv, SerialInv, Dispatched
  <2>2. uPos \in 1 .. SentLen /\ Sent(uPos) = Current
    BY <2>1, InHandFacts DEF SagaInv, SerialInv
  <2> QED
    BY <1>1, <2>1, <2>2 DEF SagaInv, SerialInv, Confirmed, FundedBy
<1>3. held[u][i] \in Nat /\ spent[u][i] \in Nat /\ held[u][i] + spent[u][i] = 1
  BY <1>1, <1>2, HeldTypes DEF SagaInv, SerialInv, FundingInv, Owned, Charged
<1>4. \A v \in Users, m \in Invoices :
        /\ held'[v][m] = IF v = u /\ m = i THEN 0 ELSE held[v][m]
        /\ spent'[v][m] = IF v = u /\ m = i THEN 1 ELSE spent[v][m]
  <2>1. /\ \A v \in Users, m \in Invoices :
             /\ Charged(v, m)' = Charged(v, m)
             /\ ~(v = u /\ m = i) => held'[v][m] = held[v][m] /\ spent'[v][m] = spent[v][m]
        /\ held'[u][i] = 0
    BY <1>1, DeleteCharges DEF SagaInv, SerialInv, FundingInv, ChargesStay
  <2>2. spent' = [spent EXCEPT ![u][i] = @ + held[u][i]]
    BY <1>1 DEF DeleteRows
  <2>3. spent'[u][i] = spent[u][i] + held[u][i]
    BY <2>2 DEF SagaInv, SerialInv, FundingInv, ConsumerInv, ConsumerTypeOK
  <2> QED
    BY <1>3, <2>1, <2>3
<1>5. CASE held[u][i] = 1
  <2>1. \A v \in Users, m \in Invoices :
          Payment(v, m)' = IF v = u /\ m = i THEN "settled" ELSE Payment(v, m)
    BY <1>4 DEF Payment
  <2>2. Payment(u, i) = "held"
    BY <1>5 DEF Payment
  <2>3. Saga!Settle(i, u)
    BY <1>2, <2>1, <2>2, PaymentMapped DEF Saga!Settle
  <2> QED
    BY <2>3 DEF SagaStep, Saga!SagaNext
<1>6. CASE held[u][i] = 0
  <2>1. \A v \in Users, m \in Invoices : Payment(v, m)' = Payment(v, m)
    BY <1>3, <1>4, <1>6 DEF Payment
  <2>2. UNCHANGED Saga!sagaVars
    BY <2>1 DEF Saga!sagaVars
  <2> QED
    BY <2>2 DEF SagaStep
<1> QED
  BY <1>3, <1>5, <1>6

\* At the start no invoice exists, nobody has paid and nobody was refused.
LEMMA InitSaga == MoneyExact /\ Init => SagaInv /\ Saga!SagaInit
<1> SUFFICES ASSUME MoneyExact, Init
             PROVE  SagaInv /\ Saga!SagaInit
  OBVIOUS
<1> USE DEF Init, ConsumerInit, InvoiceInit
<1>1. RefusedShort
  BY DEF BrokerInit, RefusedShort, SaidLen
<1>2. MoneyFresh
  BY DEF MoneyFresh, MoneyExact, HoldSteps
<1>3. SagaInv
  BY <1>1, <1>2, InitSerial DEF SagaInv
<1>4. Saga!SagaInit
  BY DEF Saga!SagaInit, NoRow, Row, Payment
<1> QED
  BY <1>3, <1>4

\* A step that charges nobody and deletes no hold writes no hold.
LEMMA ChargeWrites ==
    ASSUME ConsumerInv, ConsumerNext, LogsStay, ChargesStay,
           ~(DeleteHold /\ DeleteRows)
    PROVE  UNCHANGED <<held, spent>>
<1>1. \/ UNCHANGED <<held, spent>>
      \/ /\ AddHeld /\ UNCHANGED spent
         /\ uPc \in {"insert", "commit"}
         /\ Current.user \in Users /\ Current.invoice \in Invoices
  BY DEF ConsumerNext, ConsumerStep, Receive, GetInvestor, CheckHeld, BeginHold,
     InsertHold, UpdateBalance, CommitHold, ApplyHold, CheckFunded, DeleteHold,
     Outbound, MarkAndCommit, CommitInBackground, UserCrash, store, ConsumerInv,
     InHand
<1>2. ASSUME AddHeld, UNCHANGED spent, uPc \in {"insert", "commit"},
             Current.user \in Users, Current.invoice \in Invoices
      PROVE  FALSE
  <2>1. ChargesOne
    BY <1>2, AddHeldCharges
  <2>2. PICK u \in Users, i \in Invoices : u = Current.user /\ i = Current.invoice
    BY <1>2
  <2>3. Charged(u, i) \in Nat
    BY HeldTypes DEF Charged
  <2> QED
    BY <2>1, <2>2, <2>3 DEF ChargesOne, ChargesStay
<1> QED
  BY <1>1, <1>2

\* Every step of the two services is a step of the saga or none of its.
LEMMA NextSaga ==
    ASSUME NothingRepeated, MoneyExact
    PROVE  SagaInv /\ [Next]_vars => SagaStep
<1> SUFFICES ASSUME SagaInv, [Next]_vars PROVE SagaStep
  OBVIOUS
<1>1. CASE UserMoves
  <2>1. ConsumerNext /\ LogsStay /\ UNCHANGED rows /\ ~UserCrash
    BY <1>1, NeverRepeated
       DEF UserMoves, LogsStay, UserCrash, SagaInv, SerialInv, invoiceVars
  <2>2. ~Fault("begin")
    BY DEF MoneyExact, SagaInv, SerialInv, FundingInv, ConsumerInv, BrokerTypeOK,
       Fault, FaultKinds
  <2>3. \/ ChargesStay /\ UNCHANGED balance
        \/ /\ ChargesOne /\ TakesMoney /\ uPc = "commit" /\ AddHeld
           /\ Current.user \in accounts
           /\ Current.user \in Users /\ Current.invoice \in Invoices
           /\ balance[Current.user] >= Amount[Current.invoice]
    BY <2>1, <2>2, MoneyMoves DEF SagaInv, SerialInv, FundingInv, MoneyExact
  <2>4. CASE ChargesStay /\ UNCHANGED balance /\ DeleteHold /\ DeleteRows
    BY <2>1, <2>4, DeleteSettles
  <2>5. CASE ChargesStay /\ UNCHANGED balance /\ ~(DeleteHold /\ DeleteRows)
    <3>1. UNCHANGED <<held, spent>>
      BY <2>1, <2>5, ChargeWrites DEF SagaInv, SerialInv, FundingInv
    <3> QED
      BY <2>1, <2>5, <3>1, Stutters DEF MapStays, SagaStep
  <2> QED
    BY <2>1, <2>3, <2>4, <2>5, CommitHolds
<1>2. CASE InvoiceMoves
  <2>1. OthersStay /\ SerialInv
    BY <1>2 DEF InvoiceMoves, OthersStay, SagaInv
  <2>2. \/ UNCHANGED rows
        \/ \E i \in Invoices : CreateRow(i) \/ CreateReject(i)
        \/ \E c \in Calls : call[c].pc = "update" /\ WritePending(c)
        \/ \E j \in jobs : j.step = "update" /\ WriteOutcome(j)
    BY <1>2 DEF InvoiceMoves, InvoiceNext, InvoiceWork, AnnounceRow, FundRequest,
       FundStep, FundFind, FundUpdate, FundProduce, FundReject, StartJob, JobStep,
       JobFind, JobUpdate, JobProduce, JobNotFound, JobCommit, JobReject,
       InvoiceCrash
  <2>3. CASE UNCHANGED rows
    BY <2>1, <2>3, Stutters DEF MapStays, OthersStay, userVars, SagaStep
  <2> QED
    BY <2>1, <2>2, <2>3, CreateOffers, FundInvests, OutcomeDecides DEF MoneyExact
<1>3. CASE BrokerMoves \/ UNCHANGED vars
  <2>1. MapStays
    BY <1>3 DEF BrokerMoves, userState, invoiceState, store, vars, userVars,
       invoiceVars, MapStays
  <2> QED
    BY <2>1, Stutters DEF SagaStep
<1> QED
  BY <1>1, <1>2, <1>3 DEF Next

\* If, besides, amounts and opening balances are whole cents, no amount is
\* negative and every Begin succeeds, the two services implement FundingSaga:
\* each write to one of their databases is one step of a program that has a
\* single database and no messages, taken under that program's guard.
THEOREM ServicesImplementSaga ==
    ASSUME NothingRepeated, MoneyExact
    PROVE  Spec => ImplementsSaga
<1>1. Init => SagaInv /\ Saga!SagaInit
  BY InitSaga
<1>2. SagaInv /\ [Next]_vars => SagaInv'
  BY UserMovesSaga, OthersMoveSaga DEF Next
<1>3. SagaInv /\ [Next]_vars => [Saga!SagaNext]_(Saga!sagaVars)
  BY NextSaga DEF SagaStep
<1> QED
  BY <1>1, <1>2, <1>3, PTL DEF Spec, ImplementsSaga, Saga!SagaSpec
=============================================================================
