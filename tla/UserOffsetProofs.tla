-------------------------- MODULE UserOffsetProofs -------------------------
(***************************************************************************)
(* The offset of services/users: it never goes back, and it passes a       *)
(* request only after its answer was published, for any number of users,   *)
(* invoices, events and restarts.                                          *)
(***************************************************************************)
EXTENDS UserServiceProofs

NothingFailed == faults["db"] = 0 /\ faults["commit"] = 0

\* Where the offsets stand, and which requests still wait for their answer:
\* the one a controller has in hand.
OffsetInv ==
    /\ uCommitted <= uMarked
    /\ uMarked <= uPos
    /\ uPc # "poll" => uMarked < uPos
    /\ uPc \in {"check_funded", "delete"} => ~IsFundRequest(Current)
    /\ NothingFailed =>
         \A k \in 1 .. uPos :
            IsFundRequest(invoiceTopic[k])
              => k \in answered \/ (k = uPos /\ uPc \notin {"poll", "mark"})

\* A fault is never forgotten.
LEMMA FaultHistory ==
    ASSUME ConsumerInv, NEW kind \in FaultKinds, Fault(kind)
    PROVE  /\ NothingFailed' => NothingFailed
           /\ kind \in {"db", "commit"} => ~NothingFailed'
  BY DEF ConsumerInv, BrokerTypeOK, Fault, NothingFailed, FaultKinds

\* A controller drops a request without an answer only when a statement or a
\* commit has failed.
LEMMA ControllerOffset ==
    ASSUME ConsumerInv, OffsetInv, UNCHANGED <<invoiceTopic, progress>>,
           NothingFailed' => NothingFailed,
           uPc \notin {"poll", "mark"},
           NothingFailed' /\ IsFundRequest(Current) => uPc' \notin {"poll", "mark"},
           uPc' \in {"check_funded", "delete"} => uPc = "check_funded"
    PROVE  OffsetInv'
<1> USE DEF progress
<1>1. Current' = Current
  BY DEF Current
<1>2. uPos \in Nat
  BY DEF ConsumerInv, ConsumerTypeOK
<1> QED
  BY <1>1, <1>2 DEF OffsetInv, Current, IsFundRequest

\* The steps of pendingFund and holdBalance.
LEMMA HoldOffset ==
    ASSUME ConsumerInv, OffsetInv, LogsStay,
           \/ GetInvestor \/ CheckHeld \/ BeginHold
           \/ InsertHold \/ UpdateBalance \/ CommitHold
    PROVE  OffsetInv'
<1>1. UNCHANGED <<invoiceTopic, progress>>
  BY DEF LogsStay, GetInvestor, CheckHeld, BeginHold, InsertHold, UpdateBalance,
     CommitHold
<1>2. /\ uPc \notin {"poll", "mark"}
      /\ uPc' \notin {"mark", "check_funded", "delete"}
      /\ UNCHANGED faults \/ (\E kind \in {"db", "begin", "commit"} : Fault(kind))
      /\ uPc' = "poll" => Fault("db") \/ Fault("commit")
  BY DEF GetInvestor, CheckHeld, BeginHold, InsertHold, UpdateBalance, CommitHold,
     Return, ReturnError
<1>3. /\ NothingFailed' => NothingFailed
      /\ NothingFailed' => uPc' # "poll"
  BY <1>2, FaultHistory DEF FaultKinds, NothingFailed
<1> QED
  BY <1>1, <1>2, <1>3, ControllerOffset

\* The steps of funded; its error for a number of rows other than one is not
\* about a request.
LEMMA SettleOffset ==
    ASSUME ConsumerInv, OffsetInv, LogsStay, CheckFunded \/ DeleteHold
    PROVE  OffsetInv'
<1>1. UNCHANGED <<invoiceTopic, progress>>
  BY DEF LogsStay, CheckFunded, DeleteHold
<1>2. /\ uPc \in {"check_funded", "delete"}
      /\ uPc' \in {"check_funded", "delete"} => uPc = "check_funded"
      /\ UNCHANGED faults \/ Fault("db")
  BY DEF CheckFunded, DeleteHold, Return
<1>3. NothingFailed' => NothingFailed
  BY <1>2, FaultHistory DEF FaultKinds, NothingFailed
<1>4. ~IsFundRequest(Current)
  BY <1>2 DEF OffsetInv
<1> QED
  BY <1>1, <1>2, <1>3, <1>4, ControllerOffset

\* The steps of Listen itself.
LEMMA ListenOffset ==
    ASSUME ConsumerInv, OffsetInv, LogsStay, Receive \/ Outbound \/ MarkAndCommit
    PROVE  OffsetInv' /\ uCommitted' >= uCommitted
<1>1. /\ uPos \in 0 .. Len(invoiceTopic)
      /\ uMarked \in 0 .. Len(invoiceTopic)
      /\ uCommitted \in 0 .. Len(invoiceTopic)
      /\ Len(invoiceTopic) \in Nat
  BY DEF ConsumerInv, ConsumerTypeOK, BrokerTypeOK
<1>2. CASE Receive
  <2>1. /\ uPos' = uPos + 1
        /\ UNCHANGED <<invoiceTopic, uMarked, uCommitted, answered, faults>>
        /\ Current' = invoiceTopic[uPos + 1]
        /\ uPc = "poll"
    BY <1>2 DEF Receive, LogsStay, Current
  <2>2. /\ IsFundRequest(Current') => uPc' = "get_investor"
        /\ uPc' \in {"check_funded", "delete"} => IsFunded(Current')
    BY <1>2, <2>1 DEF Receive
  <2>3. ~(IsFunded(Current') /\ IsFundRequest(Current'))
    BY DEF IsFunded, IsFundRequest
  <2>4. ASSUME NothingFailed', NEW k \in 1 .. uPos', IsFundRequest(invoiceTopic'[k])
        PROVE  k \in answered' \/ (k = uPos' /\ uPc' \notin {"poll", "mark"})
    <3>1. CASE k = uPos + 1
      BY <2>1, <2>2, <2>4, <3>1
    <3>2. CASE k \in 1 .. uPos
      BY <2>1, <2>4, <3>2 DEF OffsetInv, NothingFailed
    <3> QED
      BY <1>1, <2>1, <3>1, <3>2
  <2>5. /\ uCommitted' <= uMarked'
        /\ uMarked' <= uPos'
        /\ uMarked' < uPos'
        /\ uCommitted' >= uCommitted
    BY <1>1, <2>1 DEF OffsetInv
  <2>6. uPc' \in {"check_funded", "delete"} => ~IsFundRequest(Current')
    BY <2>2, <2>3
  <2> QED
    BY <2>4, <2>5, <2>6 DEF OffsetInv, IsFundRequest
<1>3. CASE Outbound
  <2>1. /\ UNCHANGED <<invoiceTopic, uPos, uMarked, uCommitted, faults>>
        /\ answered' = answered \cup {uPos}
        /\ uPc = "outbound"
        /\ uPc' = "mark"
    BY <1>3 DEF Outbound, LogsStay, store
  <2> QED
    BY <1>1, <2>1 DEF OffsetInv, NothingFailed, IsFundRequest
<1>4. CASE MarkAndCommit
  <2>1. /\ UNCHANGED <<invoiceTopic, uPos, answered>>
        /\ uPc = "mark"
        /\ uPc' = "poll"
        /\ uMarked' = uPos
        /\ uCommitted' \in {uPos, uCommitted}
        /\ UNCHANGED faults \/ Fault("offset")
    BY <1>1, <1>4 DEF MarkAndCommit, Mark, LogsStay, OffsetInv
  <2>2. NothingFailed' => NothingFailed
    BY <2>1, FaultHistory DEF FaultKinds, NothingFailed
  <2> QED
    BY <1>1, <2>1, <2>2 DEF OffsetInv, IsFundRequest
<1> QED
  BY <1>2, <1>3, <1>4

\* The background commit, and a restart at the offset the broker holds.
LEMMA ResumeOffset ==
    ASSUME ConsumerInv, OffsetInv, LogsStay, CommitInBackground \/ UserCrash
    PROVE  OffsetInv' /\ uCommitted' >= uCommitted
<1>1. uPos \in Nat /\ uMarked \in Nat /\ uCommitted \in Nat
  BY DEF ConsumerInv, ConsumerTypeOK, BrokerTypeOK
<1>2. CASE CommitInBackground
  <2>1. /\ UNCHANGED <<invoiceTopic, uPos, uPc, uMarked, answered, faults>>
        /\ uCommitted' = uMarked
    BY <1>2 DEF CommitInBackground, LogsStay
  <2> QED
    BY <1>1, <2>1 DEF OffsetInv, NothingFailed, Current, IsFundRequest
<1>3. CASE UserCrash
  <2>1. /\ UNCHANGED <<invoiceTopic, answered>>
        /\ uPc' = "poll"
        /\ uPos' = uCommitted
        /\ uMarked' = uCommitted
        /\ uCommitted' = uCommitted
    BY <1>3 DEF UserCrash, Resume, LogsStay
  <2>2. NothingFailed' => NothingFailed
    BY <1>3, FaultHistory DEF UserCrash, FaultKinds
  <2>3. ASSUME NothingFailed, NEW k \in 1 .. uCommitted,
               IsFundRequest(invoiceTopic[k])
        PROVE  k \in answered
    <3>1. k \in 1 .. uPos
      BY <1>1 DEF OffsetInv
    <3>2. k = uPos => uPc = "poll"
      BY <1>1 DEF OffsetInv
    <3> QED
      BY <2>3, <3>1, <3>2 DEF OffsetInv
  <2> QED
    BY <1>1, <2>1, <2>2, <2>3 DEF OffsetInv, IsFundRequest
<1> QED
  BY <1>2, <1>3

\* Every step of the consumer keeps the offsets in order.
LEMMA ConsumerOffset ==
    ASSUME ConsumerInv, OffsetInv, LogsStay, ConsumerNext
    PROVE  OffsetInv' /\ uCommitted' >= uCommitted
<1>1. uCommitted \in Nat
  BY DEF ConsumerInv, ConsumerTypeOK, BrokerTypeOK
<1>2. CASE GetInvestor \/ CheckHeld \/ BeginHold \/ InsertHold \/ UpdateBalance \/ CommitHold
  <2>1. UNCHANGED uCommitted
    BY <1>2 DEF GetInvestor, CheckHeld, BeginHold, InsertHold, UpdateBalance,
       CommitHold, progress
  <2> QED
    BY <1>1, <1>2, <2>1, HoldOffset
<1>3. CASE CheckFunded \/ DeleteHold
  <2>1. UNCHANGED uCommitted
    BY <1>3 DEF CheckFunded, DeleteHold, progress
  <2> QED
    BY <1>1, <1>3, <2>1, SettleOffset
<1> QED
  BY <1>2, <1>3, ListenOffset, ResumeOffset DEF ConsumerNext, ConsumerStep

\* Neither events that arrive, nor UpdateUser, nor the producer's sender
\* touches an offset.
LEMMA OthersOffset ==
    ASSUME ConsumerInv, OffsetInv, UNCHANGED <<uPc, progress>>,
           invoiceTopic' = invoiceTopic
             \/ \E e : invoiceTopic' = Append(invoiceTopic, e),
           NothingFailed' => NothingFailed
    PROVE  OffsetInv' /\ uCommitted' >= uCommitted
<1> USE DEF progress
<1>1. /\ uPos \in 0 .. Len(invoiceTopic)
      /\ uCommitted \in Nat
      /\ invoiceTopic \in Seq(InvoiceEvents)
  BY DEF ConsumerInv, ConsumerTypeOK, BrokerTypeOK
<1>2. \A k \in 1 .. uPos : invoiceTopic'[k] = invoiceTopic[k]
  BY <1>1
<1>3. uPc \in {"check_funded", "delete"} => Current' = Current
  BY <1>1, <1>2 DEF Current, ConsumerInv, InHand
<1> QED
  BY <1>1, <1>2, <1>3 DEF OffsetInv, IsFundRequest

\* Every step of the users service and the broker keeps OffsetInv.
LEMMA NextOffsets ==
    ASSUME ServiceInv, OffsetInv, [Next]_serviceVars
    PROVE  OffsetInv' /\ uCommitted' >= uCommitted
<1>1. ConsumerInv
  BY DEF ServiceInv
<1>2. CASE InvoiceEventArrives
  <2>1. UNCHANGED <<uPc, progress, faults>>
    BY <1>2 DEF InvoiceEventArrives, userVars, progress
  <2>2. \E e : invoiceTopic' = Append(invoiceTopic, e)
    BY <1>2 DEF InvoiceEventArrives
  <2> QED
    BY <1>1, <2>1, <2>2, OthersOffset DEF NothingFailed
<1>3. ASSUME NEW u \in Users, NEW b \in NewBalances, UpdateUser(u, b)
      PROVE  OffsetInv' /\ uCommitted' >= uCommitted
  <2>1. UNCHANGED <<uPc, progress, faults, invoiceTopic>>
    BY <1>3 DEF UpdateUser, brokerVars, progress
  <2> QED
    BY <1>1, <2>1, OthersOffset DEF NothingFailed
<1>4. CASE ProducerSends
  <2>1. /\ UNCHANGED <<uPc, progress, invoiceTopic>>
        /\ UNCHANGED faults \/ (\E kind \in {"resend", "drop"} : Fault(kind))
    BY <1>4 DEF ProducerSends, DeliverUser, ResendUser, DropUser, progress
  <2>2. NothingFailed' => NothingFailed
    BY <1>1, <2>1, FaultHistory DEF FaultKinds, NothingFailed
  <2> QED
    BY <1>1, <2>1, <2>2, OthersOffset
<1>5. CASE Consume
  BY <1>1, <1>5, ConsumerOffset DEF Consume, LogsStay
<1>6. CASE UNCHANGED serviceVars
  <2>1. UNCHANGED <<uPc, progress, faults, invoiceTopic>>
    BY <1>6 DEF serviceVars, brokerVars, userVars, progress
  <2> QED
    BY <1>1, <2>1, OthersOffset DEF NothingFailed
<1> QED
  BY <1>2, <1>3, <1>4, <1>5, <1>6 DEF Next

\* No offset was marked or committed at first.
LEMMA InitOffsets == Init => OffsetInv
  BY DEF Init, ConsumerInit, OffsetInv

\* OffsetInv holds in every state.
LEMMA OffsetInvariant == Spec => [](ServiceInv /\ OffsetInv)
  BY InitService, NextService, InitOffsets, NextOffsets, PTL DEF Spec

\* While no statement and no commit fails, the committed offset passes a
\* request only after its answer was published.
THEOREM AnsweredFirst == Spec => []AnswerBeforeCommit
<1>1. ServiceInv /\ OffsetInv => AnswerBeforeCommit
  <2> SUFFICES ASSUME ServiceInv, OffsetInv, NothingFailed,
                      NEW k \in 1 .. uCommitted, IsFundRequest(invoiceTopic[k])
               PROVE  k \in answered
    BY DEF AnswerBeforeCommit, NothingFailed
  <2>1. uPos \in Nat /\ uMarked \in Nat /\ uCommitted \in Nat
    BY DEF ServiceInv, ConsumerInv, ConsumerTypeOK, BrokerTypeOK
  <2>2. k \in 1 .. uPos
    BY <2>1 DEF OffsetInv
  <2>3. k = uPos => uPc = "poll"
    BY <2>1 DEF OffsetInv
  <2> QED
    BY <2>2, <2>3 DEF OffsetInv
<1> QED
  BY <1>1, OffsetInvariant, PTL

\* The committed offset never goes back, not even across restarts.
THEOREM OffsetsNeverGoBack == Spec => CommittedMonotone
<1>1. ServiceInv /\ OffsetInv /\ [Next]_serviceVars
        => [uCommitted' >= uCommitted]_uCommitted
  BY NextOffsets
<1> QED
  BY <1>1, OffsetInvariant, PTL DEF Spec, CommittedMonotone
=============================================================================
