-------------------------- MODULE UserServiceProofs ------------------------
(***************************************************************************)
(* The users service keeps its promises next to any invoices service that  *)
(* sends well-formed events, and next to clients that write balances.      *)
(***************************************************************************)
EXTENDS UserService, UserConsumerProofs, FiniteSetTheorems

ServiceInv ==
    /\ ConsumerInv
    /\ updates \in 0 .. MaxUpdates

\* The accounts start without holds and without debts.
LEMMA InitService == Init => ServiceInv
<1> SUFFICES ASSUME Init PROVE ServiceInv
  OBVIOUS
<1> USE DEF Init, BrokerInit, ConsumerInit
<1>1. BrokerTypeOK
  BY DEF BrokerTypeOK
<1>2. ConsumerTypeOK
  BY AccountsAssumption DEF ConsumerTypeOK, Steps
<1>3. WellAddressed /\ InHand /\ HoldState /\ OutboundBacked
  BY DEF WellAddressed, InHand, HoldState, HoldSteps, OutboundBacked
<1>4. WholeHeldOnce /\ ReservedBacked
  BY AccountsAssumption DEF WholeHeldOnce, ReservedBacked
<1> QED
  BY <1>1, <1>2, <1>3, <1>4, ServiceAssumption DEF ServiceInv, ConsumerInv

\* What an invoices service can send names a user wherever one is needed.
LEMMA WellFormedEvents ==
    ASSUME NEW e \in WellFormed
    PROVE  /\ e \in InvoiceEvents
           /\ IsFundRequest(e) \/ IsFunded(e) => e.user \in Users
  BY DEF WellFormed, InvoiceEvents, InvoiceCreated, InvoiceUpdated,
     ReservationNotFound, Event, IsFundRequest, IsFunded, Statuses

\* UpdateUser writes any balance and leaves the one the consumer has read as
\* it is.
LEMMA UpdateUserInv ==
    ASSUME ServiceInv, NEW u \in Users, NEW b \in NewBalances, UpdateUser(u, b)
    PROVE  ServiceInv'
<1> USE DEF UpdateUser, brokerVars
<1>1. Cents(b) \in Int
  BY ServiceAssumption DEF Cents
<1>2. balance' \in [Users -> Int]
  BY <1>1 DEF ServiceInv, ConsumerInv, ConsumerTypeOK
<1>3. BrokerTypeOK' /\ ConsumerTypeOK' /\ WellAddressed'
  BY <1>2 DEF ServiceInv, ConsumerInv, BrokerTypeOK, ConsumerTypeOK, WellAddressed
<1>4. InHand' /\ HoldState' /\ OutboundBacked' /\ WholeHeldOnce' /\ ReservedBacked'
  BY DEF ServiceInv, ConsumerInv, InHand, HoldState, HoldSteps, Found, Inserted,
     OutboundBacked, WholeHeldOnce, ReservedBacked, Charged, Current
<1>5. updates' \in 0 .. MaxUpdates
  BY ServiceAssumption DEF ServiceInv
<1> QED
  BY <1>2, <1>3, <1>4, <1>5 DEF ServiceInv, ConsumerInv

\* Every step of the service keeps the invariant.
LEMMA NextService == ServiceInv /\ [Next]_serviceVars => ServiceInv'
<1> SUFFICES ASSUME ServiceInv, [Next]_serviceVars PROVE ServiceInv'
  OBVIOUS
<1>1. CASE InvoiceEventArrives
  <2>1. PICK e \in WellFormed : invoiceTopic' = Append(invoiceTopic, e)
    BY <1>1 DEF InvoiceEventArrives
  <2>2. UNCHANGED <<userTopic, invoiceOut, faults, userVars, updates>>
    BY <1>1 DEF InvoiceEventArrives
  <2>3. UNCHANGED <<userProcess, userTopic, userOut>>
    BY <2>2 DEF userVars, userProcess, store, progress
  <2>4. /\ invoiceOut' \in Seq(InvoiceEvents)
        /\ faults' \in [FaultKinds -> Nat]
    BY <2>2 DEF ServiceInv, ConsumerInv, BrokerTypeOK
  <2>5. ConsumerInv'
    BY <2>1, <2>3, <2>4, WellFormedEvents, InvoiceTopicGrowsInv DEF ServiceInv
  <2> QED
    BY <2>2, <2>5 DEF ServiceInv
<1>2. ASSUME NEW u \in Users, NEW b \in NewBalances, UpdateUser(u, b)
      PROVE  ServiceInv'
  BY <1>2, UpdateUserInv
<1>3. CASE ProducerSends
  BY <1>3, UserSenderInv DEF ProducerSends, ServiceInv, userProcess, store, progress
<1>4. CASE Consume
  BY <1>4, ConsumerNextInv DEF Consume, ServiceInv, LogsStay
<1>5. CASE UNCHANGED serviceVars
  <2> USE <1>5 DEF serviceVars, brokerVars, userVars
  <2>1. BrokerTypeOK' /\ ConsumerTypeOK' /\ WellAddressed'
    BY DEF ServiceInv, ConsumerInv, BrokerTypeOK, ConsumerTypeOK, WellAddressed
  <2>2. InHand' /\ HoldState' /\ OutboundBacked'
    BY DEF ServiceInv, ConsumerInv, InHand, HoldState, HoldSteps, Found, Inserted,
       OutboundBacked, Charged, Current
  <2>3. WholeHeldOnce' /\ ReservedBacked'
    BY DEF ServiceInv, ConsumerInv, WholeHeldOnce, ReservedBacked,
       Charged
  <2> QED
    BY <2>1, <2>2, <2>3 DEF ServiceInv, ConsumerInv
<1> QED
  BY <1>1, <1>2, <1>3, <1>4, <1>5 DEF Next

\* The inductive invariant holds in every state of every behaviour.
LEMMA ServiceInvariant == Spec => []ServiceInv
  BY InitService, NextService, PTL DEF Spec

\* The users service keeps its types: a controller that runs has a message
\* of the log in hand, and offsets stay within the log.
THEOREM UserTypeCorrect == Spec => []TypeOK
<1>1. ServiceInv => TypeOK
  BY DEF ServiceInv, ConsumerInv, TypeOK
<1> QED
  BY <1>1, ServiceInvariant, PTL

\* There is at most one row of held_balance per user and invoice, under
\* redelivery, restarts and every failing statement, Begin or Commit, for
\* any number of users, invoices and events, when amounts are whole cents.
THEOREM OneHold ==
    ASSUME \A i \in Invoices : InWholeCents(i)
    PROVE  Spec => []AtMostOneHold
<1>1. ServiceInv => AtMostOneHold
  BY DEF ServiceInv, ConsumerInv, WholeHeldOnce, AtMostOneHold
<1> QED
  BY <1>1, ServiceInvariant, PTL

\* BalanceReserved is never said of money that was not held.
THEOREM AnswersBacked == Spec => []ReservedBacked
<1>1. ServiceInv => ReservedBacked
  BY DEF ServiceInv, ConsumerInv
<1> QED
  BY <1>1, ServiceInvariant, PTL

\* No hold overdraws an account, even when UpdateUser writes the balance,
\* with any number, between the consumer's comparison and its subtraction:
\* whatever becomes negative was written so by an UpdateUser.
THEOREM HoldsAreCovered == Spec => OnlyUpdatesOverdraw
<1>1. ServiceInv /\ [Next]_serviceVars => [OnlyByUpdate]_balance
  <2> SUFFICES ASSUME ServiceInv, Next, updates' = updates,
                      NEW u \in Users, balance'[u] # balance[u]
               PROVE  balance'[u] >= 0
    BY DEF serviceVars, userVars, OnlyByUpdate
  <2>1. CASE InvoiceEventArrives \/ ProducerSends
    BY <2>1 DEF InvoiceEventArrives, ProducerSends, userVars, store
  <2>2. CASE \E v \in Users, b \in NewBalances : UpdateUser(v, b)
    BY <2>2 DEF UpdateUser, ServiceInv
  <2>3. CASE Consume
    BY <2>3, ConsumerCovers DEF Consume, ServiceInv, CoversWrites
  <2> QED
    BY <2>1, <2>2, <2>3 DEF Next
<1> QED
  BY <1>1, ServiceInvariant, PTL DEF Spec, OnlyUpdatesOverdraw

----------------------------------------------------------------------------
(* Sums over a finite set.  MapThenSumSet is a recursive function on the    *)
(* subsets of the set; what it computes is proved by looking at a smallest  *)
(* subset for which it would fail.                                          *)

Pick(s) == CHOOSE x \in s : TRUE

\* h maps each subset of S to the sum of the weights w of its elements.
Sums(h, w, S) ==
    h = [s \in SUBSET S |-> IF s = {} THEN 0
                            ELSE w[Pick(s)] + h[s \ {Pick(s)}]]

\* Among subsets of a finite set there is one that none of them is below.
LEMMA SmallestSubset ==
    ASSUME NEW S, IsFiniteSet(S), NEW Bad \in SUBSET SUBSET S, Bad # {}
    PROVE  \E T \in Bad : \A U \in Bad : U \subseteq T => U = T
<1>1. IsWellFoundedOn(StrictSubsetOrdering(S), SUBSET S)
  BY FS_StrictSubsetOrderingWellFounded, FS_FiniteSubsetsOfFinite
<1>2. PICK T \in Bad : \A U \in Bad : <<U, T>> \notin StrictSubsetOrdering(S)
  BY <1>1, WFMin
<1>3. ASSUME NEW U \in Bad, U \subseteq T, U # T
      PROVE  FALSE
  <2>1. <<U, T>> \in StrictSubsetOrdering(S)
    BY <1>3 DEF StrictSubsetOrdering
  <2> QED
    BY <1>2, <2>1
<1> QED
  BY <1>3

\* A nonempty set is its pick and a smaller set.
LEMMA PickRest ==
    ASSUME NEW S, NEW s \in SUBSET S, s # {}
    PROVE  /\ Pick(s) \in s /\ Pick(s) \in S
           /\ s \ {Pick(s)} \in SUBSET S
           /\ s \ {Pick(s)} \subseteq s /\ s \ {Pick(s)} # s
<1>1. Pick(s) \in s
  BY DEF Pick
<1> QED
  BY <1>1

\* A change of one weight by d changes the sums of the sets it is in by d.
LEMMA SumsDiffer ==
    ASSUME NEW S, IsFiniteSet(S), NEW w \in [S -> Int], NEW v \in [S -> Int],
           NEW h, Sums(h, w, S), NEW k, Sums(k, v, S),
           NEW i, NEW d \in Int,
           \A x \in S : v[x] = IF x = i THEN w[x] + d ELSE w[x]
    PROVE  \A s \in SUBSET S :
              /\ h[s] \in Int
              /\ k[s] = h[s] + (IF i \in s THEN d ELSE 0)
<1> DEFINE Good(s) == /\ h[s] \in Int
                      /\ k[s] = h[s] + (IF i \in s THEN d ELSE 0)
           Bad == {s \in SUBSET S : ~Good(s)}
<1> SUFFICES ASSUME Bad # {} PROVE FALSE
  OBVIOUS
<1>1. PICK s \in Bad : \A t \in Bad : t \subseteq s => t = s
  <2>1. Bad \in SUBSET SUBSET S
    OBVIOUS
  <2> HIDE DEF Bad
  <2> QED
    BY <2>1, SmallestSubset
<1>2. s \in SUBSET S /\ ~Good(s)
  OBVIOUS
<1>3. \A t \in SUBSET S : t \subseteq s /\ t # s => Good(t)
  BY <1>1
<1>4. s # {}
  <2>1. s = {} => h[s] = 0 /\ k[s] = 0
    BY <1>2 DEF Sums
  <2> QED
    BY <1>2, <2>1
<1> DEFINE x == Pick(s)
           r == s \ {Pick(s)}
<1>5. /\ x \in s /\ x \in S /\ r \in SUBSET S /\ r = s \ {x}
      /\ h[s] = w[x] + h[r] /\ k[s] = v[x] + k[r]
      /\ Good(r)
  <2>1. x \in s /\ x \in S /\ r \in SUBSET S /\ r \subseteq s /\ r # s
    BY <1>2, <1>4, PickRest
  <2>2. h[s] = w[x] + h[r] /\ k[s] = v[x] + k[r]
    BY <1>2, <1>4 DEF Sums
  <2> QED
    BY <1>3, <2>1, <2>2
<1>6. w[x] \in Int /\ v[x] = IF x = i THEN w[x] + d ELSE w[x]
  BY <1>5
<1>7. i \in r <=> i \in s /\ x # i
  BY <1>5
<1> HIDE DEF x, r, Bad
<1>8. h[s] \in Int
  BY <1>5, <1>6
<1>9. k[s] = h[s] + (IF i \in s THEN d ELSE 0)
  BY <1>5, <1>6, <1>7
<1> QED
  BY <1>2, <1>8, <1>9

\* There are such sums.
LEMMA SumsExist ==
    ASSUME NEW S, IsFiniteSet(S), NEW w \in [S -> Int]
    PROVE  \E h : Sums(h, w, S)
<1> DEFINE Bad == {s \in SUBSET S : ~\E h : Sums(h, w, s)}
           wit(s) == CHOOSE h : Sums(h, w, s)
<1>1. ASSUME Bad # {}
      PROVE  FALSE
  <2>1. PICK s \in Bad : \A t \in Bad : t \subseteq s => t = s
    <3>1. Bad \in SUBSET SUBSET S
      OBVIOUS
    <3> HIDE DEF Bad
    <3> QED
      BY <1>1, <3>1, SmallestSubset
  <2>2. s \in SUBSET S
    OBVIOUS
  <2>3. ASSUME NEW t \in SUBSET s, t # s
        PROVE  Sums(wit(t), w, t)
    <3>1. t \in SUBSET S /\ t \notin Bad
      BY <2>1, <2>2, <2>3
    <3>2. \E h : Sums(h, w, t)
      BY <3>1
    <3> QED
      BY <3>2
  <2> DEFINE val(t) == wit(t)[t]
             top == IF s = {} THEN 0
                    ELSE w[Pick(s)] + val(s \ {Pick(s)})
             g == [t \in SUBSET s |-> IF t = s THEN top ELSE val(t)]
  <2>4. ASSUME NEW t \in SUBSET s, NEW r \in SUBSET t, t # s
        PROVE  wit(t)[r] = val(r)
    <3>1. Sums(wit(t), w, t) /\ Sums(wit(r), w, r)
      BY <2>3, <2>4
    <3>2. [x \in r |-> w[x]] \in [r -> Int] /\ IsFiniteSet(r)
      BY <2>2, <2>4, FS_Subset
    <3> HIDE DEF wit
    <3>3. PICK h : h = wit(t)
      OBVIOUS
    <3>4. PICK k : k = wit(r)
      OBVIOUS
    <3> DEFINE u == [x \in r |-> w[x]]
               hr == [q \in SUBSET r |-> h[q]]
    <3>5. Sums(hr, u, r)
      <4>1. ASSUME NEW q \in SUBSET r
            PROVE  hr[q] = IF q = {} THEN 0 ELSE u[Pick(q)] + hr[q \ {Pick(q)}]
        <5>1. q \in SUBSET t
          BY <2>4
        <5>2. h[q] = IF q = {} THEN 0 ELSE w[Pick(q)] + h[q \ {Pick(q)}]
          BY <3>1, <3>3, <5>1 DEF Sums
        <5>3. q # {} => Pick(q) \in r /\ q \ {Pick(q)} \in SUBSET r
          BY PickRest
        <5> QED
          BY <5>2, <5>3
      <4> QED
        BY <4>1 DEF Sums
    <3>6. Sums(k, u, r)
      <4>1. ASSUME NEW q \in SUBSET r, q # {}
            PROVE  u[Pick(q)] = w[Pick(q)]
        BY <4>1, PickRest
      <4>2. k = [q \in SUBSET r |-> IF q = {} THEN 0
                                   ELSE w[Pick(q)] + k[q \ {Pick(q)}]]
        BY <3>1, <3>4 DEF Sums
      <4>3. [q \in SUBSET r |-> IF q = {} THEN 0
                                   ELSE w[Pick(q)] + k[q \ {Pick(q)}]]
            = [q \in SUBSET r |-> IF q = {} THEN 0
                                   ELSE u[Pick(q)] + k[q \ {Pick(q)}]]
        <5> HIDE DEF u
        <5> QED
          BY <4>1
      <4> HIDE DEF u
      <4> QED
        BY <4>2, <4>3 DEF Sums
    <3> HIDE DEF u, hr
    <3>7. k[r] = hr[r]
      <4>1. u \in [r -> Int]
        BY <3>2 DEF u
      <4>2. \A x \in r : u[x] = IF x = {} THEN u[x] + 0 ELSE u[x]
        BY <4>1
      <4>3. hr[r] \in Int /\ k[r] = hr[r] + (IF {} \in r THEN 0 ELSE 0)
        BY <3>2, <3>5, <3>6, <4>1, <4>2, SumsDiffer
      <4> QED
        BY <4>3
    <3> QED
      BY <3>3, <3>4, <3>7 DEF hr
  <2>5. Sums(g, w, s)
    <3>1. ASSUME NEW t \in SUBSET s
          PROVE  g[t] = IF t = {} THEN 0 ELSE w[Pick(t)] + g[t \ {Pick(t)}]
      <4>1. t # {} => /\ t \ {Pick(t)} \in SUBSET t
                      /\ t \ {Pick(t)} # t /\ t \ {Pick(t)} # s
        BY PickRest
      <4>2. CASE t = s
        BY <4>1, <4>2
      <4>3. CASE t # s
        <5>1. Sums(wit(t), w, t)
          BY <2>3, <4>3
        <5>2. wit(t)[t] = IF t = {} THEN 0
                          ELSE w[Pick(t)] + wit(t)[t \ {Pick(t)}]
          <6> HIDE DEF wit
          <6> QED
            BY <5>1 DEF Sums
        <5>3. t # {} => wit(t)[t \ {Pick(t)}] = val(t \ {Pick(t)})
          BY <2>4, <4>1, <4>3
        <5>4. g[t] = val(t)
          BY <4>3
        <5>5. t # {} => g[t \ {Pick(t)}] = val(t \ {Pick(t)})
          BY <4>1
        <5> HIDE DEF wit
        <5> QED
          BY <5>2, <5>3, <5>4, <5>5
      <4> QED
        BY <4>2, <4>3
    <3>2. g = [t \in SUBSET s |-> g[t]]
      OBVIOUS
    <3> HIDE DEF g
    <3>3. [t \in SUBSET s |-> g[t]]
            = [t \in SUBSET s |-> IF t = {} THEN 0
                                  ELSE w[Pick(t)] + g[t \ {Pick(t)}]]
      BY <3>1
    <3> QED
      BY <3>2, <3>3 DEF Sums
  <2>6. \E h : Sums(h, w, s)
    <3> HIDE DEF g
    <3> QED
      BY <2>5
  <2> QED
    BY <2>1, <2>6
<1> QED
  BY <1>1

\* Weights of nothing add up to nothing.
LEMMA SumsNothing ==
    ASSUME NEW S, IsFiniteSet(S), NEW w \in [S -> {0}], NEW h, Sums(h, w, S)
    PROVE  h[S] = 0
<1> DEFINE Bad == {s \in SUBSET S : h[s] # 0}
<1>1. ASSUME Bad # {}
      PROVE  FALSE
  <2>1. PICK s \in Bad : \A t \in Bad : t \subseteq s => t = s
    <3>1. Bad \in SUBSET SUBSET S
      OBVIOUS
    <3> HIDE DEF Bad
    <3> QED
      BY <1>1, <3>1, SmallestSubset
  <2>2. s \in SUBSET S /\ h[s] # 0
    OBVIOUS
  <2>3. s # {}
    BY <2>2 DEF Sums
  <2>4. /\ Pick(s) \in S
        /\ s \ {Pick(s)} \in SUBSET S
        /\ s \ {Pick(s)} \subseteq s /\ s \ {Pick(s)} # s
    BY <2>2, <2>3, PickRest
  <2>5. h[s] = w[Pick(s)] + h[s \ {Pick(s)}]
    BY <2>2, <2>3 DEF Sums
  <2>6. h[s \ {Pick(s)}] = 0
    BY <2>1, <2>4
  <2> QED
    BY <2>2, <2>4, <2>5, <2>6
<1> QED
  BY <1>1

----------------------------------------------------------------------------
(* Conservation of money.                                                   *)

\* What a user was charged for each invoice, and what that adds up to.
Owed(u) == [i \in Invoices |-> Amount[i] * Charged(u, i)]

\* What u has left and what u was charged make up the opening balance.
Conserved(u) ==
    \A h : Sums(h, Owed(u), Invoices) => balance[u] + h[Invoices] = Opening[u]

\* While Begin succeeds and nobody else writes, the balance read is fresh,
\* which is what keeps the money of everybody together.
MoneyInv ==
    /\ ServiceInv
    /\ faults["begin"] = 0 /\ updates = 0
         => MoneyFresh /\ \A u \in Users : Conserved(u)

\* Amounts and openings are whole cents, so that columns round nothing.
ExactCents ==
    /\ \A i \in Invoices : InWholeCents(i)
    /\ \A u \in Users : Cents(Opening[u]) = Opening[u]

\* What is owed is a function to the integers.
LEMMA OwedType ==
    ASSUME ConsumerInv, NEW u \in Users
    PROVE  Owed(u) \in [Invoices -> Int]
<1>1. ASSUME NEW i \in Invoices
      PROVE  Amount[i] * Charged(u, i) \in Int
  <2>1. Amount[i] \in Int /\ Charged(u, i) \in Int
    BY HeldTypes, EventsAssumption DEF Charged
  <2> QED
    BY <2>1
<1> QED
  BY <1>1 DEF Owed

\* The sum of the property is the sum of what is owed.
LEMMA TotalOwed ==
    ASSUME ConsumerInv, IsFiniteSet(Invoices), NEW u \in Users
    PROVE  \E h : /\ Sums(h, Owed(u), Invoices)
                  /\ MapThenSumSet(LAMBDA i : Amount[i] * Charged(u, i), Invoices)
                       = h[Invoices]
<1> DEFINE Iter(h) ==
             h = [s \in SUBSET Invoices |->
                    IF s = {} THEN 0
                    ELSE Amount[Pick(s)] * Charged(u, Pick(s)) + h[s \ {Pick(s)}]]
<1>1. ASSUME NEW h
      PROVE  Sums(h, Owed(u), Invoices) <=> Iter(h)
  <2>1. [s \in SUBSET Invoices |->
           IF s = {} THEN 0 ELSE Owed(u)[Pick(s)] + h[s \ {Pick(s)}]]
        = [s \in SUBSET Invoices |->
             IF s = {} THEN 0
             ELSE Amount[Pick(s)] * Charged(u, Pick(s)) + h[s \ {Pick(s)}]]
    <3>1. ASSUME NEW s \in SUBSET Invoices, s # {}
          PROVE  Owed(u)[Pick(s)] = Amount[Pick(s)] * Charged(u, Pick(s))
      BY <3>1, PickRest DEF Owed
    <3> QED
      BY <3>1
  <2> QED
    BY <2>1 DEF Sums
<1>2. \E h : Sums(h, Owed(u), Invoices)
  BY OwedType, SumsExist
<1>3. Iter(CHOOSE h : Iter(h))
  BY <1>1, <1>2
<1>4. MapThenSumSet(LAMBDA i : Amount[i] * Charged(u, i), Invoices)
        = (CHOOSE h : Iter(h))[Invoices]
  BY Zenon DEF MapThenSumSet, MapThenFoldSet, Pick
<1> QED
  BY <1>1, <1>3, <1>4

\* Nothing is owed at the start.
LEMMA InitMoney ==
    ASSUME IsFiniteSet(Invoices), ExactCents
    PROVE  Init => MoneyInv
<1> SUFFICES ASSUME Init PROVE MoneyInv
  OBVIOUS
<1>1. MoneyFresh
  BY DEF Init, ConsumerInit, MoneyFresh, ExactCents, HoldSteps
<1>2. ASSUME NEW u \in Users, NEW h, Sums(h, Owed(u), Invoices)
      PROVE  balance[u] + h[Invoices] = Opening[u]
  <2>1. Owed(u) \in [Invoices -> {0}]
    BY EventsAssumption DEF Init, ConsumerInit, Owed, Charged
  <2>2. h[Invoices] = 0
    BY <1>2, <2>1, SumsNothing
  <2>3. balance[u] = Opening[u] /\ Opening[u] \in Nat
    BY AccountsAssumption DEF Init, ConsumerInit
  <2> QED
    BY <2>2, <2>3
<1> QED
  BY <1>1, <1>2, InitService DEF MoneyInv, Conserved

\* A hold moves its amount from the balance to what is owed.
LEMMA HoldConserves ==
    ASSUME IsFiniteSet(Invoices), ConsumerInv, ConsumerInv', ChargesOne, TakesMoney,
           Current.user \in Users, Current.invoice \in Invoices,
           NEW u \in Users, Conserved(u)
    PROVE  Conserved(u)'
<1>1. PICK m \in Invoices, x \in Users : m = Current.invoice /\ x = Current.user
  OBVIOUS
<1>2. PICK w \in [Invoices -> Int] : w = Owed(u)
  BY OwedType
<1>3. PICK v : v = Owed(u)'
  OBVIOUS
<1>4. PICK b \in Int, c \in Int, d \in Int :
        b = balance[u] /\ c = balance'[u] /\ d = (IF u = x THEN Amount[m] ELSE 0)
        /\ c = b - d
  <2>1. balance[u] \in Int /\ Amount[m] \in Int
    BY EventsAssumption DEF ConsumerInv, ConsumerTypeOK
  <2>2. balance' = [balance EXCEPT ![x] = @ - Amount[m]]
    BY <1>1 DEF TakesMoney
  <2>3. balance \in [Users -> Int]
    BY DEF ConsumerInv, ConsumerTypeOK
  <2>4. balance'[u] = balance[u] - (IF u = x THEN Amount[m] ELSE 0)
    BY <2>1, <2>2, <2>3
  <2> QED
    BY <2>1, <2>4
<1>5. ASSUME NEW i \in Invoices
      PROVE  v[i] = IF i = m THEN w[i] + d ELSE w[i]
  <2>1. PICK a \in Int, n \in Nat :
          a = Amount[i] /\ n = Charged(u, i) /\ w[i] = a * n
    BY <1>2, HeldTypes, EventsAssumption DEF Owed, Charged
  <2>2. v[i] = a * Charged(u, i)'
    BY <1>3, <2>1 DEF Owed
  <2>3. Charged(u, i)' = IF u = x /\ i = m THEN n + 1 ELSE n
    BY <1>1, <2>1 DEF ChargesOne
  <2>4. a * (n + 1) = a * n + a
    OBVIOUS
  <2> QED
    BY <1>4, <2>1, <2>2, <2>3, <2>4
<1>6. v \in [Invoices -> Int]
  <2>1. v = [i \in Invoices |-> v[i]]
    BY <1>3 DEF Owed
  <2> QED
    BY <1>5, <2>1
<1>7. ASSUME NEW h, Sums(h, v, Invoices)
      PROVE  c + h[Invoices] = Opening[u]
  <2>1. PICK k : Sums(k, w, Invoices)
    BY SumsExist
  <2>2. k[Invoices] \in Int /\ h[Invoices] = k[Invoices] + d
    <3>1. \A i \in Invoices : v[i] = IF i = m THEN w[i] + d ELSE w[i]
      BY <1>5
    <3>2. \A s \in SUBSET Invoices : /\ k[s] \in Int
                                      /\ h[s] = k[s] + (IF m \in s THEN d ELSE 0)
      BY <1>6, <1>7, <2>1, <3>1, SumsDiffer
    <3> QED
      BY <3>2
  <2>3. b + k[Invoices] = Opening[u]
    BY <1>2, <1>4, <2>1 DEF Conserved
  <2> QED
    BY <1>4, <2>2, <2>3
<1> QED
  BY <1>3, <1>4, <1>7 DEF Conserved

\* Every step keeps the sum, as long as Begin never failed and nobody else
\* wrote a balance.
LEMMA NextMoney ==
    ASSUME IsFiniteSet(Invoices), ExactCents
    PROVE  MoneyInv /\ [Next]_serviceVars => MoneyInv'
<1> SUFFICES ASSUME MoneyInv, [Next]_serviceVars,
                    faults'["begin"] = 0, updates' = 0
             PROVE  MoneyFresh' /\ \A u \in Users : Conserved(u)'
  BY NextService DEF MoneyInv
<1>1. ServiceInv /\ ServiceInv' /\ ConsumerInv /\ ConsumerInv'
  BY NextService DEF MoneyInv, ServiceInv
<1>2. faults["begin"] = 0 /\ updates = 0 /\ ~Fault("begin")
  <2>1. faults["begin"] \in Nat /\ updates \in Nat /\ faults \in [FaultKinds -> Nat]
    BY <1>1, ServiceAssumption DEF ServiceInv, ConsumerInv, BrokerTypeOK, FaultKinds
  <2>2. ~Fault("begin")
    BY <2>1 DEF Fault, FaultKinds
  <2>3. UNCHANGED faults \/ \E kind \in FaultKinds : Fault(kind)
    BY DEF Next, InvoiceEventArrives, UpdateUser, brokerVars, ProducerSends,
       DeliverUser, ResendUser, DropUser, Consume, ConsumerNext, ConsumerStep,
       Receive, GetInvestor, CheckHeld, BeginHold, InsertHold, UpdateBalance,
       CommitHold, CheckFunded, DeleteHold, Outbound, MarkAndCommit,
       CommitInBackground, UserCrash, FaultKinds, serviceVars
  <2>4. faults["begin"] = 0
    BY <2>1, <2>3 DEF Fault, FaultKinds
  <2>5. updates = 0
    BY <2>1 DEF Next, InvoiceEventArrives, UpdateUser, ProducerSends, Consume,
       serviceVars
  <2> QED
    BY <2>2, <2>4, <2>5
<1>3. MoneyFresh /\ \A u \in Users : Conserved(u)
  BY <1>2 DEF MoneyInv
<1>4. ASSUME UNCHANGED <<balance, held, spent>> \/ (ChargesStay /\ UNCHANGED balance),
             NEW u \in Users
      PROVE  Conserved(u)'
  <2>1. Owed(u)' = Owed(u)
    BY <1>4 DEF Owed, Charged, ChargesStay
  <2> QED
    BY <1>3, <1>4, <2>1 DEF Conserved
<1>5. CASE Consume
  <2>1. /\ MoneyFresh'
        /\ \/ ChargesStay /\ UNCHANGED balance
           \/ /\ ChargesOne /\ TakesMoney
              /\ Current.user \in Users /\ Current.invoice \in Invoices
    BY <1>1, <1>2, <1>3, <1>5, MoneyMoves DEF Consume, LogsStay, ExactCents
  <2> QED
    BY <1>1, <1>3, <1>4, <2>1, HoldConserves
<1>6. CASE InvoiceEventArrives \/ ProducerSends \/ UNCHANGED serviceVars
  <2>1. UNCHANGED <<accounts, balance, held, spent, uPc, uRead, uTx, uPos>>
    BY <1>6 DEF InvoiceEventArrives, ProducerSends, serviceVars, userVars, store
  <2>2. uPc # "poll" => Current' = Current
    <3>1. uPc # "poll" => uPos \in 1 .. Len(invoiceTopic)
      BY <1>1 DEF ConsumerInv, InHand, ConsumerTypeOK, BrokerTypeOK
    <3>2. \A k \in 1 .. Len(invoiceTopic) : invoiceTopic'[k] = invoiceTopic[k]
      <4>1. ASSUME InvoiceEventArrives
            PROVE  \A k \in 1 .. Len(invoiceTopic) : invoiceTopic'[k] = invoiceTopic[k]
        <5>1. PICK e \in WellFormed : invoiceTopic' = Append(invoiceTopic, e)
          BY <4>1 DEF InvoiceEventArrives
        <5>2. e \in InvoiceEvents /\ invoiceTopic \in Seq(InvoiceEvents)
          BY <1>1, WellFormedEvents DEF ConsumerInv, BrokerTypeOK
        <5> QED
          BY <5>1, <5>2
      <4>2. ASSUME ProducerSends \/ UNCHANGED serviceVars
            PROVE  invoiceTopic' = invoiceTopic
        BY <4>2 DEF ProducerSends, DeliverUser, ResendUser, DropUser, serviceVars,
           brokerVars
      <4> QED
        BY <1>6, <4>1, <4>2
    <3> QED
      BY <2>1, <3>1, <3>2 DEF Current
  <2>3. MoneyFresh'
    BY <1>3, <2>1, <2>2 DEF MoneyFresh, HoldSteps
  <2> QED
    BY <1>4, <2>1, <2>3
<1>7. ~\E u \in Users, b \in NewBalances : UpdateUser(u, b)
  BY <1>2 DEF UpdateUser
<1> QED
  BY <1>5, <1>6, <1>7 DEF Next

\* Money moves from a balance into holds and nowhere else: what a user has
\* left and what he was charged add up to what the account was opened with,
\* under redelivery, restarts, failing statements and commits whose outcome
\* is unknown, for any number of users and invoices, as long as every Begin
\* succeeded, nobody else wrote the balance, and amounts and opening
\* balances are whole cents.
THEOREM MoneyConserved ==
    ASSUME IsFiniteSet(Invoices), ExactCents
    PROVE  Spec => []Conservation
<1>1. MoneyInv => Conservation
  <2> SUFFICES ASSUME MoneyInv, faults["begin"] = 0, updates = 0, NEW u \in Users
               PROVE  balance[u]
                        + MapThenSumSet(LAMBDA i : Amount[i] * Charged(u, i), Invoices)
                      = Opening[u]
    BY DEF Conservation
  <2>1. PICK h : /\ Sums(h, Owed(u), Invoices)
                 /\ MapThenSumSet(LAMBDA i : Amount[i] * Charged(u, i), Invoices)
                      = h[Invoices]
    BY TotalOwed DEF MoneyInv, ServiceInv
  <2> QED
    BY <2>1 DEF MoneyInv, Conserved
<1>2. Init => MoneyInv
  BY InitMoney
<1>3. MoneyInv /\ [Next]_serviceVars => MoneyInv'
  BY NextMoney
<1> QED
  BY <1>1, <1>2, <1>3, PTL DEF Spec
=============================================================================
