# Verification of ah-microservices

This directory models the services of ah-microservices: how the invoices service
(`services/invoices`, Node) and the users service (`services/users`, Go) fund an
invoice through two Kafka topics, each with a database of its own; how the
accounts behind it are made and changed; and what the API gateway
(`services/apigateway`) tells the clients of both.  It holds TLA+ modules,
configurations for the model checker TLC, and proofs checked by TLAPS.

## 1. The system

### Components

| Component | Source | State | Operations |
| --- | --- | --- | --- |
| invoices controller | `invoices/src/api/controllers/invoice.js` | table `invoices`: provider, investor, amount, status | `create`, `get`, `fund` (gRPC) |
| invoices handlers | `invoices/src/api/consumers/*.js` | handlers in flight | `balanceReserved`, `insufficientBalance`, `funderNotFound` |
| invoices producers | `invoices/src/api/producers/*.js` | - | `invoiceCreated`, `invoiceUpdated`, `reservationNotFound` |
| invoices start-up | `invoices/src/app.js` | step of the start, process alive or not | `initKafkaProducer`, `initKafkaConsumer`, `initGRPCServer`, exit |
| Kafka consumer (JS) | `core/js/kafka-consumer.js` | ready, position, offset of the group | `connect`, `dataHandler`, `commit` |
| Kafka producer (JS) | `core/js/kafka-producer.js` | ready, local queue of librdkafka | `connect`, `produce`, delivery report |
| users consumer | `users/events/consumer.go`, `init.go` | position, marked and committed offset | `Listen`, `parseEvent` |
| users controllers | `users/user/controllers.go`, `models.go` | tables `users`, `held_balance`; one session | `SortConsumedMessage`, `pendingFund`, `holdBalance`, `funded` |
| users producer | `users/events/producer.go` | channel of sarama's AsyncProducer | `Outbound`, `HandleIncoming` |
| users gRPC server | `users/server/server.go` | table `users`, a goroutine per request | `CreateUser`, `GetUser`, `VerifyUser`, `UpdateUser` |
| Kafka | `docker-compose.yml` | topics `invoice`, `user`, one partition each | external |
| API gateway | `apigateway/src`, `core/js/gateway.js` | requests that wait for an answer | forwards calls, deadline of two seconds |
| gRPC-HTTP gateway | `grpc-gateway` | - | HTTP to gRPC |
| users start-up | `users/main.go`, `users/db/db.go` | - | sequential initialisation |
| configuration, logging, tests, CI, monitoring | `*/config*`, `core/js/log.js`, `e2e-tests`, `scripts`, `monitoring` | - | - |

### How they interact

    client --fund--> gateway --fund, two seconds--> invoices: new -> pending_fund
           invoices --InvoiceUpdated(pending_fund)--> users: hold the amount
           users --BalanceReserved--> invoices: pending_fund -> funded
                 --InsufficientBalance, FunderNotFound--> pending_fund -> new
           invoices --InvoiceUpdated(funded)--> users: settle the hold
           invoices --ReservationNotFound--> users: logged, nothing else

Four things make this hard to test.

* *Interleaving.* `fund` reads the row in one promise and writes it in another
  (`invoice.js:73`, `:85`); `dataHandler` starts a handler for every message
  without waiting for the last (`kafka-consumer.js:46`); `UpdateUser` writes the
  balances the consumer has read (`server.go:169`, `controllers.go:75`, `:179`);
  `CreateUser` looks an e-mail up and inserts it in two statements
  (`server.go:85`, `:99`).
* *Partial failure.* Every handler changes a database and then sends an event;
  either can fail alone, `Commit` can fail after it took effect
  (`controllers.go:187`), and the error of `Begin` is not looked at (`:166`).
* *Delivery.* A producer answers before anything is sent; a message may be lost
  after the retries, written twice, or, after a restart, read again from an
  older offset.
* *Time.*  The gateway gives a call up after two seconds and the service goes on
  (`gateway.js:25`); the Kafka clients of a starting process have one second and
  three to become ready (`kafka-producer.js:29`, `kafka-consumer.js:38`), and the
  consumer hands out messages before anybody has looked.  A process that was not
  ready in time ends; that it is started again is an assumption about the
  deployment, since `docker-compose.yml` sets no restart policy.

What makes each part correct: the users service holds money once per user and
invoice, never says it did when it did not, never overdraws an account by a
hold, and neither makes nor loses money; the invoices service never lets a
provider invest, keeps status and investor consistent, and funds an invoice only
with money held; together they charge exactly the investor of a funded invoice,
exactly once, and every accepted call is resolved.  The gRPC server makes one account per
e-mail whoever races, and answers with what is in the table.  Clients of the
gateway are all told something, and what they are told is true.

## 2. The modules

| Module | What it is |
| --- | --- |
| `FundingEvents` | the events, the two topics, the producers' buffers, the faults of the environment and their budget |
| `UserConsumer` | `Listen`, the controllers, `users` and `held_balance`, the offset, restarts |
| `UserService` | `UserConsumer` with `UpdateUser` (any balance, negative ones too), its producer, and *any* invoices service: every well-formed event in any order |
| `InvoiceService` | `create`, `fund`, the three handlers, the JavaScript consumer, restarts |
| `Funding` | the two services and the broker composed; the safety and liveness properties of the saga |
| `FundingSaga` | the abstract specification: one program, no messages; `Funding` is checked to implement it |
| `InvoiceApp` | the start of an invoices process: two Kafka clients, their timers, exit and restart |
| `Gateway` | forwarding, deadlines, requests lost on the way, restarts of the gateway; it knows nothing of the service |
| `InvoiceApi` | `Funding`, `Gateway` and `InvoiceApp` composed: what the clients of create and fund see |
| `UserServer` | the gRPC methods of the users service on table `users`, statement by statement |
| `UserApi` | `UserServer` behind an instance of `Gateway` |
| `MCUserService`, `MCFunding`, `MCInvoiceApi`, `MCUserApi` | values of the constants for TLC; the `.cfg` files are named after them |
| `UserConsumerProofs`, `UserServiceProofs`, `UserOffsetProofs`, `FundingProofs`, `FundingSagaProofs`, `InvoiceApiProofs`, `UserServerProofs`, `UserApiProofs` | theorems and proofs |

### State and code

*Topics and buffers* (`FundingEvents`).  `invoiceTopic` and `userTopic` are the
logs; `invoiceOut` and `userOut` are what `produce()` and `Outbound` have put
into the client library.  `DeliverX` appends the oldest buffered message,
`ResendX` appends it and keeps it (lost acknowledgement), `DropX` gives up.
`faults` counts each kind of fault against `FaultLimit`, which bounds them in
the runs; the theorems hold for every `FaultLimit`.

*Users service* (`UserConsumer`).  One goroutine handles one message at a time;
`uPc` is its place in the code, and each statement sent to Postgres is a step.
`held[u][i]` counts rows of `held_balance`, `spent[u][i]` rows that `funded()`
deleted (history).  The writes of an open transaction take effect in
`CommitHold` (`ApplyHold`), all together; when `Begin` failed, `uTx = "auto"`
and each takes effect at its own step.  A statement that fails may have taken
effect only in that mode or for a single `DELETE`; a failed `Commit` may have
taken effect in the database or not.  `ReturnError` is `return nil, err`:
`Listen` neither publishes nor marks and takes the next message.  `UserCrash`
can come between any two steps: it drops the buffer, the transaction and the
mark, and resumes at the committed offset.

*Invoices service* (`InvoiceService`).  A `fund` call (`call[c]`) and a handler
(an element of `jobs`) are processes whose steps are the stretches between two
promises: lookup, update, event, commit.  A handler keeps the investor of its
own instance of the row (`j.investor`), which is what it puts into its event,
and writes only the columns that differ from the instance.  `StartJob` is
enabled however many handlers are in flight, and their commits set the offset
in any order.  `FundReject` and `JobReject` are a rejected promise at any of the
steps.  `StableGroup = FALSE` is `config/index.js:8-14`: outside production a
restart gets a new group name and reads the topic from the start.
`SerialFunds = TRUE` restricts a run to clients that call `fund` one at a time
(handlers and messages still interleave).

*Start-up* (`InvoiceApp`).  `phase` is the step of `initPromise` that runs.
`ProducerTimer` and `ConsumerTimer` are the timers of `connect`: they look once
at `ready`, and go on or end the process.  `ConsumerReady` happens before its
timer, and from then on handlers start, although `phase` is still `"consumer"`
and there is no gRPC server.  The model has no clock: a timer may fire at any
point after its step began, so ready may come in time or too late.

*Gateway* (`Gateway`).  `told[r]` is what the client of request r has been told,
`wire` the requests sent and not received.  `Deadline` tells the client `"lost"`
and leaves the request alone, so a service may receive it, or finish it, much
later.  `InvoiceApi` and `UserApi` say when a request arrives and which answer
the service gives: in `InvoiceApi` a request arrives only in phase
`"serving"`, and handlers start only when the consumer is ready.

*gRPC server* (`UserServer`).  `step[r]` is the place of the goroutine of request
r.  A statement may fail, applied or not (`Disturb("statement")`);
`HoldCommits` is the consumer's write of column balance; ids come from the
sequence, which an insert that fails uses up too.  `since[r]` is history: the
states the row of an UpdateUser call has had since its own update.

*Abstractions.*  Money is counted in tenths of a cent: `Cents` is the rounding of
`numeric(26,2)`, amounts are fixed per invoice (no statement updates that column)
and `InWholeCents` says whether a held row is found again by its amount.  In
`UserServer` balances are whole cents.  guid, timestamps and log output are left
out; ids are model values, `NoId` stands for any that does not parse or is not
positive; a producer's messages keep their order and only the head of a buffer
is retried or dropped; `get` of an invoice changes nothing and is left out;
requests for an invoice that does not exist are `FundFind` on a row with status
`none`.  `WellFormed` lists what the producers of the invoices service can write.
The deletion of a hold by `funded()` and the balances it leaves alone follow the
code: money that is settled leaves the users database.  `"ok"`, `"refused"` and
`"lost"` stand for all answers of a service: success, an error of the service,
and the errors the client library makes (deadline, no connection).

The model takes `summary()` to be available on a row, which is what the tests
of the service expect; whether it is depends on the sequelize version.

## 3. What is checked

Every passing run is exhaustive within its bounds.  Deadlock is not checked:
all clients may be done, and the system then waits.

| Run | Instance | Properties |
| --- | --- | --- |
| `user_faults` | one invoice of 2 cents, one account of 3, one id without account, every sequence of three events, one `UpdateUser` that writes a debt of a cent or the opening balance, each fault of the users service once | `TypeOK`, `AtMostOneHold`, `ReservedBacked`, `AnswerBeforeCommit`, `Conservation`, `CommittedMonotone`, `OnlyUpdatesOverdraw` |
| `serial` | two invoices, two `fund` calls one at a time, no faults | `FundedPaid`, `ChargedOnce`, `NoStrandedHold`, `FundedFinal`, `ImplementsSaga` |
| `race` | one invoice, two calls at the same time; fairness | `FundedHasPayer`, `RowConsistent`, `PendingResolves` |
| `replay` | one call, with one rejected call, one rejected handler, one lost and one repeated message and one restart that replays topic `user` | `TypeOK`, `FundedHasPayer`, `RowConsistent` |
| `api_live` | one invoice, one call by an investor who can pay, cannot, or has no account, behind the gateway, from start-up, with one restart; fairness | `ReadyBeforeWork`, `FundingCompletes`, `EveryCallAnswered` |
| `api_rejected` | one invoice, two investors who can both pay it twice, two calls behind the gateway, one step of a call that rejects | `ApiTypeOK`, `AcceptedRequested`, `RefusedNotCharged` |
| `user_api` | three calls out of twelve (every method and every refusal), one account, behind the gateway where it has a route; one failing statement, one hold, one restart | `ServerTypeOK`, `OneAccountPerEmail`, `SomebodyWins`, `ReplyCurrent`, `CreateToldTruly` |
| `api_retry` | violation, one client that makes its second call when the first was answered | `FundedPaid` |
| `not_found` | violation, two calls at the same time | `NotFoundUnheld` |
| `crash_rejects` | violation, one restart of the users service | `RejectedNotHeld` |
| `update_race` | violation, one `UpdateUser` | `HoldSubtracts` |
| `rounding` | violation, an amount of a cent and a half | `AtMostOneHold` |

*Why these bounds.*  Every step of a handler concerns one user and one invoice,
so two of each are needed only where two calls meet; two calls are the least
that race, or follow each other.  Three events are enough for hold, settle,
hold again, and for a request, its repetition and a confirmation.  u1 of
`MCFunding` can pay twice, so that `ChargedOnce` is not kept by lack of money;
u2 can pay once, so that a repeated request runs into `InsufficientBalance`.
One fault of each kind already gives every combination of different kinds.
The `UpdateUser` of `user_faults` may come between the comparison of a balance
and its write, with a debt that a hold must not deepen.  In `api_rejected` both
investors may call for the one invoice, so a refused client's name may stand on
a row that is then funded with the money of the other; as they own the same,
`InvestorSymmetry` exchanges them, and the calls.
In `user_api` three calls are two that race for an e-mail and one that reads or
renames meanwhile, and there are as many free ids as calls.  The bounds are
`FaultLimit`, `MaxUpdates`, `MaxInvoiceEvents` and the sizes of the sets.

*What the passing runs show.*  With clients that fund one at a time and no
faults, the two services implement `FundingSaga`: each step that changes a
database is one step of the abstract program under its guard, so the investor of
a funded invoice is charged once and no hold is left behind.  The theorems of
`FundingSagaProofs` say the same of any number of invoices and calls, and allow
lost messages and failing steps, which the run leaves out.  With racing
calls and with faults this is not so, and what remains is `FundedHasPayer` and
`RowConsistent`.  The users service alone keeps the properties of `user_faults`
under all its faults; `Conservation` needs `Begin` to succeed and no other writer,
and `AnswerBeforeCommit` needs statements and commits to succeed, and both say so.
Whatever balance `UpdateUser` writes and whenever it does, a hold never makes a
balance negative (`OnlyUpdatesOverdraw`): the write may be stale, but its value
was compared with the amount.
For a client, "ok" means that the money was asked for and "refused" that he is
not charged by that call, even when the update behind the refusal was applied;
"lost" means nothing.  Racing `CreateUser` calls end with one account and one
client that is told so, and a reply of `UpdateUser` is never older than its
update.

*Fairness.*  `FairSpec` has weak fairness of the goroutine, of each `fund` call
once it is made, of reading topic `user`, of the handlers in flight together,
and of each producer's delivery: these are loops and callbacks the runtimes keep
running.  `ApiFair` has the same for each process as a whole, and for the
gateway's timers.  There is none for clients, faults, restarts, the start-up,
`UpdateUser` or the background commit; `EveryCallAnswered` therefore rests on the
deadline alone, and `FundingCompletes` asks for a process that is not killed.
A reader of topic `user` that never becomes ready is not excluded by fairness: it
is excluded by the guard of the calls, which are taken only in phase
`"serving"`.

### Disagreements with the documentation, comments and tests

* `api_retry`: an invoice ends funded by an investor who was not charged.
  `fund` writes by id alone after a lookup by status, and the handlers ignore
  the user of the event.  It takes no second client: the deadline of the gateway
  ends the first call for its client only.
* `not_found`: with two calls of one user in flight, the answer
  InsufficientBalance of the second resets the row before the answer
  BalanceReserved of the first is applied; the money stays held for an invoice
  that is free again, although `controllers.go:46` says the hold is looked up.
* `crash_rejects`: a request repeated after a restart is rejected while its
  money is held, because the balance is compared before the hold is looked up.
* `update_race`: the balance written by `holdBalance` is computed from a value
  read before the transaction.
* `rounding`: the invoices table stores amounts as FLOAT, `held_balance` as
  `numeric(26,2)`, and the row is looked up with the amount of the event.  For
  an amount that is not whole cents the row is never found: the money is held
  again for a repeated request and never settled.

`UserUpdated` is published on topic `user` but not listed in
`docs/events/README.md`; the invoices service ignores and commits it.
`FunderNotFound` has no key, although that file gives every event one: with one
partition per topic nothing depends on it.

### What the excluded faults break

Some properties exclude a fault on purpose, because the code does not survive it.
What happens then was looked at with TLC, with the `FaultLimit` and bounds named
here put into the configuration of a run; these are not runs of the project.

* *A second charge.* One invoice, one `fund` call, `"offset"` and `"user_crash"`
  once each: `ChargedOnce` fails. The offset of the request is not committed
  (`consumer.go:54`), the hold is settled and its row deleted
  (`controllers.go:125`), a restarted service reads the request again, finds no
  row, and holds the amount again.
* *A skipped answer.* Two invoices with a `fund` call each, a stable group,
  `"invoice_crash"` once, with `FairSpec`: `PendingResolves` fails, even when the
  process may only be killed while all calls are done and all its events are in
  the topic. The handler of the second answer finishes first and commits its
  offset (`kafka-consumer.js:57`); the restart passes over the first answer.
* *A request that is dropped.* One `fund` call, `"db"` once, with `FairSpec`:
  `PendingResolves` fails. Listen does not mark the request (`consumer.go:52`),
  and nothing in the living process reads it again.
* *A hold without its money.* `UserService` with `"begin"`, `"db"` and
  `"user_crash"` once: `Conservation` without its first condition still fails when
  BalanceReserved is answered. The insert commits by itself
  (`controllers.go:166`), the balance update fails, the row stays, and the request
  read again after the restart finds it.
* *An event that is lost,* in a producer's buffer or because the step that should
  queue it rejects: nothing repeats it, and `PendingResolves` and
  `FundingCompletes` are checked without `"drop"`, `"call"` and `"job"`.

### Mutants

For every property of every passing run there is a mutant, an operator next to
the definition it changes (`FoundNever`, `FundableAnyStatus`, `DeadlineNever`, ...),
that makes TLC report that property.  `PROJECT.json` pairs them.

## 4. What is proved

For all sets of users, invoices, calls and requests, all amounts, opening
balances and fault limits (`EventsAssumption`, `AccountsAssumption`,
`ServiceAssumption`, `InvoiceAssumption`, `ApiAssumption`, `ServerAssumption`):

| Theorem | Statement |
| --- | --- |
| `UserServiceProofs!UserTypeCorrect`, `AnswersBacked`, `HoldsAreCovered` | `Spec => []TypeOK`, `Spec => []ReservedBacked`, `Spec => OnlyUpdatesOverdraw` |
| `UserServiceProofs!OneHold` | `Spec => []AtMostOneHold`, if every amount is whole cents |
| `UserServiceProofs!MoneyConserved` | `Spec => []Conservation`, if invoices are finitely many, amounts and openings whole cents |
| `UserOffsetProofs!AnsweredFirst`, `OffsetsNeverGoBack` | `Spec => []AnswerBeforeCommit`, `Spec => CommittedMonotone` |
| `FundingProofs!TypeCorrect`, `FundedIsPaidFor`, `RowsConsistent` | `Spec => []TypeOK`, `[]FundedHasPayer`, `[]RowConsistent` |
| `FundingSagaProofs!InvestorPaid`, `NobodyPaysTwice`, `HoldsAccounted`, `FundedForGood` | `Spec => []FundedPaid`, `[]ChargedOnce`, `[]NoStrandedHold`, `FundedFinal`, if `NothingRepeated` |
| `FundingSagaProofs!ServicesImplementSaga` | `Spec => ImplementsSaga`, if `NothingRepeated` and `MoneyExact` |
| `InvoiceApiProofs!ApiTypeCorrect`, `NothingTooEarly`, `OkIsRequested`, `SagaBehindGateway` | `ApiSpec => []ApiTypeOK`, `[]ReadyBeforeWork`, `[]AcceptedRequested`, `[](FundedHasPayer /\ RowConsistent)` |
| `InvoiceApiProofs!RefusedIsFree` | `ApiSpec => []RefusedNotCharged` |
| `UserServerProofs!ServerTypeCorrect`, `OneAccount`, `Winner`, `Current` | `ServerSpec => []ServerTypeOK`, `[]OneAccountPerEmail`, `[]SomebodyWins`, `[]ReplyCurrent` |
| `UserApiProofs!ServerBehindGateway`, `ToldTruly` | `UserApiSpec => ServerSpec`, `UserApiSpec => []CreateToldTruly` |

*The consumer's invariant.* None of the properties is inductive. Two holds for
one invoice would come from an `INSERT` after a lookup that is no longer true,
so `HoldState` says what each place in the controller knows: between the lookup
and the insert there is no row; in an open transaction there is none until the
commit; in the automatic mode there is exactly one after the insert. It also
says that the balance read was at least the amount (`OnlyUpdatesOverdraw` needs
it; of the balance in the table the invariant says only that it is an integer,
since `UpdateUser` writes any) and that an answer BalanceReserved in hand has
its row. `InHand` says that a message with a user and an invoice is in hand
while a controller runs; `WellAddressed` that requests name a user.
`OutboundBacked` extends `ReservedBacked` to the answer in hand. The counting of
holds is stated for amounts of whole cents, the one case in which the lookup
finds what was inserted. That a step of the consumer keeps the invariant and
takes no charge back is a lemma (`ConsumerNextInv`) which both `UserService` and
`Funding` use. It assumes that the step leaves the logs as they are
(`LogsStay`): the actions of `UserConsumer` do not speak of the logs, and the
two modules conjoin `UNCHANGED` of them.

*Conservation.* Each step moves money only as `MoneyMoves` says: a balance falls
by the amount of an invoice exactly when that user and invoice are charged once
more. This needs the balance in hand to be the one in the column (`MoneyFresh`),
which a failing `Begin` breaks (in the automatic mode the hold may be inserted
and the balance not written) and `UpdateUser` breaks (run `update_race`), so the
invariant says what it says only while neither happened. The sum over a user's
invoices has no induction to lean on here: `SumsDiffer`, `SumsExist` and
`SumsNothing` take a smallest set for which the claim would fail, which a finite
set has, and remove one element from it.

*The offsets.* `OffsetInv` orders the three offsets (committed, marked, taken)
and says that the only request without an answer is the one a controller has in
hand; a failing statement or commit is the only way to drop it, and `faults`
remembers that.

*The saga's invariant.* `FundingInv` adds what links the services:
`OutAddressed` (buffered requests name a user), `JobsAddressed` (a handler in
its update step has an investor), `CallsChecked` (a call past the lookup is not
by the provider). `FundedHasPayer` then follows: the only step that writes
`funded` has a BalanceReserved of topic `user` at hand, which `ReservedBacked`
ties to a charge of its user, and `ChargesGrow` says that no step takes a charge
back.

*The saga when nothing is repeated.* `NothingRepeated` is: clients fund one at a
time (`SerialFunds`), no message is written twice, no process restarts. Each
part is needed: when `FaultLimit` allows run `serial` one fault of the kind
(and, for the invoices service, its investor has no account), TLC finds
`FundedPaid` and `NoStrandedHold` violated. Without the first, runs `not_found`
and `api_retry` show what happens. A second copy of a request, or one that a
restarted users service reads again, is answered InsufficientBalance although
its money is held (`crash_rejects`), and that answer sets the row free. A
refusal that a restarted invoices service reads again sets a row free that by
then waits for somebody else. What may still happen, in any number and order, is
that messages are dropped and that statements, transactions, offset commits,
calls and handlers fail.

`SerialInv` follows who acts for an invoice: the call that has written the row
and not yet asked (`CallFor`), the request that was not yet answered
(`RequestFor`), the answer whose handler has not yet written the row
(`AnswerFor`). `Alone` says that there is at most one of the three at any time,
and `Informed` that the row waits for the user it names, with the number of
charges (none or one) that its stage implies. Topics and buffers are counted as
one sequence (`Sent`, `Said`), so that delivery changes nothing and a drop only
renumbers (`Shift`); a handler counts as the message it was started for. `Owned`
ties the tables together: whoever is charged for an invoice is its investor, is
charged once, and the row waits for him or is funded. It yields `FundedPaid`,
`ChargedOnce` and `NoStrandedHold`; `Alone` yields `FundedFinal`, since a funded
row is one nobody acts for. Calls, requests and answers that are lost leave the
row pending for good: this is no violation of safety, and why `PendingResolves`
is about a system without such losses.

*The refinement.* A step of the two services is one step of `FundingSaga` or
changes nothing it can see: the insert of `create` is `Offer`, the update of
`fund` `Invest`, the commit of the transaction (also of one whose `Commit`
failed after it took effect) `Hold`, the update of a handler `Confirm` or
`Refuse`, the `DELETE` of `funded` `Settle`. The guards come from `SerialInv`,
but for two that are about money. `Hold` takes the amount from the purse, so the
balance in hand must be fresh; `Refuse` says that the investor cannot pay, when
the refusal *arrives*, so `RefusedShort` follows each refusal from the
comparison to the row, during which no balance rises. `MoneyExact` is what this
needs of the constants: natural amounts and openings of whole cents, and a
`Begin` that succeeds, since without a transaction the balance and the hold are
written in two steps. The instance of run `serial` satisfies both.

*The API.* `ApiInv` is `FundingInv` with `Started` (which client is ready in
which phase) and `Requested` (a call that is done has its event in the queue or
the topic; "ok" was told only of such a call). `StepOfFunding` shows that a step
behind the gateway is a step of `Funding`, or a `fund` call that arrives without
waiting its turn, so the saga's invariant carries over. `RefusedNotCharged`
needs to know where a charge comes from: `OnlyAsked` says that every request for
money in the topic or the buffer, and every charge, stems from a call of that
user for that invoice that is done, and `Told` that a client who was refused has
a call that failed, which no step turns into one that is done (`CallsEnd`).

*The gRPC server.* `ServerInv` says where a goroutine may stand and what it
knows there (`Placed`), that a call about to read its row again has that row's
state in its history (`Watched`), and that announced accounts have ids of their
own and keep their e-mail while nobody renames (`AccountsKept`). The index
refuses a second row with an e-mail, which is what decides a race the lookup
cannot. `UserApiInv` adds that clients were told what was answered and that
every account that is new was announced.

*Model-checked only.* Liveness (`PendingResolves`, `FundingCompletes`,
`EveryCallAnswered`): fairness and ENABLED are out of the prover's reach. The
properties of the violation runs hold of no system that allows what those runs
allow; `FundedPaid` and `AtMostOneHold`, which are violated there, are theorems
under the hypotheses above.

## 5. Not modelled, and why

* The gRPC-HTTP gateway: generated handlers, no state and no decisions.
* The start of the users service: a straight line in which every error ends the
  process; `UserCrash` and `ServerCrash` come at any point.  Shutdown, table
  creation.
* `get` of invoices: one read, no state.
* Ids of invoices or investors that do not parse (xorm then leaves the condition
  out), bodies that are not JSON, negative amounts.  Negative balances are
  modelled: `UpdateUser` writes any integer, in the theorems and in `user_faults`.
* Other writers of balances in the composed saga: `Funding` has no `UpdateUser` and
  no `CreateUser`, so purses change there by holds alone; `UserService` has the
  first, `UserServer` both.
* What nothing in the code repairs and no property claims: events lost in a
  producer's buffer, or never put there by a step that rejects, and the client
  who is told that an account could not be created although it was.  The models
  have these steps; the properties that they would break are checked without
  them, and `hazards` in `PROJECT.json` says which.
* The binary error of a subtraction of two float64 before it is rounded to cents.
* Protocol buffers, logging, monitoring, scripts and CI: no decisions.

## 6. Plan

Done, in this order: the users service and its faults (`UserConsumer`,
`UserService`); the saga (`InvoiceService`, `Funding`, `FundingSaga`); its proofs;
rounding (`Cents`); the gRPC server (`UserServer`); the gateway and the start-up
(`Gateway`, `InvoiceApp`, `InvoiceApi`, `UserApi`); the proofs about offsets, API
and server; the proofs of the serial saga and its refinement, of `Conservation` and of
`RefusedNotCharged`.

Left:

1. The JavaScript consumer alone, with a theorem about what a restart reads again
   and what it skips.
2. Weaker hypotheses for the serial saga: which restarts it survives (a users
   service that restarts between two requests, a stable consumer group).
3. Action properties of `UserServer`: what a step may never do to a row that is
   not its own.
