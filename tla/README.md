# Verification of kafkadog's order flow

TLA+ models of the services in `src/backend`, of the pages in `src/frontend` and of
the scripts that touch the topics, the TLC instances that check them, and TLAPS
proofs about each service, the cache, the retries, the pages and the whole flow.
`PROJECT.json` lists components, runs,
mutants, hazards, theorems and, under `map`, the source lines each definition
stands for.

## 1. The system

A customer's HTTP request becomes an `OrderPlaced` event; four services react to
it through Kafka topics and share nothing else.

```
gateway --orders.v1--> payment-service   --payments.v1-----> order-saga --orders.completed.v1
                   \-> inventory-service --inventory.v1---->            \--orders.cancelled.v1
                   |                  \--orders.retry.v1, orders.dlq.v1  (nobody reads them)
                   |-> order-saga
                   \-> analytics-service --analytics.snapshots.v1
   (nobody) --orders.outcome.v1--> notification-service --> emails.log
browser --POST /orders, GET /orders, GET /health--> gateway --GET--> order-saga's Map
seed-orders.ts --orders.v1     replay-orders.ts --> lists the consumer groups, and throws
```

| component | state | operations | hard behaviour | correct when |
|---|---|---|---|---|
| api-gateway (`orders.service.ts`, `health.controller.ts`) | none | `createOrder`; `getOrders`, `getOrder` proxied to order-saga; health checks | a send whose acknowledgement is lost; a read answered by any instance | an order reported created is placed; a status read is true of the order |
| dashboard (three pages) | the mounted page's React state | `handleSubmit`, `fetchOrders` and `checkServicesHealth` on timers | polls that overtake each other, replies to a page that is gone, outages in between | one purchase is one order unless an error was shown; the list catches up |
| order-saga | Map `orderStates`, per process | `handleOrderPlaced`, `handlePaymentEvent`, `handleInventoryEvent`, `checkAndFixStuckOrders`, getters | answers in any order, before their order, repeatedly; state changed before an awaited send; Map lost or elsewhere after a crash or a rebalance | status joins the two answers; outcomes are justified, exclusive, published; answered orders are decided |
| payment-service | idempotency cache, per process | `handleOrderPlaced` | check and mark apart by a delay and a send; random result | no order lost, none charged twice by one process |
| inventory-service | idempotency cache and mock stock, per process | `handleOrderPlaced`, reservation, hand-over to `RetryHandler` | several items, partial failure, simulated 20 % failure, stock refilled by a restart | promises backed by stock, every order settled |
| analytics-service | cache, counters, per process | `handleOrderPlaced`, timer `generateSnapshot` | counters and committed offset part when partitions move | never overcounts, loses no committed order |
| notification-service | cache per process; email log on disk | `handleOrderOutcome` | the log outlives the cache | every outcome mailed, once per process |
| `KafkaProducer` | connection | `sendEvent` | rejected send with unknown effect | - |
| `KafkaConsumer` | group membership (in Kafka) | `subscribe` | redelivery, revoked partitions with handlers still running, offsets committed on a timer, no first commit | at-least-once |
| `IdempotencyHandler` | bounded Map | `isDuplicate`, `markProcessed`, `cleanup`, timer | two keys per message, overflow, timer on a small Map | forgets oldest first, never invents a duplicate |
| `RetryHandler` | none | `handleFailedEvent`, `scheduleRetry`, `sendToDLQ`, `processRetryEvent` | attempts counted in messages through rejected sends and restarts | every attempt once, then the DLQ |
| `replay-orders.ts` | none | means to reset the groups' offsets of orders.v1; throws before it does | an operator who resets them otherwise meets services that lost their memory | services still agree with their committed offsets |
| `seed-orders.ts` | orders left to send | places orders | exits at the first rejected send | - |
| contracts, `create-topics.ts`, headers, deployment | - | event schemas, topics and partitions, tracing, configuration | - | - |

## 2. Modules and the code

| module | models | composes |
|---|---|---|
| `Topics` | topics as append-only sequences, `sendEvent`, ambiguous failed sends, fault budgets, `createOrder` | |
| `ConsumerGroup` | `KafkaConsumer.subscribe` over kafkajs: ownership, positions, commits, in-flight handlers, rebalance, crash; an operator's reset of the offsets of orders.v1 | extends `Topics` |
| `OrderOutcome` | what order-saga promises: orders are tracked, decided as their answers justify, announced, forgotten | stands alone |
| `OrderSaga` | `order-saga.service.ts`; implements `OrderOutcome` | extends `ConsumerGroup`, instantiates `OrderOutcome` |
| `PaymentService`, `InventoryService`, `AnalyticsService`, `NotificationService` | the services of those names; `InventoryService` holds `RetryHandler` as called there | extend `ConsumerGroup` |
| `Idempotency` | `idempotency.ts` in detail | stands alone |
| `RetryHandler` | `retry.ts` with the consumer `processRetryEvent` is written for | stands alone |
| `Dashboard` | the pages, the gateway's reads, its health checks and `createOrder`, `seed-orders.ts` | extends `OrderOutcome`, which stands for order-saga |
| `OrderFlow` | gateway, payment, inventory and saga over one log, each group with its own faults | instantiates the three services, and `OrderSaga` again as the specification it implements |
| `MC*` | constants of the runs | |
| `ConsumerGroup_proofs` | lemmas on topics, consumer groups, and the loops and sums of the services | extends `ConsumerGroup`, `TLAPS` |
| `OrderSaga_proofs`, `PaymentService_proofs`, `InventoryService_proofs`, `AnalyticsService_proofs`, `NotificationService_proofs` | the theorems about those services | extend the service and `ConsumerGroup_proofs` |
| `OrderFlow_proofs` | the theorems about the flow, from those of the services in it | extends `OrderFlow`, instantiates the proofs of payment, inventory and saga |
| `Standalone_proofs` | the theorems about `Idempotency`, `RetryHandler` and `Dashboard`, which no module composes | extends the three, whose definitions are prefixed (`CacheNext`, `RetryNext`) where names would meet |

**State.** `log` is what Kafka keeps. `group` is, per topic partition, the owner, the
next position to deliver, the committed offset and whether a resolved offset awaits
its commit (`dirty`). `inFlight` holds the messages whose handler awaits; `live` is
false once its partition was taken away. `orderStates`, `processed`, `inventory`,
`productStats` are the services' fields, one per instance, and are lost with the
process; `emails` is the log file and is not.

**Handlers.** A handler that awaits nothing before it returns is one action
(`HandleOrderPlaced`, `CountOrder`, `WriteEmail`). One that awaits is two: the part
up to the await puts the message in flight (`BeginPayment`, `BeginReservation`,
`HandleAnswer` when it goes on to publish), the rest is the second
(`AnswerOrder`, `ReserveAndAnswer`, `PublishOutcome`). Between the two come the
other instances, commits, rebalances and `FixStuckOrders`. An instance handles one
message at a time (kafkajs' default), so the delay and the send of one handler
have no other handler of the same process between them and are merged: nothing
in the process reads what the merged part changes. A crash between a send and the
rest of its handler leaves exactly what a crash just before, or a send that
completes from a revoked handler, leaves: `Rejoin` keeps a survivor's handlers
running, and an acknowledged send followed by a crash is the step and then
`Crash`, which clears the same memory.

**Replay.** `replay-orders.ts` never resets an offset: at line 35 it reads the length
of `group.members`, which kafkajs' `listGroups` does not return, and as soon as there is
a group it exits. `Replay` is therefore no step of the script. It is what an operator
may do by other means and what line 51 asks for: since Kafka refuses to reset
the offsets of a group that has members, the service is stopped, its committed offsets
of `orders.v1` (the script names four topics and resets `topics[0]`) are set to zero,
and it is started again with empty memory. It only makes the environment harsher: the
safety properties hold in spite of it, and none says that it happens or what must
follow from it.

**Refinement.** `OrderSaga` implements `OrderOutcome` under the mapping `Outcome`:
`placed` and `announced` are read off the log, `settled` is what the answers logged
so far justify, `entries` is the status each instance holds. `OrderFlow` in turn
implements `OrderSaga`, so what `Dashboard` assumes of order-saga is what the whole
flow provides.

**Pages.** React state lives in the mounted page: `Open` starts from fresh state and
makes the first request, requests of the old page are still carried out and their
replies go nowhere. A request and its reply are two steps (`Submit`, `CreateOrder`,
`ReceiveReply`; `FetchOrders`, `GetOrders`, `ReceiveOrders`; `CheckHealth`,
`CheckGateway`, `CheckAllServices`, `ReceiveHealth`), so requests overtake each other
and processes die in between. A purchase is the time between two "Create Another
Order": `tries` are the order ids the gateway draws for it.

**Abstractions.** An event is its order and its kind; ids, timestamps, amounts,
headers and trace data are left out, and so is schema validation, which accepts
every event these services produce. A rejected send may or may not have
appended (`SendUnacknowledged`). `isDuplicate` in the services is an exact memory
of offsets, as it is while fewer than `maxSize` keys are held; what happens beyond
that is `Idempotency`'s subject. The retry and the dead letter topic have one
partition. `Dashboard` shows order-saga's entries as statuses and leaves the items
of an order out. `NotificationService` takes any publisher of outcomes as its
environment, and counts a failed write of the log file as its "send" fault.
A product id that is not in the mock inventory (`Unknown`) can never be reserved;
the instances treat it like a product that has run out.
Operators called "a variant with a bug" are not part of any specification; the
mutants of `PROJECT.json` put them in the place of the real definition to show that
each property can fail.

## 3. The runs

Each passing run explores its whole state space. The runs of payment, inventory,
analytics, notification and the retries set `CHECK_DEADLOCK FALSE`: once every event
is handled and the fault budget is spent, they are quiet by design. The saga can
always be asked to repair its orders, the cache's timer always fires and a customer
can always open another page, so the other runs check for deadlock.

The type invariant of a module is checked as a conjunct of the invariant the run
names: `SagaInvariant`, which also holds `StatusJoinsAnswers` and `OutcomeJustified`,
`PaymentInvariant`, `InventoryInvariant`, `AnalyticsInvariant`,
`NotificationInvariant`, `CacheInvariant`, `RetryInvariant`, `PageInvariant`.

| run | instance | shows |
|---|---|---|
| `saga_faults` | 1 order, 2 instances of a group that never committed, 1 answer per service, crash, rebalance, lost send and an operator's reset (`Replay`) once each | types, join, justified and exclusive outcomes, decisions published and stable, the inductive invariant, `OrderOutcome` implemented; answered orders decided, under fairness (152 k states) |
| `payment_faults` | 2 orders, one authorized and one declined, 2 instances, 2 rebalances, crash, lost send, replay | what is marked or committed was answered; one charge per process; every order answered, under fairness (185 k) |
| `inventory_faults` | 2 orders for the last apples, 2 instances, crash, rebalance, replay, no attempts left | promises are backed and within the stock ever put on the shelves; one reservation per process; committed orders settled; every order settled, under fairness (168 k) |
| `analytics_faults` | 3 orders, 2 partitions, 2 instances, each fault once | rankings never overcount; committed orders are counted; every order is counted by some instance until one crashes, under fairness (273 k) |
| `notification_faults` | 3 outcomes, 2 instances, 2 rebalances, crash, failed write | one email per process; committed outcomes mailed; every outcome mailed, under fairness (89 k) |
| `idempotency_full` | 5 messages in 2 partitions, size 7, clock 0..2 | a key once and never above the size; no false duplicate; oldest forgotten first; the last mark remembered (85 k) |
| `flow_faults` | 1 order that wants one product twice, payment crash, inventory rebalance and lost send | one outcome; completed orders hold stock; a decision changes only with a contradiction; the flow implements `OrderSaga`; tracked orders are decided, under fairness (162 k) |
| `retry_attempts` | 2 events, 2 attempts, delays capped at the second, 1 rejected send, 1 restart, a group that has committed or has not | no event dies before its attempts; attempts are not multiplied; delays never shrink; retries end, unless a restart before the first commit skips them, under fairness (281 k) |
| `dashboard_pages` | 2 orders, one of them processed, 2 instances of order-saga, 1 other service, 1 seeded order, 1 fault of any kind | a created order is placed; one order per purchase; what is shown is true and stays; the list catches up, under fairness; a single outage is never shown (382 k) |
| `saga_redelivery` | 1 rebalance | violation: a decision is undone |
| `idempotency_timer` | size 8, timer | violation: the timer empties a Map below its target |
| `flow_decided` | no fault but the simulated one | violation: an order stays undecided for ever |

**Bounds.** `MaxFaults` (per kind) bounds crashes, rebalances, rejected sends and
replays; `MaxAnswers`, `MaxOutcomes` the environment's events about an order;
`ResultsOf` what the random payment result of an order may be (either in
`flow_faults`, a fixed one in `payment_faults`, where no property tells them apart);
`MaxSnapshots` the rankings; `MaxRejections` and `MaxCrashes` the retries' faults;
`MaxFetches` and `MaxChecks` the requests of a polling page that are out at once,
`Seeds` the orders of the script, `Consumed` the orders order-saga gets to see;
`MaxTime` the clock. One partition puts the orders behind each other, so that a
commit covers several and a redelivery repeats several; `analytics_faults` has two,
so that two instances work at once. One order is enough for the saga, whose entries
do not touch each other; two are needed where orders share stock or a partition.
Where two rebalances are allowed, a process can lose a partition and get it back. In
`Dashboard` `MaxFaults` bounds the sum: one fault separates each error a customer
sees from the others, and two requests of the orders page are the fewest that
overtake each other; a third would only be the second again. One of its orders is
never consumed, so that a list lacks an order that is placed. Two attempts of a
retry are the fewest between which a count can be lost, and its delays, 20 and 40
capped at 41, differ once by the exponent and once by the cap. Two instances are the
fewest between which a partition can move. A Map of seven with five messages (ten
keys) overflows, is trimmed to five and meets forgotten messages; its clock lets
several entries share a time, as in one millisecond.

**Properties that hold only until a fault** say so in their formula:
`CommittedWasAnswered`, `CommittedWasSettled`, `CommittedWasMailed` and
`DecisionIsPublished` until a send is rejected, `PromisesBacked` and
`CommittedWasCounted` until a process loses its memory, by a crash or for a reset,
`OneOutcome` until an upstream service does either, `EveryOrderCounted` until an
analytics process crashes. Those are the losses the code
accepts: its handlers swallow their errors and kafkajs resolves the offset all the
same. `CommittedWasAnswered` and its kind also need a group that has committed once
(`InitialCommitted = 0`): see below. `RetriesEnd` says it in its formula: without a
committed offset a restart moves the consumer to the end of the retry topic
(`fromBeginning: false`, `consumer.ts:72`) and the events ahead of it are lost; with one,
a restart loses none.

**Fairness.** Weak fairness of the handlers of every instance and partition (kafkajs
polls) and of the pending second halves (timers fire, sends settle or reject).
In `RetryHandler` the same of the consumer of the retry topic. In `Dashboard`, of the
ten-second timer of the orders page, of its requests (a fetch resolves or rejects)
and of the restart of what died, which whoever runs the system does. None for
commits, rebalances, crashes, replays, customers, upstream answers, snapshots or
`FixStuckOrders`: nothing in the code makes them happen.

## 4. Where the code and its documents disagree

With a run:

* `saga_redelivery`: README 241, "Idempotent consumers handle duplicates
  gracefully". `handleOrderPlaced` of the saga has no duplicate check and
  overwrites the entry of a decided order.
* `idempotency_timer`: the comment at `idempotency.ts:69`. Below 80 % the end of the
  slice is negative, and the timer removes entries from a Map that is too small to
  need it.
* `flow_decided`: README 97 and 235. An answer that overtakes its order across
  topics is dropped, and the order is pending for ever.

Without one, visible in the model:

* README 102-103, failed events are retried and end in the DLQ: nothing reads
  `orders.retry.v1` and `processRetryEvent` is never called. The first failure of a
  reservation publishes one event and that is all (`HandleFailedEvent` in
  `InventoryService`); `RetryHandler` shows what would happen if it were called.
* README 163 and 249-250, exponential backoff: the delay is written into the message
  as `retryAt`, and `processRetryEvent` does not wait for it (`BeginRetry`).
* README 106-109 and 257, the replay script resets the consumer offsets and shows
  "idempotency in action": `replay-orders.ts:35` throws while it lists the groups, so no
  offset is reset. Had it come to line 51, Kafka would have demanded that the services
  be stopped, and the caches that could tell a replayed order from a new one would
  have gone with their processes (`ReplayOrders`).
* The home page calls itself a service health view: one dead service makes
  `/health/services` a 503, which `checkServicesHealth` ignores, so no single outage
  is ever shown (`ServiceOutageNotShown`).
* The comments at `orders.service.ts:83` and `:108` promise placeholders for an unknown
  order and an absent order-saga: `fetchFromOrderSaga` turns every error into an
  `HttpException`, which is rethrown, so both are a 503 (`GetOrders`).
* The orders page never takes an error banner down (`ReceiveOrders`).
* The saga's outcomes go to two topics notification-service does not read
  (`OutcomeTopic` in `OrderSaga` and in `NotificationService`).
* A group that is rebalanced before its first commit skips to the end of its
  partitions (`Restart`); a payment whose send is rejected is neither answered nor
  in the DLQ (`AnswerFails`); a rejected order keeps the items reserved before the
  missing one (`ReserveItem`); each analytics instance ranks only its own partitions;
  a saga instance drops answers for orders another instance tracks (`DropAnswer`).
* In `docker-compose.yml` order-saga listens on 3002 (line 105), the gateway asks it
  at 3007 (line 79) and pings `localhost` for health: reads and health checks fail
  there whatever the services do. The model takes the addresses to be right.

## 5. What is proved

Every theorem holds for all values of the constants: any sets of orders, partitions
and instances, every assignment of partitions, every fault budget. The assumptions
are those of the modules: the hash maps orders to partitions and budgets are numbers
(`TopicsAssumption`); the instances are finitely many and at least one, and a group
starts with no offset or with zero (`GroupAssumption`); the bound of the environment
is a number (`SagaAssumption` and its kind); names of processes, and of nobody, differ
(`DashboardAssumption`); the stock of a product is one of finitely many levels
(`InventoryAssumption`); the lengths of the cache and its clock, the attempts and the
delays are numbers (`IdempotencyAssumption`, `RetryAssumption`); in the flow, the answers
the services' budgets can add up to are within the saga's bound (`FlowAssumption`).
A theorem with a hypothesis of its own is marked below.

Each module's invariant (the one its run checks) is inductive and is proved by one
case per action of `Next`; the other properties follow from it, or from it and one
step. `ConsumerGroup_proofs` holds what the five consumers share: what a send adds and
keeps (`SendAppends`, `EventsStay`, `EventsCounted`, `AppendGrows`), the event behind a
delivery (`DeliveredEvent`, `HandledEvent`), and each step of the group
(`GroupFinishAtOnce`, `GroupBeginHandling`, `GroupFinishHandling`, `GroupAutoCommit`,
`GroupRejoin`). It also holds the lemmas on loops and sums, which are folds in the
models of inventory, analytics and the flow. They are reached without an induction
theorem: if a fact fails for some finite set, it fails for one of least size
(`NumbersReached`, from the least-element principle `WFMin`), whose smaller subsets have
it (`SubsetsReached`); this gives that the folds are defined (`FoldExists`), that a sum is
a number, how it changes when one term does (`SumIsNat`, `SumChanged`), and that a loop
over the items of an order adds up what the order wants of a product (`WantedFolds`).

**`OrderSaga_proofs`**

* `InvariantHolds`: `[]SagaInvariant`, and of it `TypeCorrect` (a live message belongs
  to the owner of its partition and is at its position, an instance has at most one
  in flight, positions and commits stay within the log), `StatusCorrect`
  (`StatusJoinsAnswers`, so `checkAndFixStuckOrders` never finds an order to fix) and
  `OutcomeCorrect`
* `OutcomeIsExclusive`: `[]OutcomeExclusive`, from justification: two opposite outcomes
  need an authorization and a reservation as well as a refusal
* `DecisionsPublished`: `[]DecisionIsPublished`
* `DecisionsStable`: `DecisionStable`
* `OutcomeImplemented`: `Spec => ImplementsOutcome`, the step simulation of
  `OrderOutcome`: every step of the saga is, under the mapping, a step of the abstract
  specification or a stutter

`OutcomeJustified` is not inductive: a completion is sent when a handler resumes,
long after it looked at the entry, and the entry may have been overwritten or lost
since. `SagaInvariant` therefore adds where each answer is in the log
(`AnswersInPlace`, so that an in-flight position names one answer for good), that an
entry only says what a service said (`EntriesJustified`), and that a handler awaiting
its send was entitled to it (`InFlightJustified`). `DecisionStable` needs that an
undisturbed group never delivers an order again: its `OrderPlaced` is on the topic
once, in the partition of its key, behind the group's position (`OrdersInPlace`,
`PlacedOnce`, `TrackedBehind`). The proof first classifies the steps (`NextSteps`: an
event about an order, an answer recorded, an outcome published, the group regrouped)
and then shows each theorem for each class.

**`PaymentService_proofs`, `InventoryService_proofs`, `NotificationService_proofs`**

* `InvariantHolds`: `[]PaymentInvariant`, `[]NotificationInvariant`, `[]InventoryInvariant`;
  of the last, `DeliveryHolds` (`[]DeliveryInvariant`) needs no hypothesis
* `StockIsPromisedOnce`: `[]PromisesBacked`. This theorem and the inventory's
  `InvariantHolds` have the hypothesis `IsFiniteSet(Orders)`: what was promised is a
  sum over the orders, and an infinite one has none. Any finite number will do
* `NoOrderLost` (`CommittedWasAnswered`, `CommittedWasSettled`) and `NoOutcomeLost`
  (`CommittedWasMailed`), under the hypothesis `InitialCommitted = 0`
* `ChargesBounded` (`ChargedOncePerProcess`), `ReservationsBounded`
  (`ReservedOncePerProcess`); `MailedOncePerProcess` is part of `NotificationInvariant`

An offset is committed after its handler ended, so the committed prefix was handled
only if the delivered one was: `DeliveredWasAnswered`, `DeliveredWasSettled` and
`DeliveredWasMailed` say so of both. They hold only of a group that has committed
once. Without an offset a rebalance starts at the end of the log and orders before it
are never delivered, which is the finding of section 4 and the reason of the hypothesis.
What a process skips as a duplicate was answered (`ProcessedWasAnswered` and its
kind), which is why skipping loses nothing. The bounds on charges and reservations
count: an answer was sent by a process that still remembers the order, or died, or met
a rejected send. A process that answers does not remember the order yet, because an
order has one offset (`OrdersInPlace`) and the offset in flight is unmarked
(`InFlightUnmarked`); marking it adds one to the right side when the answer adds one
to the left.

The stock needs an invariant of its own. `PromisesHeld` says that what a product's
orders were promised is at most what the live instances took from their shelves, plus
a full shelf for each process that died; `ShelvesBounded` that no shelf leaves the range
of its initial level. A reservation takes the order's items one by one and
answers only at the end, so the proof compares two loops over the same items: what
`Reservation` took from each shelf and what the order wants of it
(`ReservationFacts`).

**`AnalyticsService_proofs`**: `CountsHold` (`[]AnalyticsInvariant`, with
`NeverOvercounted`), under the hypothesis that `Orders` and `Products` are finite, since
both are summed and ranked over; `CommittedIsCounted` (`CommittedWasCounted`), under the
same and `InitialCommitted = 0`. `NeverOvercounted` speaks of a published ranking, a copy
of counters that have moved on since, or are lost. The invariant adds what the
counters are: `CountsKept` says that an instance's counter of a product is the sum over
exactly the orders in its cache, each once. It holds because `updateProductStats` adds what
the order wants of each product, wherever its items stand (`OrderCounted`), and
because an order has one offset (`OrdersInPlace`), so that a delivery which
is not a duplicate is an order that is not in the sum yet. A sum over some of the orders
is then at most the one over all that are placed, which only grows (`DemandGrows`), and
a ranking stays within it. `DeliveredWasCounted` is the counterpart of
`DeliveredWasAnswered`: as long as no process died, what a group went past is in some
instance's cache. `CommittedIsCounted` compares the sum of the instances' sums
with the sum over the committed orders (`SumsCover`).

**`OrderFlow_proofs`**

* `SagaImplemented`: `Spec => ImplementsSaga`. Payment and inventory are together an
  environment that the saga's own specification allows
* `SagaDecisionsStable` (`SagaDecisionStable`), and `OutcomeImplementedByFlow`: the flow
  implements `OrderOutcome`, on which `Dashboard` is built
* `OutcomeIsFinal` (`OneOutcome`), under the hypothesis that payment and inventory run one
  process each, as `docker-compose.yml` has it. Two processes may answer an order twice
  and differently after a rebalance: then only `OutcomeExclusive` holds
* `CompletedIsHeld` (`CompletedHoldsStock`), under the hypothesis `IsFiniteSet(Orders)`
* `NothingLostInFlow`: `CommittedWasAnswered`, `CommittedWasSettled` and
  `DecisionIsPublished` at once, under the hypothesis `InitialCommitted = 0`

A service of the flow sees of the log the topics it knows (`LogOf`). An event appended
to one of them is appended to that view, any other leaves it as it was (`AppendSeen`,
`SameSeen`), so every step of the flow is a step of one service's own specification and
a stutter, or a placed order or an answer of the environment, to the others
(`PaymentStepSeen`, `InventoryStepSeen`, `SagaStepSeen`; together `FlowStep`). What is
proved of a service alone then holds of it in the flow (`FlowIsServices`).

The hard part is that the environment of `OrderSaga` sends at most `MaxAnswers` events
about an order. That the services keep to it is no property of a step: `FlowInvariant`
joins the invariants of the three services with `ChargedOncePerProcess` and
`ReservedOncePerProcess`, which bound the answers by processes, deaths and rejected sends,
and with what is left of their budgets (`PaymentsBounded`, `ReservationsBounded`,
`WithinBudget`). An order that is answered has been placed, by the services'
own invariants. `OneOutcome` follows from the same counts: with one process and no
fault an order is answered once by each, and two opposite outcomes need two
opposite answers. `CompletedHoldsStock` joins the saga's `OutcomeJustified` with the
inventory's `PromisesHeld`.

**`Standalone_proofs`, the cache**: `CacheInvariantHolds` (`[]CacheInvariant`), `OldestGoFirst`
(`OldestForgottenFirst`), `MarkedIsRemembered` (`JustMarkedIsRemembered`), for every size
of the Map and every number of messages. `cleanup` sorts by time and drops a prefix;
the rank of an entry in that order is injective and at least its place among the
entries of earlier time (`RankFacts`, `RankAtLeastPlace`), so what is kept is counted
by an interval of ranks (`KeptFacts`), and what a mark added last is among it.

**`Standalone_proofs`, the retries**: `RetryInvariantHolds` (`[]RetryInvariant`, with
`DeadAfterEveryRetry`), `AttemptsBoundedBySends` (`AttemptsNotMultiplied`),
`BackoffNeverShrinks` (`BackoffGrows`).
`AttemptsNotMultiplied` is not inductive: a message that waits on the topic is an
attempt to come. `AttemptsBounded` counts, of an event, the attempts of a number with
every message ahead of the position that can still lead to one, and what ended with
every message ahead; each such message is a token that a step hands on or spends, and
only a rejected send, which is redelivered, makes one more. `AttemptsInTurn` says that
an attempt on the topic had the ones before it. `BackoffGrows` rests on the powers of
two: that the function `twoTo` is defined is proved from its finite pieces
(`DoublesExists`, `DoublesAgree`), and that a later delay is at least twice an earlier one
(`PowersGrow`) outweighs any jitter of a tenth, before the cap and the rounding.

**`Standalone_proofs`, the pages**: `PageInvariantHolds` (`[]PageInvariant`), `OneOrderEach`
(`OneOrderPerPurchase`), `OutageIsHidden`
(`ServiceOutageNotShown`), `ShownDecisionKept` (`ShownDecisionStable`). The invariant has a
part per page and is proved page by page, with lemmas that a step of one leaves the
others alone. `UnseenTookFault` charges every order that is placed although the customer
was shown an error, or will be, to one rejected send or one death of the gateway; the
one order of a purchase that is not so charged is the one on the form or on its way.
`StatusesJustified` and `DecisionsKept` follow a status from order-saga's Map through the
reply on its way to the page: an undisturbed instance never takes back what it served,
so an older page can only be behind.

**Only model-checked**

* all liveness: fairness and `ENABLED` are out of the prover's reach. These are
  `AnsweredOrderDecided`, `EveryOrderAnswered`, `EveryOrderSettled`, `EveryOrderCounted`,
  `EveryOutcomeMailed`, `TrackedOrderDecided`, `RetriesEnd` and `PageCatchesUp`
* that the three properties of section 4 are violated, which is for TLC to show

Every invariant and every action property of a passing run has a theorem.

## 6. What is not modelled

Of the gateway, the read of a single order and the proxied metrics, which no page
keeps; of the dashboard, the analytics panel, the editing of items and the
rendering. `sendBatch`, `sendWithRetry`, `pause`, `resume`, `seek`, manual commits:
nothing calls them. Retention, headers and deployment. `Clear` of the cache and
`processRetryEvent` are modelled although no service calls them. Revenue and
timestamps of analytics change with the counts. The `info` command of
`replay-orders.ts` only prints; a reset of notification-service's offsets would be of a
topic it does not read.

## 7. Plan

Done, in this order: `Topics` and `ConsumerGroup`; `OrderSaga` with its invariant and
proofs; the four other consumers; `Idempotency`; `OrderFlow` and its refinement;
replays; `OrderOutcome`; `RetryHandler`; `Dashboard`; the proofs of section 5, those about
the flow and analytics last.

Model next: `PaymentService` over a cache that forgets (`Idempotency` in the place of
`processed`), the timer's early cleanup included.

Prove next: that the pages show what the flow does, with `Dashboard` over the saga of
`OrderFlow` instead of over `OrderOutcome`; how often an order can be answered, and what
its outcome may then be, when payment or inventory run several processes and partitions
move between them.
