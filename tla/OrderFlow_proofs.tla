-------------------------- MODULE OrderFlow_proofs --------------------------
(* Theorems about the whole flow. Each service runs in it as its own           *)
(* specification says, over the topics it knows, so what is proved of a        *)
(* service alone holds of it in the flow; from the three together follows what *)
(* the flow promises of an order.                                              *)
EXTENDS OrderFlow, FiniteSetTheorems, TLAPS

PaymentProof == INSTANCE PaymentService_proofs WITH
    log <- LogOf(Payment!PaymentTopics),
    Instances <- PaymentInstances, MaxFaults <- PaymentMaxFaults,
    ResultsOf <- [o \in Orders |-> {"PaymentAuthorized", "PaymentDeclined"}],
    faults <- paymentFaults, group <- paymentGroup,
    inFlight <- paymentInFlight, processed <- paymentProcessed

InventoryProof == INSTANCE InventoryService_proofs WITH
    log <- LogOf(Inventory!InventoryTopics),
    Instances <- InventoryInstances, MaxFaults <- InventoryMaxFaults,
    faults <- inventoryFaults, group <- inventoryGroup,
    inFlight <- inventoryInFlight, processed <- inventoryProcessed

SagaProof == INSTANCE OrderSaga_proofs WITH
    log <- LogOf(Saga!SagaTopics),
    Instances <- SagaInstances, MaxFaults <- SagaMaxFaults,
    faults <- sagaFaults, group <- sagaGroup, inFlight <- sagaInFlight

(* Sizes and finiteness mean the same in every instance.                       *)
LEMMA SameCounting ==
    \A S : /\ PaymentProof!IsFiniteSet(S) <=> IsFiniteSet(S)
           /\ InventoryProof!IsFiniteSet(S) <=> IsFiniteSet(S)
           /\ SagaProof!IsFiniteSet(S) <=> IsFiniteSet(S)
           /\ PaymentProof!Cardinality(S) = Cardinality(S)
           /\ InventoryProof!Cardinality(S) = Cardinality(S)
           /\ SagaProof!Cardinality(S) = Cardinality(S)
  BY DEF IsFiniteSet, PaymentProof!IsFiniteSet, InventoryProof!IsFiniteSet,
         SagaProof!IsFiniteSet, Cardinality, PaymentProof!Cardinality,
         InventoryProof!Cardinality, SagaProof!Cardinality

-----------------------------------------------------------------------------
(* What a service sees of the topics                                           *)

ShapeOf(topicLogs) == topicLogs = [tp \in FlowTopics \X Partitions |-> topicLogs[tp]]

LogShape == ShapeOf(log)

View(topicLogs, topics) == [tp \in topics \X Partitions |-> topicLogs[tp]]

LEMMA TopicNames ==
    /\ Payment!PaymentTopics = {"orders.v1", "payments.v1"}
    /\ Inventory!InventoryTopics =
          {"orders.v1", "inventory.v1", "orders.retry.v1", "orders.dlq.v1"}
    /\ Saga!SagaTopics = {"orders.v1", "payments.v1", "inventory.v1",
                          "orders.completed.v1", "orders.cancelled.v1"}
    /\ Payment!PaymentTopics \subseteq FlowTopics
    /\ Inventory!InventoryTopics \subseteq FlowTopics
    /\ Saga!SagaTopics \subseteq FlowTopics
  BY DEF FlowTopics, Payment!PaymentTopics, Inventory!InventoryTopics, Saga!SagaTopics

LEMMA Seen ==
    ASSUME NEW topics
    PROVE  /\ DOMAIN LogOf(topics) = topics \X Partitions
           /\ \A tp \in topics \X Partitions : LogOf(topics)[tp] = log[tp]
  BY DEF LogOf

Appended(topicLogs, tp, e) == [topicLogs EXCEPT ![tp] = Append(@, e)]

LEMMA AppendAt ==
    ASSUME NEW l, NEW tp, NEW e
    PROVE  Appended(l, tp, e) =
              [t \in DOMAIN l |-> IF t = tp THEN Append(l[t], e) ELSE l[t]]
  BY DEF Appended

LEMMA AppendWithin ==
    ASSUME NEW l, NEW S, S \subseteq DOMAIN l, NEW tp, NEW e,
           NEW k, k = Appended(l, tp, e),
           NEW part, part = [t \in S |-> l[t]]
    PROVE  /\ DOMAIN k = DOMAIN l
           /\ tp \in S => [t \in S |-> k[t]] = Appended(part, tp, e)
           /\ tp \notin S => [t \in S |-> k[t]] = part
  <1>1. /\ DOMAIN k = DOMAIN l
        /\ \A t \in DOMAIN l : k[t] = IF t = tp THEN Append(l[t], e) ELSE l[t]
    BY AppendAt
  <1>2. Appended(part, tp, e) = [t \in DOMAIN part |-> IF t = tp THEN Append(part[t], e) ELSE part[t]]
    BY AppendAt
  <1>3. DOMAIN part = S /\ \A t \in S : part[t] = l[t]
    OBVIOUS
  <1>4. PICK both : both = Appended(part, tp, e)
    OBVIOUS
  <1>5. ASSUME tp \in S PROVE [t \in S |-> k[t]] = both
    BY <1>1, <1>2, <1>3, <1>4, <1>5
  <1>6. ASSUME tp \notin S PROVE [t \in S |-> k[t]] = part
    BY <1>1, <1>3, <1>6
  <1> QED BY <1>1, <1>4, <1>5, <1>6

(* An event appended to a topic a service knows is appended to its view, and   *)
(* one on another topic is not seen.                                           *)
LEMMA AppendViewed ==
    ASSUME NEW topics, topics \subseteq FlowTopics, NEW l, ShapeOf(l),
           NEW tp \in FlowTopics \X Partitions, NEW e
    PROVE  /\ ShapeOf(Appended(l, tp, e))
           /\ tp[1] \in topics =>
                 View(Appended(l, tp, e), topics) = Appended(View(l, topics), tp, e)
           /\ tp[1] \notin topics => View(Appended(l, tp, e), topics) = View(l, topics)
  <1>1. DOMAIN l = FlowTopics \X Partitions
    BY DEF ShapeOf
  <1>2. topics \X Partitions \subseteq DOMAIN l
    BY <1>1
  <1>3. /\ tp[1] \in topics => tp \in topics \X Partitions
        /\ tp[1] \notin topics => tp \notin topics \X Partitions
    OBVIOUS
  <1>4. Appended(l, tp, e) = [t \in DOMAIN l |-> Appended(l, tp, e)[t]]
    BY AppendAt
  <1>5. ShapeOf(Appended(l, tp, e))
    BY <1>1, <1>4 DEF ShapeOf
  <1>6. PICK S : S = topics \X Partitions
    OBVIOUS
  <1>7. /\ tp \in S => [t \in S |-> Appended(l, tp, e)[t]] = Appended([t \in S |-> l[t]], tp, e)
        /\ tp \notin S => [t \in S |-> Appended(l, tp, e)[t]] = [t \in S |-> l[t]]
    BY <1>2, <1>6, AppendWithin
  <1>8. /\ View(l, topics) = [t \in S |-> l[t]]
        /\ View(Appended(l, tp, e), topics) = [t \in S |-> Appended(l, tp, e)[t]]
    BY <1>6 DEF View
  <1> QED BY <1>3, <1>5, <1>6, <1>7, <1>8

LEMMA LogViewed ==
    ASSUME NEW topics
    PROVE  /\ LogOf(topics) = View(log, topics) /\ LogOf(topics)' = View(log', topics)
           /\ LogShape <=> ShapeOf(log)
           /\ LogShape' <=> ShapeOf(log')
  BY DEF LogOf, View, LogShape, ShapeOf, FlowTopics

LEMMA AppendSeen ==
    ASSUME NEW topics, topics \subseteq FlowTopics, LogShape,
           NEW tp \in FlowTopics \X Partitions, NEW e, log' = Appended(log, tp, e)
    PROVE  /\ LogShape'
           /\ tp[1] \in topics => LogOf(topics)' = Appended(LogOf(topics), tp, e)
           /\ tp[1] \notin topics => UNCHANGED LogOf(topics)
  BY AppendViewed, LogViewed

LEMMA SameSeen ==
    ASSUME NEW topics, UNCHANGED log
    PROVE  UNCHANGED LogOf(topics) /\ (LogShape => LogShape')
  BY DEF LogOf, LogShape, ShapeOf, FlowTopics

(* What the saga sees of a step of another service: nothing, or one answer to  *)
(* an order that is placed.                                                    *)
SagaHears(o, kind) ==
    /\ Saga!Placed(o)
    /\ LogOf(Saga!SagaTopics)' = [LogOf(Saga!SagaTopics) EXCEPT
            ![<<SagaProof!AnswerTopic(kind), PartitionOf[o]>>] =
                Append(@, [order |-> o, kind |-> kind])]

SagaUndisturbed(kinds) ==
    \/ UNCHANGED LogOf(Saga!SagaTopics)
    \/ \E o \in Orders, kind \in kinds : SagaHears(o, kind)

-----------------------------------------------------------------------------
(* payment-service in the flow                                                 *)

(* The assumptions of the service's modules.                                   *)
LEMMA PaymentAssumed ==
    /\ PartitionOf \in [Orders -> Partitions]
    /\ PaymentMaxFaults \in [PaymentProof!FaultKinds -> Nat]
    /\ PaymentInstances # {} /\ PaymentProof!IsFiniteSet(PaymentInstances)
    /\ InitialCommitted \in {PaymentProof!NoOffset, 0}
    /\ [o \in Orders |-> {"PaymentAuthorized", "PaymentDeclined"}]
          \in [Orders -> (SUBSET PaymentProof!PaymentKinds) \ {{}}]
  BY FlowAssumption, SameCounting DEF PaymentProof!FaultKinds, Saga!FaultKinds, PaymentProof!NoOffset,
         Saga!NoOffset, PaymentProof!PaymentKinds

LEMMA PaymentFacts ==
    ASSUME PaymentProof!PaymentInvariant
    PROVE  /\ PaymentProof!GroupOK(PaymentProof!Subscription)
           /\ DOMAIN paymentGroup.owner = PaymentProof!Subscription
           /\ Payment!Subscription = PaymentProof!Subscription
           /\ \A tp \in PaymentProof!Subscription :
                 LogOf(Payment!PaymentTopics)[tp] = log[tp]
           /\ \A m \in paymentInFlight : m.tp \in PaymentProof!Subscription
  <1>1. PaymentProof!GroupOK(PaymentProof!Subscription)
    BY PaymentProof!InvariantFacts, PaymentAssumed
  <1>2. /\ paymentGroup \in PaymentProof!GroupRecord(PaymentProof!Subscription)
        /\ \A m \in paymentInFlight : m.tp \in PaymentProof!Subscription
    BY <1>1, PaymentProof!GroupFacts, PaymentAssumed
  <1>3. DOMAIN paymentGroup.owner = PaymentProof!Subscription
    BY <1>2 DEF PaymentProof!GroupRecord
  <1>4. /\ Payment!Subscription = PaymentProof!Subscription
        /\ PaymentProof!Subscription \subseteq Payment!PaymentTopics \X Partitions
    BY DEF Payment!Subscription, PaymentProof!Subscription, Payment!PaymentTopics
  <1> QED BY <1>1, <1>2, <1>3, <1>4, Seen

LEMMA PaymentDelivers ==
    ASSUME PaymentProof!PaymentInvariant, NEW i, NEW tp \in PaymentProof!Subscription
    PROVE  Payment!Deliverable(i, tp) <=> PaymentProof!Deliverable(i, tp)
  <1>1. LogOf(Payment!PaymentTopics)[tp] = log[tp]
    BY PaymentFacts
  <1> QED BY <1>1 DEF Payment!Deliverable, PaymentProof!Deliverable, Payment!Idle, PaymentProof!Idle

LEMMA PaymentRejoins ==
    ASSUME PaymentProof!PaymentInvariant, NEW survivors, NEW committed,
           Payment!Rejoin(survivors, committed)
    PROVE  PaymentProof!Rejoin(survivors, committed)
  <1>1. PICK owner \in [PaymentProof!Subscription -> PaymentInstances] :
           paymentGroup' = [owner |-> owner,
                            position |-> [tp \in DOMAIN owner |-> Payment!Restart(committed, tp)],
                            committed |-> committed,
                            dirty |-> [tp \in DOMAIN owner |-> FALSE]]
    BY PaymentFacts DEF Payment!Rejoin
  <1>2. [tp \in DOMAIN owner |-> Payment!Restart(committed, tp)]
           = [tp \in DOMAIN owner |-> PaymentProof!Restart(committed, tp)]
    BY PaymentFacts DEF Payment!Restart, PaymentProof!Restart, Payment!NoOffset, PaymentProof!NoOffset
  <1>3. UNCHANGED LogOf(Payment!PaymentTopics)
    BY SameSeen DEF Payment!Rejoin
  <1> QED BY <1>1, <1>2, <1>3, PaymentFacts DEF Payment!Rejoin, PaymentProof!Rejoin

(* The order a handler works on is one of the orders placed.                   *)
LEMMA PaymentHandles ==
    ASSUME PaymentProof!PaymentInvariant, NEW m \in paymentInFlight
    PROVE  /\ PaymentProof!EventOf(m) = Payment!EventOf(m)
           /\ Payment!EventOf(m).order \in Orders
           /\ Saga!Placed(Payment!EventOf(m).order)
  <1> DEFINE e == PaymentProof!EventOf(m)
             view == LogOf(Payment!PaymentTopics)
  <1>1. /\ m.tp \in PaymentProof!Subscription /\ view[m.tp] = log[m.tp]
        /\ PaymentProof!GroupOK(PaymentProof!Subscription)
    BY PaymentFacts
  <1>2. /\ m.offset + 1 \in DOMAIN view[m.tp]
        /\ e = view[m.tp][m.offset + 1] /\ e \in PaymentProof!Event
    BY <1>1, PaymentProof!HandledEvent, PaymentAssumed
  <1>3. e = Payment!EventOf(m)
    BY <1>1 DEF PaymentProof!EventOf, Payment!EventOf
  <1>4. m.tp[2] = PartitionOf[e.order] /\ e.kind = "OrderPlaced"
    BY <1>1, <1>2 DEF PaymentProof!PaymentInvariant, PaymentProof!OrdersInPlace
  <1>5. m.tp = <<"orders.v1", PartitionOf[e.order]>>
    BY <1>1, <1>4 DEF PaymentProof!Subscription
  <1>6. e.order \in Orders /\ e = [order |-> e.order, kind |-> "OrderPlaced"]
    BY <1>2, <1>4 DEF PaymentProof!Event
  <1>7. Saga!Placed(e.order)
    BY <1>1, <1>2, <1>5, <1>6 DEF Saga!Placed, Saga!Logged, Saga!EventsOf
  <1> QED BY <1>3, <1>6, <1>7

PaymentAnswers == {"PaymentAuthorized", "PaymentDeclined"}

LEMMA PaymentSends ==
    ASSUME LogShape, NEW o \in Orders, Saga!Placed(o), NEW kind \in PaymentAnswers,
           Payment!Send("payments.v1", o, kind)
    PROVE  /\ PaymentProof!Send("payments.v1", o, kind)
           /\ SagaHears(o, kind) /\ LogShape'
           /\ UNCHANGED LogOf(Inventory!InventoryTopics)
  <1>1. PICK tp, e : tp = <<"payments.v1", PartitionOf[o]>> /\ e = [order |-> o, kind |-> kind]
    OBVIOUS
  <1>2. /\ tp \in FlowTopics \X Partitions /\ tp[1] \in Payment!PaymentTopics
        /\ tp[1] \in Saga!SagaTopics /\ tp[1] \notin Inventory!InventoryTopics
    BY <1>1, FlowAssumption, TopicNames
  <1>3. log' = Appended(log, tp, e)
    BY <1>1 DEF Payment!Send, Appended
  <1>4. /\ Payment!PaymentTopics \subseteq FlowTopics
        /\ Inventory!InventoryTopics \subseteq FlowTopics /\ Saga!SagaTopics \subseteq FlowTopics
    BY TopicNames
  <1>5. /\ LogOf(Payment!PaymentTopics)' = Appended(LogOf(Payment!PaymentTopics), tp, e)
        /\ LogOf(Saga!SagaTopics)' = Appended(LogOf(Saga!SagaTopics), tp, e)
        /\ UNCHANGED LogOf(Inventory!InventoryTopics) /\ LogShape'
    BY <1>2, <1>3, <1>4, AppendSeen
  <1>6. SagaProof!AnswerTopic(kind) = "payments.v1"
    BY DEF SagaProof!AnswerTopic, PaymentAnswers
  <1> QED BY <1>1, <1>5, <1>6 DEF PaymentProof!Send, SagaHears, Appended

(* A step of payment-service in the flow is one of its own specification.      *)
LEMMA PaymentStepSeen ==
    ASSUME PaymentProof!PaymentInvariant, LogShape, Payment!PaymentStep
    PROVE  /\ PaymentProof!PaymentStep
           /\ LogShape' /\ SagaUndisturbed(PaymentAnswers)
           /\ UNCHANGED LogOf(Inventory!InventoryTopics)
  <1>0. UNCHANGED log => /\ LogShape' /\ SagaUndisturbed(PaymentAnswers)
                         /\ UNCHANGED LogOf(Inventory!InventoryTopics)
    BY SameSeen DEF SagaUndisturbed
  <1>1. ASSUME NEW i \in PaymentInstances, Payment!Handle(i)
        PROVE  PaymentProof!Handle(i) /\ UNCHANGED log
    <2>1. PICK tp \in PaymentProof!Subscription :
             Payment!SkipDuplicate(i, tp) \/ Payment!BeginPayment(i, tp)
      BY <1>1, PaymentFacts DEF Payment!Handle
    <2>2. UNCHANGED <<log, LogOf(Payment!PaymentTopics)>>
      BY <2>1, SameSeen DEF Payment!SkipDuplicate, Payment!BeginPayment
    <2>3. CASE Payment!SkipDuplicate(i, tp)
      <3>1. PaymentProof!SkipDuplicate(i, tp)
        BY <2>2, <2>3, PaymentDelivers
           DEF Payment!SkipDuplicate, PaymentProof!SkipDuplicate,
               Payment!IsDuplicate, PaymentProof!IsDuplicate,
               Payment!FinishAtOnce, PaymentProof!FinishAtOnce,
               Payment!Resolved, PaymentProof!Resolved
      <3> QED BY <2>2, <3>1 DEF PaymentProof!Handle
    <2>4. CASE Payment!BeginPayment(i, tp)
      <3>1. PaymentProof!BeginPayment(i, tp)
        BY <2>2, <2>4, PaymentDelivers
           DEF Payment!BeginPayment, PaymentProof!BeginPayment,
               Payment!IsDuplicate, PaymentProof!IsDuplicate,
               Payment!BeginHandling, PaymentProof!BeginHandling
      <3> QED BY <2>2, <3>1 DEF PaymentProof!Handle
    <2> QED BY <2>1, <2>3, <2>4
  <1>2. ASSUME NEW i \in PaymentInstances, Payment!Commit(i)
        PROVE  PaymentProof!Commit(i) /\ UNCHANGED log
    <2>1. UNCHANGED <<log, LogOf(Payment!PaymentTopics)>>
      BY <1>2, SameSeen DEF Payment!Commit, Payment!AutoCommit
    <2> QED BY <1>2, <2>1 DEF Payment!Commit, Payment!AutoCommit,
                              PaymentProof!Commit, PaymentProof!AutoCommit
  <1>3. ASSUME NEW i \in PaymentInstances, Payment!Crash(i)
        PROVE  PaymentProof!Crash(i) /\ UNCHANGED log
    <2>1. /\ Payment!Fault("crash")
          /\ Payment!Rejoin(PaymentInstances \ {i}, paymentGroup.committed)
          /\ paymentProcessed' = [paymentProcessed EXCEPT ![i] = {}]
      BY <1>3 DEF Payment!Crash, Payment!CrashAndRejoin
    <2>2. PaymentProof!Rejoin(PaymentInstances \ {i}, paymentGroup.committed) /\ UNCHANGED log
      BY <2>1, PaymentRejoins DEF Payment!Rejoin
    <2> QED BY <2>1, <2>2 DEF PaymentProof!Crash, PaymentProof!CrashAndRejoin,
                              Payment!Fault, PaymentProof!Fault
  <1>4. CASE Payment!Answer
    <2>1. PICK m \in paymentInFlight, kind \in PaymentAnswers :
             Payment!AnswerOrder(m, kind) \/ Payment!AnswerFails(m, kind)
      BY <1>4, PaymentHandles DEF Payment!Answer, PaymentAnswers
    <2> DEFINE o == Payment!EventOf(m).order
    <2>2. /\ o \in Orders /\ Saga!Placed(o) /\ PaymentProof!EventOf(m).order = o
          /\ kind \in [p \in Orders |-> {"PaymentAuthorized", "PaymentDeclined"}][o]
      BY PaymentHandles DEF PaymentAnswers
    <2> DEFINE Sent == /\ PaymentProof!Send("payments.v1", o, kind)
                       /\ SagaUndisturbed(PaymentAnswers) /\ LogShape'
                       /\ UNCHANGED LogOf(Inventory!InventoryTopics)
    <2>3. CASE Payment!AnswerOrder(m, kind)
      <3>1. Sent
        BY <2>2, <2>3, PaymentSends DEF Payment!AnswerOrder, SagaUndisturbed
      <3>2. PaymentProof!AnswerOrder(m, kind)
        BY <2>2, <2>3, <3>1 DEF Payment!AnswerOrder, PaymentProof!AnswerOrder,
           Payment!FinishHandling, PaymentProof!FinishHandling,
           Payment!Resolved, PaymentProof!Resolved
      <3> QED BY <1>0, <2>2, <3>1, <3>2 DEF PaymentProof!PaymentStep, PaymentProof!Answer
    <2>4. CASE Payment!AnswerFails(m, kind)
      <3>1. \/ UNCHANGED <<log, LogOf(Payment!PaymentTopics)>>
            \/ Sent
        BY <2>2, <2>4, PaymentSends, SameSeen
           DEF Payment!AnswerFails, Payment!SendUnacknowledged, SagaUndisturbed
      <3>2. PaymentProof!AnswerFails(m, kind)
        BY <2>2, <2>4, <3>1 DEF Payment!AnswerFails, PaymentProof!AnswerFails,
           PaymentProof!SendUnacknowledged, Payment!Fault, PaymentProof!Fault,
           Payment!FinishHandling, PaymentProof!FinishHandling,
           Payment!Resolved, PaymentProof!Resolved
      <3> QED BY <1>0, <2>2, <3>1, <3>2 DEF PaymentProof!PaymentStep, PaymentProof!Answer
    <2> QED BY <2>1, <2>3, <2>4
  <1>5. CASE Payment!GroupRebalances
    <2>1. /\ Payment!Fault("rebalance") /\ UNCHANGED paymentProcessed
          /\ Payment!Rejoin(PaymentInstances, paymentGroup.committed)
      BY <1>5 DEF Payment!GroupRebalances, Payment!Rebalance
    <2>2. PaymentProof!Rejoin(PaymentInstances, paymentGroup.committed) /\ UNCHANGED log
      BY <2>1, PaymentRejoins DEF Payment!Rejoin
    <2> QED BY <1>0, <2>1, <2>2 DEF PaymentProof!GroupRebalances, PaymentProof!Rebalance,
                              Payment!Fault, PaymentProof!Fault, PaymentProof!PaymentStep
  <1>6. CASE Payment!ReplayOrders
    <2>1. PICK earliest : earliest = PaymentProof!ResetToEarliest(paymentGroup.committed)
      OBVIOUS
    <2>2. /\ Payment!Fault("replay") /\ paymentProcessed' = [i \in PaymentInstances |-> {}]
          /\ Payment!Rejoin({}, earliest)
      BY <1>6, <2>1 DEF Payment!ReplayOrders, Payment!Replay, Payment!ResetToEarliest,
                        PaymentProof!ResetToEarliest
    <2>3. PaymentProof!Rejoin({}, earliest)
      BY <2>2, PaymentRejoins
    <2>4. UNCHANGED log
      BY <2>2 DEF Payment!Rejoin
    <2> QED BY <1>0, <2>1, <2>2, <2>3, <2>4 DEF PaymentProof!ReplayOrders, PaymentProof!Replay,
                              Payment!Fault, PaymentProof!Fault, PaymentProof!PaymentStep
  <1> QED BY <1>0, <1>1, <1>2, <1>3, <1>4, <1>5, <1>6
          DEF Payment!PaymentStep, PaymentProof!PaymentStep

-----------------------------------------------------------------------------
(* inventory-service in the flow                                               *)

LEMMA InventoryAssumed ==
    /\ PartitionOf \in [Orders -> Partitions]
    /\ InventoryMaxFaults \in [InventoryProof!FaultKinds -> Nat]
    /\ InventoryInstances # {} /\ InventoryProof!IsFiniteSet(InventoryInstances)
    /\ InitialCommitted \in {InventoryProof!NoOffset, 0}
    /\ Unknown \notin Products
    /\ ItemsOf \in [Orders -> Seq(InventoryProof!Item)]
    /\ StockLevels # {} /\ StockLevels \subseteq Nat /\ InventoryProof!IsFiniteSet(StockLevels)
    /\ MaxAttempts \in Nat
  BY FlowAssumption, SameCounting DEF InventoryProof!FaultKinds, Saga!FaultKinds,
         InventoryProof!NoOffset, Saga!NoOffset, InventoryProof!Item, Inventory!Item

(* A reservation takes the same items in the flow as in the service alone.     *)
LEMMA SameReservation ==
    ASSUME NEW shelf, NEW items
    PROVE  Inventory!Reservation(shelf, items) = InventoryProof!Reservation(shelf, items)
  BY Zenon DEF Inventory!Reservation, InventoryProof!Reservation,
         Inventory!ReserveItem, InventoryProof!ReserveItem,
         Inventory!CanReserve, InventoryProof!CanReserve, Inventory!Take, InventoryProof!Take,
         Inventory!FoldLeft, InventoryProof!FoldLeft,
         Inventory!MapThenFoldSet, InventoryProof!MapThenFoldSet,
         Inventory!Max, InventoryProof!Max

LEMMA InventoryFacts ==
    ASSUME InventoryProof!DeliveryInvariant
    PROVE  /\ InventoryProof!GroupOK(InventoryProof!Subscription)
           /\ DOMAIN inventoryGroup.owner = InventoryProof!Subscription
           /\ Inventory!Subscription = InventoryProof!Subscription
           /\ \A tp \in InventoryProof!Subscription :
                 LogOf(Inventory!InventoryTopics)[tp] = log[tp]
           /\ \A m \in inventoryInFlight : m.tp \in InventoryProof!Subscription
  <1>1. InventoryProof!GroupOK(InventoryProof!Subscription)
    BY InventoryProof!InvariantFacts, InventoryAssumed
  <1>2. /\ inventoryGroup \in InventoryProof!GroupRecord(InventoryProof!Subscription)
        /\ \A m \in inventoryInFlight : m.tp \in InventoryProof!Subscription
    BY <1>1, InventoryProof!GroupFacts, InventoryAssumed
  <1>3. DOMAIN inventoryGroup.owner = InventoryProof!Subscription
    BY <1>2 DEF InventoryProof!GroupRecord
  <1>4. /\ Inventory!Subscription = InventoryProof!Subscription
        /\ InventoryProof!Subscription \subseteq Inventory!InventoryTopics \X Partitions
    BY DEF Inventory!Subscription, InventoryProof!Subscription, Inventory!InventoryTopics
  <1> QED BY <1>1, <1>2, <1>3, <1>4, Seen

LEMMA InventoryDelivers ==
    ASSUME InventoryProof!DeliveryInvariant, NEW i, NEW tp \in InventoryProof!Subscription
    PROVE  Inventory!Deliverable(i, tp) <=> InventoryProof!Deliverable(i, tp)
  <1>1. LogOf(Inventory!InventoryTopics)[tp] = log[tp]
    BY InventoryFacts
  <1> QED BY <1>1 DEF Inventory!Deliverable, InventoryProof!Deliverable, Inventory!Idle, InventoryProof!Idle

LEMMA InventoryRejoins ==
    ASSUME InventoryProof!DeliveryInvariant, NEW survivors, NEW committed,
           Inventory!Rejoin(survivors, committed)
    PROVE  InventoryProof!Rejoin(survivors, committed)
  <1>1. PICK owner \in [InventoryProof!Subscription -> InventoryInstances] :
           inventoryGroup' = [owner |-> owner,
                            position |-> [tp \in DOMAIN owner |-> Inventory!Restart(committed, tp)],
                            committed |-> committed,
                            dirty |-> [tp \in DOMAIN owner |-> FALSE]]
    BY InventoryFacts DEF Inventory!Rejoin
  <1>2. [tp \in DOMAIN owner |-> Inventory!Restart(committed, tp)]
           = [tp \in DOMAIN owner |-> InventoryProof!Restart(committed, tp)]
    BY InventoryFacts DEF Inventory!Restart, InventoryProof!Restart, Inventory!NoOffset, InventoryProof!NoOffset
  <1>3. UNCHANGED LogOf(Inventory!InventoryTopics)
    BY SameSeen DEF Inventory!Rejoin
  <1> QED BY <1>1, <1>2, <1>3, InventoryFacts DEF Inventory!Rejoin, InventoryProof!Rejoin

(* The order a handler works on is one of the orders placed.                   *)
LEMMA InventoryHandles ==
    ASSUME InventoryProof!DeliveryInvariant, NEW m \in inventoryInFlight
    PROVE  /\ InventoryProof!EventOf(m) = Inventory!EventOf(m)
           /\ Inventory!EventOf(m).order \in Orders
           /\ Saga!Placed(Inventory!EventOf(m).order)
  <1> DEFINE e == InventoryProof!EventOf(m)
             view == LogOf(Inventory!InventoryTopics)
  <1>1. /\ m.tp \in InventoryProof!Subscription /\ view[m.tp] = log[m.tp]
        /\ InventoryProof!GroupOK(InventoryProof!Subscription)
    BY InventoryFacts
  <1>2. /\ m.offset + 1 \in DOMAIN view[m.tp]
        /\ e = view[m.tp][m.offset + 1] /\ e \in InventoryProof!Event
    BY <1>1, InventoryProof!HandledEvent, InventoryAssumed
  <1>3. e = Inventory!EventOf(m)
    BY <1>1 DEF InventoryProof!EventOf, Inventory!EventOf
  <1>4. m.tp[2] = PartitionOf[e.order] /\ e.kind = "OrderPlaced"
    BY <1>1, <1>2 DEF InventoryProof!DeliveryInvariant, InventoryProof!OrdersInPlace
  <1>5. m.tp = <<"orders.v1", PartitionOf[e.order]>>
    BY <1>1, <1>4 DEF InventoryProof!Subscription
  <1>6. e.order \in Orders /\ e = [order |-> e.order, kind |-> "OrderPlaced"]
    BY <1>2, <1>4 DEF InventoryProof!Event
  <1>7. Saga!Placed(e.order)
    BY <1>1, <1>2, <1>5, <1>6 DEF Saga!Placed, Saga!Logged, Saga!EventsOf
  <1> QED BY <1>3, <1>6, <1>7

InventoryAnswers == {"InventoryReserved", "InventoryRejected"}

(* What a handler of inventory-service makes of the topics: the other services *)
(* see at most an answer to its order.                                         *)
AnswersAbout(k, o) ==
    /\ ShapeOf(k)
    /\ View(k, Payment!PaymentTopics) = LogOf(Payment!PaymentTopics)
    /\ \/ View(k, Saga!SagaTopics) = LogOf(Saga!SagaTopics)
       \/ \E kind \in InventoryAnswers :
             View(k, Saga!SagaTopics) =
                Appended(LogOf(Saga!SagaTopics), <<"inventory.v1", PartitionOf[o]>>,
                         [order |-> o, kind |-> kind])

LEMMA AnswersHeard ==
    ASSUME NEW o \in Orders, Saga!Placed(o), AnswersAbout(log', o)
    PROVE  /\ LogShape' /\ SagaUndisturbed(InventoryAnswers)
           /\ UNCHANGED LogOf(Payment!PaymentTopics)
  <1>1. \A kind \in InventoryAnswers : SagaProof!AnswerTopic(kind) = "inventory.v1"
    BY DEF SagaProof!AnswerTopic, InventoryAnswers
  <1>2. /\ LogOf(Saga!SagaTopics)' = View(log', Saga!SagaTopics)
        /\ LogOf(Payment!PaymentTopics)' = View(log', Payment!PaymentTopics)
        /\ LogShape' <=> ShapeOf(log')
    BY LogViewed
  <1>3. LogShape' /\ UNCHANGED LogOf(Payment!PaymentTopics)
    BY <1>2 DEF AnswersAbout
  <1>4. CASE View(log', Saga!SagaTopics) = LogOf(Saga!SagaTopics)
    BY <1>2, <1>3, <1>4 DEF SagaUndisturbed
  <1>5. CASE \E kind \in InventoryAnswers : View(log', Saga!SagaTopics) =
                Appended(LogOf(Saga!SagaTopics), <<"inventory.v1", PartitionOf[o]>>,
                         [order |-> o, kind |-> kind])
    <2>1. PICK kind \in InventoryAnswers : SagaHears(o, kind)
      BY <1>1, <1>2, <1>5 DEF SagaHears, Appended
    <2> QED BY <1>3, <2>1 DEF SagaUndisturbed
  <1> QED BY <1>4, <1>5 DEF AnswersAbout

LEMMA NothingAnswered ==
    ASSUME LogShape, NEW o \in Orders
    PROVE  AnswersAbout(log, o)
  BY LogViewed DEF AnswersAbout

LEMMA FailureViewed ==
    ASSUME NEW l, ShapeOf(l), NEW o \in Orders,
           NEW k, k = Inventory!HandleFailedEvent(l, o, 0)
    PROVE  /\ ShapeOf(k)
           /\ View(k, Inventory!InventoryTopics)
                = InventoryProof!HandleFailedEvent(View(l, Inventory!InventoryTopics), o, 0)
           /\ View(k, Payment!PaymentTopics) = View(l, Payment!PaymentTopics)
           /\ View(k, Saga!SagaTopics) = View(l, Saga!SagaTopics)
           /\ AnswersAbout(l, o) => AnswersAbout(k, o)
  <1>1. PICK seen : seen = View(l, Inventory!InventoryTopics)
    OBVIOUS
  <1> DEFINE Errored(topic, kind) ==
        /\ k = Appended(l, <<topic, Inventory!ErrorPartition>>, [order |-> o, kind |-> kind])
        /\ InventoryProof!HandleFailedEvent(seen, o, 0) =
             Appended(seen, <<topic, Inventory!ErrorPartition>>, [order |-> o, kind |-> kind])
  <1>2. PICK topic \in {"orders.retry.v1", "orders.dlq.v1"} : \E kind : Errored(topic, kind)
    <2>1. Inventory!ErrorPartition = InventoryProof!ErrorPartition
      BY DEF Inventory!ErrorPartition, InventoryProof!ErrorPartition
    <2>2. CASE 0 >= MaxAttempts
      <3>1. PICK kind : Errored("orders.dlq.v1", kind)
        BY <2>1, <2>2 DEF Appended, Inventory!HandleFailedEvent, InventoryProof!HandleFailedEvent,
           Inventory!DeadLettered, InventoryProof!DeadLettered
      <3> QED BY <3>1
    <2>3. CASE ~(0 >= MaxAttempts)
      <3>1. PICK kind : Errored("orders.retry.v1", kind)
        BY <2>1, <2>3 DEF Appended, Inventory!HandleFailedEvent, InventoryProof!HandleFailedEvent,
           Inventory!Retried, InventoryProof!Retried
      <3> QED BY <3>1
    <2> QED BY <2>2, <2>3
  <1>3. PICK tp, e : /\ tp = <<topic, Inventory!ErrorPartition>> /\ e.order = o
                     /\ k = Appended(l, tp, e)
                     /\ InventoryProof!HandleFailedEvent(seen, o, 0) = Appended(seen, tp, e)
    BY <1>2
  <1>4. Inventory!ErrorPartition \in Partitions
    BY FlowAssumption DEF Inventory!ErrorPartition
  <1>5. /\ tp \in FlowTopics \X Partitions /\ tp[1] \in Inventory!InventoryTopics
        /\ tp[1] \notin Payment!PaymentTopics /\ tp[1] \notin Saga!SagaTopics
    BY <1>3, <1>4, TopicNames
  <1>6. /\ Payment!PaymentTopics \subseteq FlowTopics
        /\ Inventory!InventoryTopics \subseteq FlowTopics /\ Saga!SagaTopics \subseteq FlowTopics
    BY TopicNames
  <1>7. /\ ShapeOf(k)
        /\ View(k, Inventory!InventoryTopics) = Appended(seen, tp, e)
        /\ View(k, Payment!PaymentTopics) = View(l, Payment!PaymentTopics)
        /\ View(k, Saga!SagaTopics) = View(l, Saga!SagaTopics)
    <2>1. \A topics : topics \subseteq FlowTopics =>
             /\ ShapeOf(k)
             /\ tp[1] \in topics => View(k, topics) = Appended(View(l, topics), tp, e)
             /\ tp[1] \notin topics => View(k, topics) = View(l, topics)
      <3>1. SUFFICES ASSUME NEW topics, topics \subseteq FlowTopics
                     PROVE  /\ ShapeOf(Appended(l, tp, e))
                            /\ tp[1] \in topics =>
                                  View(Appended(l, tp, e), topics) = Appended(View(l, topics), tp, e)
                            /\ tp[1] \notin topics =>
                                  View(Appended(l, tp, e), topics) = View(l, topics)
        BY <1>3
      <3>2. tp \in FlowTopics \X Partitions
        BY <1>5
      <3> QED BY <3>1, <3>2, AppendViewed
    <2> QED BY <1>1, <1>5, <1>6, <2>1
  <1> QED BY <1>1, <1>3, <1>7 DEF AnswersAbout

LEMMA AnswerViewed ==
    ASSUME LogShape, NEW o \in Orders, NEW kind \in InventoryAnswers,
           NEW k, k = Appended(log, <<"inventory.v1", PartitionOf[o]>>,
                               [order |-> o, kind |-> kind])
    PROVE  /\ AnswersAbout(k, o)
           /\ View(k, Inventory!InventoryTopics) =
                Appended(LogOf(Inventory!InventoryTopics), <<"inventory.v1", PartitionOf[o]>>,
                         [order |-> o, kind |-> kind])
  <1>1. PICK tp, e, l : /\ tp = <<"inventory.v1", PartitionOf[o]>>
                        /\ e = [order |-> o, kind |-> kind] /\ l = log
    OBVIOUS
  <1>2. /\ tp \in FlowTopics \X Partitions /\ tp[1] \in Inventory!InventoryTopics
        /\ tp[1] \in Saga!SagaTopics /\ tp[1] \notin Payment!PaymentTopics
    BY <1>1, FlowAssumption, TopicNames
  <1>3. /\ Payment!PaymentTopics \subseteq FlowTopics
        /\ Inventory!InventoryTopics \subseteq FlowTopics /\ Saga!SagaTopics \subseteq FlowTopics
    BY TopicNames
  <1>4. ShapeOf(l) /\ k = Appended(l, tp, e)
    BY <1>1, LogViewed
  <1>5. /\ ShapeOf(k)
        /\ View(k, Inventory!InventoryTopics) = Appended(View(l, Inventory!InventoryTopics), tp, e)
        /\ View(k, Payment!PaymentTopics) = View(l, Payment!PaymentTopics)
        /\ View(k, Saga!SagaTopics) = Appended(View(l, Saga!SagaTopics), tp, e)
    BY <1>2, <1>3, <1>4, AppendViewed
  <1> QED BY <1>1, <1>5, LogViewed DEF AnswersAbout

(* A step of inventory-service in the flow is one of its own specification.    *)
LEMMA InventoryStepSeen ==
    ASSUME InventoryProof!DeliveryInvariant, LogShape, Inventory!InventoryStep
    PROVE  /\ InventoryProof!InventoryStep
           /\ LogShape' /\ SagaUndisturbed(InventoryAnswers)
           /\ UNCHANGED LogOf(Payment!PaymentTopics)
  <1>0. UNCHANGED log => /\ LogShape' /\ SagaUndisturbed(InventoryAnswers)
                         /\ UNCHANGED LogOf(Payment!PaymentTopics)
    BY SameSeen DEF SagaUndisturbed
  <1>1. ASSUME NEW i \in InventoryInstances, Inventory!Handle(i)
        PROVE  InventoryProof!Handle(i) /\ UNCHANGED log
    <2>1. PICK tp \in InventoryProof!Subscription :
             Inventory!SkipDuplicate(i, tp) \/ Inventory!BeginReservation(i, tp)
      BY <1>1, InventoryFacts DEF Inventory!Handle
    <2>2. UNCHANGED <<log, LogOf(Inventory!InventoryTopics)>>
      BY <2>1, SameSeen DEF Inventory!SkipDuplicate, Inventory!BeginReservation
    <2>3. CASE Inventory!SkipDuplicate(i, tp)
      <3>1. InventoryProof!SkipDuplicate(i, tp)
        BY <2>2, <2>3, InventoryDelivers
           DEF Inventory!SkipDuplicate, InventoryProof!SkipDuplicate,
               Inventory!IsDuplicate, InventoryProof!IsDuplicate,
               Inventory!FinishAtOnce, InventoryProof!FinishAtOnce,
               Inventory!Resolved, InventoryProof!Resolved
      <3> QED BY <2>2, <3>1 DEF InventoryProof!Handle
    <2>4. CASE Inventory!BeginReservation(i, tp)
      <3>1. InventoryProof!BeginReservation(i, tp)
        BY <2>2, <2>4, InventoryDelivers
           DEF Inventory!BeginReservation, InventoryProof!BeginReservation,
               Inventory!IsDuplicate, InventoryProof!IsDuplicate,
               Inventory!BeginHandling, InventoryProof!BeginHandling
      <3> QED BY <2>2, <3>1 DEF InventoryProof!Handle
    <2> QED BY <2>1, <2>3, <2>4
  <1>2. ASSUME NEW i \in InventoryInstances, Inventory!Commit(i)
        PROVE  InventoryProof!Commit(i) /\ UNCHANGED log
    <2>1. UNCHANGED <<log, LogOf(Inventory!InventoryTopics)>>
      BY <1>2, SameSeen DEF Inventory!Commit, Inventory!AutoCommit
    <2> QED BY <1>2, <2>1 DEF Inventory!Commit, Inventory!AutoCommit,
                              InventoryProof!Commit, InventoryProof!AutoCommit
  <1>3. ASSUME NEW i \in InventoryInstances, Inventory!Crash(i)
        PROVE  InventoryProof!Crash(i) /\ UNCHANGED log
    <2>1. /\ Inventory!Fault("crash")
          /\ Inventory!Rejoin(InventoryInstances \ {i}, inventoryGroup.committed)
          /\ inventoryProcessed' = [inventoryProcessed EXCEPT ![i] = {}]
          /\ \E shelf \in InventoryProof!FreshShelf : inventory' = [inventory EXCEPT ![i] = shelf]
      BY <1>3 DEF Inventory!Crash, Inventory!CrashAndRejoin,
                  Inventory!FreshShelf, InventoryProof!FreshShelf
    <2>2. InventoryProof!Rejoin(InventoryInstances \ {i}, inventoryGroup.committed) /\ UNCHANGED log
      BY <2>1, InventoryRejoins DEF Inventory!Rejoin
    <2> QED BY <2>1, <2>2 DEF InventoryProof!Crash, InventoryProof!CrashAndRejoin,
                              Inventory!Fault, InventoryProof!Fault
  <1>4. CASE Inventory!Answer
    <2>1. PICK m \in inventoryInFlight :
             \/ Inventory!ReserveAndAnswer(m) \/ Inventory!ReservationFails(m)
             \/ Inventory!RetrySendFails(m) \/ Inventory!AnswerFails(m)
      BY <1>4 DEF Inventory!Answer
    <2>2. PICK o \in Orders, kind \in InventoryAnswers :
             /\ Saga!Placed(o) /\ kind = Inventory!AnswerKind(m)
             /\ o = Inventory!EventOf(m).order /\ o = InventoryProof!EventOf(m).order
      BY InventoryHandles DEF Inventory!AnswerKind, InventoryAnswers
    <2>3. /\ Inventory!Attempt(m) = InventoryProof!Attempt(m)
          /\ kind = InventoryProof!AnswerKind(m)
      BY <2>2, SameReservation DEF Inventory!Attempt, InventoryProof!Attempt,
         Inventory!AnswerKind, InventoryProof!AnswerKind
    <2>4. AnswersAbout(log', o) => /\ LogShape' /\ SagaUndisturbed(InventoryAnswers)
                                   /\ UNCHANGED LogOf(Payment!PaymentTopics)
      BY <2>2, AnswersHeard
    <2>5. PICK l, answered, seen :
             /\ l = log /\ seen = LogOf(Inventory!InventoryTopics)
             /\ answered = Appended(log, <<"inventory.v1", PartitionOf[o]>>,
                                    [order |-> o, kind |-> kind])
      OBVIOUS
    <2>6. /\ AnswersAbout(l, o) /\ View(l, Inventory!InventoryTopics) = seen
          /\ AnswersAbout(answered, o)
          /\ View(answered, Inventory!InventoryTopics) =
                Appended(seen, <<"inventory.v1", PartitionOf[o]>>, [order |-> o, kind |-> kind])
      BY <2>5, AnswerViewed, NothingAnswered, LogViewed
    <2>7. LogOf(Inventory!InventoryTopics)' = View(log', Inventory!InventoryTopics)
      BY LogViewed
    <2>8. \A topics \in {l, answered} :
             LET k == Inventory!HandleFailedEvent(topics, o, 0)
             IN  /\ AnswersAbout(k, o)
                 /\ View(k, Inventory!InventoryTopics) = InventoryProof!HandleFailedEvent(
                        View(topics, Inventory!InventoryTopics), o, 0)
      <3>1. ASSUME NEW topics \in {l, answered}
            PROVE  LET k == Inventory!HandleFailedEvent(topics, o, 0)
                   IN  /\ AnswersAbout(k, o)
                       /\ View(k, Inventory!InventoryTopics) = InventoryProof!HandleFailedEvent(
                              View(topics, Inventory!InventoryTopics), o, 0)
        <4>1. AnswersAbout(topics, o) /\ ShapeOf(topics)
          BY <2>6 DEF AnswersAbout
        <4>2. PICK k : k = Inventory!HandleFailedEvent(topics, o, 0)
          OBVIOUS
        <4>3. /\ AnswersAbout(k, o)
              /\ View(k, Inventory!InventoryTopics) = InventoryProof!HandleFailedEvent(
                      View(topics, Inventory!InventoryTopics), o, 0)
          BY <4>1, <4>2, FailureViewed
        <4> QED BY <4>2, <4>3
      <3> QED BY <3>1
    <2>9. CASE Inventory!ReserveAndAnswer(m)
      <3>1. log' = answered
        BY <2>2, <2>5, <2>9 DEF Inventory!ReserveAndAnswer, Inventory!Send, Appended
      <3>2. InventoryProof!Send("inventory.v1", o, kind) /\ AnswersAbout(log', o)
        BY <2>5, <2>6, <2>7, <3>1 DEF InventoryProof!Send, Appended
      <3>3. InventoryProof!ReserveAndAnswer(m)
        BY <2>2, <2>3, <2>9, <3>2 DEF Inventory!ReserveAndAnswer, InventoryProof!ReserveAndAnswer,
           Inventory!FinishHandling, InventoryProof!FinishHandling,
           Inventory!Resolved, InventoryProof!Resolved
      <3> QED BY <2>4, <3>2, <3>3 DEF InventoryProof!InventoryStep, InventoryProof!Answer
    <2>10. CASE Inventory!ReservationFails(m)
      <3>1. log' = Inventory!HandleFailedEvent(l, o, 0)
        BY <2>2, <2>5, <2>10 DEF Inventory!ReservationFails
      <3>2. /\ LogOf(Inventory!InventoryTopics)' = InventoryProof!HandleFailedEvent(seen, o, 0)
            /\ AnswersAbout(log', o)
        BY <2>6, <2>7, <2>8, <3>1
      <3>3. InventoryProof!ReservationFails(m)
        BY <2>2, <2>5, <2>10, <3>2 DEF Inventory!ReservationFails, InventoryProof!ReservationFails,
           Inventory!FinishHandling, InventoryProof!FinishHandling,
           Inventory!Resolved, InventoryProof!Resolved
      <3> QED BY <2>4, <3>2, <3>3 DEF InventoryProof!InventoryStep, InventoryProof!Answer
    <2>11. CASE Inventory!RetrySendFails(m)
      <3>1. log' \in {l, Inventory!HandleFailedEvent(l, o, 0)}
        BY <2>2, <2>5, <2>11 DEF Inventory!RetrySendFails
      <3>2. /\ LogOf(Inventory!InventoryTopics)'
                 \in {seen, InventoryProof!HandleFailedEvent(seen, o, 0)}
            /\ AnswersAbout(log', o)
        BY <2>6, <2>7, <2>8, <3>1
      <3>3. InventoryProof!RetrySendFails(m)
        BY <2>2, <2>5, <2>11, <3>2 DEF Inventory!RetrySendFails, InventoryProof!RetrySendFails,
           Inventory!Fault, InventoryProof!Fault,
           Inventory!FinishHandling, InventoryProof!FinishHandling,
           Inventory!Resolved, InventoryProof!Resolved
      <3> QED BY <2>4, <3>2, <3>3 DEF InventoryProof!InventoryStep, InventoryProof!Answer
    <2>12. CASE Inventory!AnswerFails(m)
      <3>1. PICK topics \in {l, answered} :
               log' \in {topics, Inventory!HandleFailedEvent(topics, o, 0)}
        BY <2>2, <2>5, <2>12 DEF Inventory!AnswerFails, Appended
      <3>2. PICK viewed : /\ viewed = View(topics, Inventory!InventoryTopics)
                          /\ viewed \in {seen, [seen EXCEPT ![<<"inventory.v1", PartitionOf[o]>>] =
                                Append(@, [order |-> o, kind |-> kind])]}
        BY <2>6, <3>1 DEF Appended
      <3>3. /\ LogOf(Inventory!InventoryTopics)'
                 \in {viewed, InventoryProof!HandleFailedEvent(viewed, o, 0)}
            /\ AnswersAbout(log', o)
        BY <2>6, <2>7, <2>8, <3>1, <3>2
      <3>4. InventoryProof!AnswerFails(m)
        BY <2>2, <2>3, <2>5, <2>12, <3>2, <3>3 DEF Inventory!AnswerFails, InventoryProof!AnswerFails,
           Inventory!Fault, InventoryProof!Fault,
           Inventory!FinishHandling, InventoryProof!FinishHandling,
           Inventory!Resolved, InventoryProof!Resolved
      <3> QED BY <2>4, <3>3, <3>4 DEF InventoryProof!InventoryStep, InventoryProof!Answer
    <2> QED BY <2>1, <2>9, <2>10, <2>11, <2>12
  <1>5. CASE Inventory!GroupRebalances
    <2>1. /\ Inventory!Fault("rebalance") /\ UNCHANGED <<inventoryProcessed, inventory>>
          /\ Inventory!Rejoin(InventoryInstances, inventoryGroup.committed)
      BY <1>5 DEF Inventory!GroupRebalances, Inventory!Rebalance
    <2>2. InventoryProof!Rejoin(InventoryInstances, inventoryGroup.committed) /\ UNCHANGED log
      BY <2>1, InventoryRejoins DEF Inventory!Rejoin
    <2> QED BY <1>0, <2>1, <2>2 DEF InventoryProof!GroupRebalances, InventoryProof!Rebalance,
                              Inventory!Fault, InventoryProof!Fault, InventoryProof!InventoryStep
  <1>6. CASE Inventory!ReplayOrders
    <2>1. PICK earliest : earliest = InventoryProof!ResetToEarliest(inventoryGroup.committed)
      OBVIOUS
    <2>2. /\ Inventory!Fault("replay") /\ inventoryProcessed' = [i \in InventoryInstances |-> {}]
          /\ inventory' \in [InventoryInstances -> InventoryProof!FreshShelf]
          /\ Inventory!Rejoin({}, earliest)
      BY <1>6, <2>1 DEF Inventory!ReplayOrders, Inventory!Replay, Inventory!ResetToEarliest,
                        InventoryProof!ResetToEarliest, Inventory!FreshShelf, InventoryProof!FreshShelf
    <2>3. InventoryProof!Rejoin({}, earliest)
      BY <2>2, InventoryRejoins
    <2>4. UNCHANGED log
      BY <2>2 DEF Inventory!Rejoin
    <2> QED BY <1>0, <2>1, <2>2, <2>3, <2>4 DEF InventoryProof!ReplayOrders, InventoryProof!Replay,
                              Inventory!Fault, InventoryProof!Fault, InventoryProof!InventoryStep
  <1> QED BY <1>0, <1>1, <1>2, <1>3, <1>4, <1>5, <1>6
          DEF Inventory!InventoryStep, InventoryProof!InventoryStep

-----------------------------------------------------------------------------
(* order-saga in the flow                                                      *)

LEMMA SagaAssumed ==
    /\ PartitionOf \in [Orders -> Partitions]
    /\ SagaMaxFaults \in [SagaProof!FaultKinds -> Nat]
    /\ SagaInstances # {} /\ SagaProof!IsFiniteSet(SagaInstances)
    /\ InitialCommitted \in {SagaProof!NoOffset, 0}
    /\ MaxAnswers \in Nat
  BY FlowAssumption, SameCounting DEF SagaProof!FaultKinds, Saga!FaultKinds,
         SagaProof!NoOffset, Saga!NoOffset

LEMMA SagaFacts ==
    ASSUME SagaProof!SagaInvariant
    PROVE  /\ SagaProof!GroupOK(SagaProof!Subscription)
           /\ DOMAIN sagaGroup.owner = SagaProof!Subscription
           /\ Saga!Subscription = SagaProof!Subscription
           /\ \A tp \in SagaProof!Subscription :
                 LogOf(Saga!SagaTopics)[tp] = log[tp]
           /\ \A m \in sagaInFlight : m.tp \in SagaProof!Subscription
  <1>1. SagaProof!GroupOK(SagaProof!Subscription)
    BY SagaProof!InvariantFacts, SagaAssumed
  <1>2. /\ sagaGroup \in SagaProof!GroupRecord(SagaProof!Subscription)
        /\ \A m \in sagaInFlight : m.tp \in SagaProof!Subscription
    BY <1>1, SagaProof!GroupFacts, SagaAssumed
  <1>3. DOMAIN sagaGroup.owner = SagaProof!Subscription
    BY <1>2 DEF SagaProof!GroupRecord
  <1>4. /\ Saga!Subscription = SagaProof!Subscription
        /\ SagaProof!Subscription \subseteq Saga!SagaTopics \X Partitions
    BY DEF Saga!Subscription, SagaProof!Subscription, Saga!SagaTopics
  <1> QED BY <1>1, <1>2, <1>3, <1>4, Seen

LEMMA SagaDelivers ==
    ASSUME SagaProof!SagaInvariant, NEW i, NEW tp \in SagaProof!Subscription
    PROVE  Saga!Deliverable(i, tp) <=> SagaProof!Deliverable(i, tp)
  <1>1. LogOf(Saga!SagaTopics)[tp] = log[tp]
    BY SagaFacts
  <1> QED BY <1>1 DEF Saga!Deliverable, SagaProof!Deliverable, Saga!Idle, SagaProof!Idle

LEMMA SagaRejoins ==
    ASSUME SagaProof!SagaInvariant, NEW survivors, NEW committed,
           Saga!Rejoin(survivors, committed)
    PROVE  SagaProof!Rejoin(survivors, committed)
  <1>1. PICK owner \in [SagaProof!Subscription -> SagaInstances] :
           sagaGroup' = [owner |-> owner,
                            position |-> [tp \in DOMAIN owner |-> Saga!Restart(committed, tp)],
                            committed |-> committed,
                            dirty |-> [tp \in DOMAIN owner |-> FALSE]]
    BY SagaFacts DEF Saga!Rejoin
  <1>2. [tp \in DOMAIN owner |-> Saga!Restart(committed, tp)]
           = [tp \in DOMAIN owner |-> SagaProof!Restart(committed, tp)]
    BY SagaFacts DEF Saga!Restart, SagaProof!Restart, Saga!NoOffset, SagaProof!NoOffset
  <1>3. UNCHANGED LogOf(Saga!SagaTopics)
    BY SameSeen DEF Saga!Rejoin
  <1> QED BY <1>1, <1>2, <1>3, SagaFacts DEF Saga!Rejoin, SagaProof!Rejoin

LEMMA SagaLooksAt ==
    ASSUME SagaProof!SagaInvariant, NEW tp \in SagaProof!Subscription
    PROVE  SagaProof!NextEvent(tp) = Saga!NextEvent(tp)
  BY SagaFacts DEF SagaProof!NextEvent, Saga!NextEvent

(* The answer a handler publishes the outcome of.                              *)
LEMMA SagaHandles ==
    ASSUME SagaProof!SagaInvariant, NEW m \in sagaInFlight
    PROVE  /\ SagaProof!EventOf(m) = Saga!EventOf(m)
           /\ \E o \in Orders, kind \in SagaProof!AnswerKinds :
                 Saga!EventOf(m) = [order |-> o, kind |-> kind]
  <1>1. SagaProof!EventOf(m) = Saga!EventOf(m)
    BY SagaFacts DEF SagaProof!EventOf, Saga!EventOf
  <1>2. \E o \in Orders, kind \in SagaProof!AnswerKinds :
           SagaProof!EventOf(m) = [order |-> o, kind |-> kind]
    BY SagaProof!InFlightFacts, SagaAssumed
  <1> QED BY <1>1, <1>2

LEMMA SagaSends ==
    ASSUME LogShape, NEW o \in Orders, NEW answer \in SagaProof!AnswerKinds,
           Saga!Send(Saga!OutcomeTopic(answer), o, Saga!OutcomeKind(answer))
    PROVE  /\ SagaProof!Send(SagaProof!OutcomeTopic(answer), o, SagaProof!OutcomeKind(answer))
           /\ LogShape'
           /\ UNCHANGED <<LogOf(Payment!PaymentTopics), LogOf(Inventory!InventoryTopics)>>
  <1>1. PICK tp, e, topic, kind :
           /\ topic = Saga!OutcomeTopic(answer) /\ kind = Saga!OutcomeKind(answer)
           /\ tp = <<topic, PartitionOf[o]>> /\ e = [order |-> o, kind |-> kind]
    OBVIOUS
  <1>2. /\ topic = SagaProof!OutcomeTopic(answer) /\ kind = SagaProof!OutcomeKind(answer)
        /\ topic \in {"orders.completed.v1", "orders.cancelled.v1"}
    BY <1>1 DEF Saga!OutcomeTopic, SagaProof!OutcomeTopic, Saga!OutcomeKind, SagaProof!OutcomeKind
  <1>3. /\ tp \in FlowTopics \X Partitions /\ tp[1] \in Saga!SagaTopics
        /\ tp[1] \notin Payment!PaymentTopics /\ tp[1] \notin Inventory!InventoryTopics
    BY <1>1, <1>2, FlowAssumption, TopicNames
  <1>4. /\ Payment!PaymentTopics \subseteq FlowTopics
        /\ Inventory!InventoryTopics \subseteq FlowTopics /\ Saga!SagaTopics \subseteq FlowTopics
    BY TopicNames
  <1>5. log' = Appended(log, tp, e)
    BY <1>1 DEF Saga!Send, Appended
  <1>6. /\ LogOf(Saga!SagaTopics)' = Appended(LogOf(Saga!SagaTopics), tp, e) /\ LogShape'
        /\ UNCHANGED <<LogOf(Payment!PaymentTopics), LogOf(Inventory!InventoryTopics)>>
    BY <1>3, <1>4, <1>5, AppendSeen
  <1> QED BY <1>1, <1>2, <1>6 DEF SagaProof!Send, Appended

(* One pass over the stuck orders appends the same completions to the view.    *)
LEMMA FixSeen ==
    ASSUME LogShape, NEW i \in SagaInstances, Saga!FixStuckOrders(i)
    PROVE  /\ SagaProof!FixStuckOrders(i)
           /\ LogShape'
           /\ UNCHANGED <<LogOf(Payment!PaymentTopics), LogOf(Inventory!InventoryTopics)>>
  <1>1. Saga!StuckOrders(i) = SagaProof!StuckOrders(i)
    BY DEF Saga!StuckOrders, SagaProof!StuckOrders, Saga!Stuck, SagaProof!Stuck,
           Saga!Ready, SagaProof!Ready
  <1>2. \A S : Saga!SetToSeq(S) = SagaProof!SetToSeq(S)
    BY DEF Saga!SetToSeq, SagaProof!SetToSeq, Saga!IsInjective, SagaProof!IsInjective,
           Saga!Cardinality, SagaProof!Cardinality
  <1> DEFINE Finished(p) == SagaProof!SetToSeq({[order |-> o, kind |-> "OrderCompleted"] :
                 o \in {s \in SagaProof!StuckOrders(i) : PartitionOf[s] = p}})
  <1>3. log' = [tp \in DOMAIN log |->
            IF tp[1] = "orders.completed.v1" THEN log[tp] \o Finished(tp[2]) ELSE log[tp]]
    BY <1>1, <1>2 DEF Saga!FixStuckOrders
  <1>4. /\ orderStates' = [orderStates EXCEPT ![i] = [o \in Orders |->
              IF o \in SagaProof!StuckOrders(i) THEN [@[o] EXCEPT !.status = "COMPLETED"] ELSE @[o]]]
        /\ UNCHANGED <<sagaFaults, sagaGroup, sagaInFlight>>
    BY <1>1 DEF Saga!FixStuckOrders
  <1>h. HIDE DEF Finished
  <1>5. DOMAIN log = FlowTopics \X Partitions
    BY DEF LogShape, ShapeOf
  <1>6. LogShape'
    BY <1>3, <1>5 DEF LogShape, ShapeOf, FlowTopics
  <1>7. /\ Payment!PaymentTopics \X Partitions \subseteq DOMAIN log
        /\ Inventory!InventoryTopics \X Partitions \subseteq DOMAIN log
        /\ Saga!SagaTopics \X Partitions \subseteq DOMAIN log
        /\ \A tp \in Payment!PaymentTopics \X Partitions : tp[1] # "orders.completed.v1"
        /\ \A tp \in Inventory!InventoryTopics \X Partitions : tp[1] # "orders.completed.v1"
    BY <1>5, TopicNames
  <1>8. UNCHANGED <<LogOf(Payment!PaymentTopics), LogOf(Inventory!InventoryTopics)>>
    <2>1. /\ \A tp \in Payment!PaymentTopics \X Partitions : log'[tp] = log[tp]
          /\ \A tp \in Inventory!InventoryTopics \X Partitions : log'[tp] = log[tp]
      BY <1>3, <1>7
    <2> QED BY <2>1 DEF LogOf, Payment!PaymentTopics, Inventory!InventoryTopics
  <1>9. LogOf(Saga!SagaTopics)' = [tp \in DOMAIN LogOf(Saga!SagaTopics) |->
            IF tp[1] = "orders.completed.v1"
            THEN LogOf(Saga!SagaTopics)[tp] \o Finished(tp[2]) ELSE LogOf(Saga!SagaTopics)[tp]]
    <2>1. \A tp \in Saga!SagaTopics \X Partitions : log'[tp] =
             IF tp[1] = "orders.completed.v1" THEN log[tp] \o Finished(tp[2]) ELSE log[tp]
      BY <1>3, <1>7
    <2> QED BY <2>1, Seen DEF LogOf, Saga!SagaTopics
  <1>10. SagaProof!FixStuckOrders(i)
    BY <1>4, <1>9 DEF SagaProof!FixStuckOrders, Finished
  <1> QED BY <1>6, <1>8, <1>10

LEMMA SameJoin ==
    /\ \A st, kind : Saga!Applied(st, kind) = SagaProof!Applied(st, kind)
    /\ \A st, kind : Saga!Publishes(st, kind) <=> SagaProof!Publishes(st, kind)
    /\ \A i, o : Saga!Tracked(i, o) <=> SagaProof!Tracked(i, o)
    /\ Saga!NewOrder = SagaProof!NewOrder /\ Saga!Untracked = SagaProof!Untracked
    /\ Saga!AnswerKinds = SagaProof!AnswerKinds
  <1>1. \A st, kind : Saga!Applied(st, kind) = SagaProof!Applied(st, kind)
    BY Zenon DEF Saga!Applied, SagaProof!Applied, Saga!Authorized, SagaProof!Authorized,
       Saga!Declined, SagaProof!Declined, Saga!Reserved, SagaProof!Reserved,
       Saga!Rejected, SagaProof!Rejected
  <1> QED BY <1>1 DEF Saga!Publishes, SagaProof!Publishes, Saga!Ready, SagaProof!Ready,
       Saga!Tracked, SagaProof!Tracked, Saga!Untracked, SagaProof!Untracked,
       Saga!NewOrder, SagaProof!NewOrder, Saga!AnswerKinds, SagaProof!AnswerKinds

SagaSteps == /\ SagaProof!SagaStep /\ LogShape'
             /\ UNCHANGED <<LogOf(Payment!PaymentTopics), LogOf(Inventory!InventoryTopics)>>

(* A step of order-saga in the flow is one of its own specification, and the   *)
(* upstream services see nothing of it.                                        *)
LEMMA SagaStepSeen ==
    ASSUME SagaProof!SagaInvariant, LogShape, Saga!SagaStep
    PROVE  SagaSteps
  <1>0. UNCHANGED log => /\ LogShape' /\ UNCHANGED LogOf(Saga!SagaTopics)
                         /\ UNCHANGED <<LogOf(Payment!PaymentTopics), LogOf(Inventory!InventoryTopics)>>
    BY SameSeen
  <1>1. ASSUME NEW i \in SagaInstances, Saga!Handle(i)
        PROVE  SagaSteps
    <2>1. PICK tp \in SagaProof!Subscription :
             Saga!HandleOrderPlaced(i, tp) \/ Saga!DropAnswer(i, tp) \/ Saga!HandleAnswer(i, tp)
      BY <1>1, SagaFacts DEF Saga!Handle
    <2>2. UNCHANGED log
      BY <2>1 DEF Saga!HandleOrderPlaced, Saga!DropAnswer, Saga!HandleAnswer
    <2>3. PICK e : /\ e = Saga!NextEvent(tp) /\ e = SagaProof!NextEvent(tp)
                   /\ Saga!Deliverable(i, tp) <=> SagaProof!Deliverable(i, tp)
                   /\ Saga!FinishAtOnce(tp) <=> SagaProof!FinishAtOnce(tp)
                   /\ Saga!BeginHandling(i, tp) <=> SagaProof!BeginHandling(i, tp)
      BY SagaLooksAt, SagaDelivers DEF Saga!FinishAtOnce, SagaProof!FinishAtOnce,
         Saga!Resolved, SagaProof!Resolved, Saga!BeginHandling, SagaProof!BeginHandling
    <2>4. CASE Saga!HandleOrderPlaced(i, tp)
      <3>1. SagaProof!HandleOrderPlaced(i, tp)
        BY <1>0, <2>2, <2>3, <2>4, SameJoin DEF Saga!HandleOrderPlaced, SagaProof!HandleOrderPlaced
      <3> QED BY <1>0, <2>2, <3>1 DEF SagaProof!Handle, SagaProof!SagaStep, SagaSteps
    <2>5. CASE Saga!DropAnswer(i, tp)
      <3>1. SagaProof!DropAnswer(i, tp)
        BY <1>0, <2>2, <2>3, <2>5, SameJoin DEF Saga!DropAnswer, SagaProof!DropAnswer
      <3> QED BY <1>0, <2>2, <3>1 DEF SagaProof!Handle, SagaProof!SagaStep, SagaSteps
    <2>6. CASE Saga!HandleAnswer(i, tp)
      <3>1. SagaProof!HandleAnswer(i, tp)
        BY <1>0, <2>2, <2>3, <2>6, SameJoin DEF Saga!HandleAnswer, SagaProof!HandleAnswer
      <3> QED BY <1>0, <2>2, <3>1 DEF SagaProof!Handle, SagaProof!SagaStep, SagaSteps
    <2> QED BY <2>1, <2>4, <2>5, <2>6
  <1>2. ASSUME NEW i \in SagaInstances, Saga!Commit(i)
        PROVE  SagaSteps
    <2>1. UNCHANGED log
      BY <1>2 DEF Saga!Commit, Saga!AutoCommit
    <2>2. SagaProof!Commit(i)
      BY <1>0, <1>2, <2>1 DEF Saga!Commit, Saga!AutoCommit, SagaProof!Commit, SagaProof!AutoCommit
    <2> QED BY <1>0, <2>1, <2>2 DEF SagaProof!SagaStep, SagaSteps
  <1>3. ASSUME NEW i \in SagaInstances, Saga!Crash(i)
        PROVE  SagaSteps
    <2>1. /\ Saga!Fault("crash") /\ Saga!Rejoin(SagaInstances \ {i}, sagaGroup.committed)
          /\ orderStates' = [orderStates EXCEPT ![i] = [o \in Orders |-> SagaProof!Untracked]]
      BY <1>3, SameJoin DEF Saga!Crash, Saga!CrashAndRejoin
    <2>2. SagaProof!Rejoin(SagaInstances \ {i}, sagaGroup.committed) /\ UNCHANGED log
      BY <2>1, SagaRejoins DEF Saga!Rejoin
    <2>3. SagaProof!Crash(i)
      BY <2>1, <2>2 DEF SagaProof!Crash, SagaProof!CrashAndRejoin, Saga!Fault, SagaProof!Fault
    <2> QED BY <1>0, <2>2, <2>3 DEF SagaProof!SagaStep, SagaSteps
  <1>4. CASE Saga!Publish
    <2>1. PICK m \in sagaInFlight : Saga!PublishOutcome(m) \/ Saga!PublishOutcomeFails(m)
      BY <1>4 DEF Saga!Publish
    <2>2. PICK o \in Orders, kind \in SagaProof!AnswerKinds :
             SagaProof!EventOf(m) = [order |-> o, kind |-> kind] /\ SagaProof!EventOf(m) = Saga!EventOf(m)
      BY SagaHandles
    <2>3. PICK e : e = Saga!EventOf(m) /\ e = SagaProof!EventOf(m) /\ e.order = o /\ e.kind = kind
      BY <2>2
    <2> DEFINE Sent == SagaProof!Send(SagaProof!OutcomeTopic(kind), o, SagaProof!OutcomeKind(kind))
               Apart == /\ LogShape'
                        /\ UNCHANGED <<LogOf(Payment!PaymentTopics), LogOf(Inventory!InventoryTopics)>>
    <2>4. Saga!Send(Saga!OutcomeTopic(kind), o, Saga!OutcomeKind(kind)) => Sent /\ Apart
      BY SagaSends
    <2>5. Saga!FinishHandling(m) <=> SagaProof!FinishHandling(m)
      BY DEF Saga!FinishHandling, SagaProof!FinishHandling, Saga!Resolved, SagaProof!Resolved
    <2>6. CASE Saga!PublishOutcome(m)
      <3>1. Sent /\ Apart
        BY <2>3, <2>4, <2>6 DEF Saga!PublishOutcome
      <3>2. SagaProof!PublishOutcome(m)
        BY <2>3, <2>5, <2>6, <3>1 DEF Saga!PublishOutcome, SagaProof!PublishOutcome
      <3> QED BY <3>1, <3>2 DEF SagaProof!Publish, SagaProof!SagaStep, SagaSteps
    <2>7. CASE Saga!PublishOutcomeFails(m)
      <3>1. (Sent \/ UNCHANGED LogOf(Saga!SagaTopics)) /\ Apart
        BY <1>0, <2>3, <2>4, <2>7 DEF Saga!PublishOutcomeFails, Saga!SendUnacknowledged
      <3>2. SagaProof!PublishOutcomeFails(m)
        BY <2>3, <2>5, <2>7, <3>1 DEF Saga!PublishOutcomeFails, SagaProof!PublishOutcomeFails,
           SagaProof!SendUnacknowledged, Saga!Fault, SagaProof!Fault
      <3> QED BY <3>1, <3>2 DEF SagaProof!Publish, SagaProof!SagaStep, SagaSteps
    <2> QED BY <2>1, <2>6, <2>7
  <1>5. CASE Saga!GroupRebalances
    <2>1. /\ Saga!Fault("rebalance") /\ UNCHANGED orderStates
          /\ Saga!Rejoin(SagaInstances, sagaGroup.committed)
      BY <1>5 DEF Saga!GroupRebalances, Saga!Rebalance
    <2>2. SagaProof!Rejoin(SagaInstances, sagaGroup.committed) /\ UNCHANGED log
      BY <2>1, SagaRejoins DEF Saga!Rejoin
    <2>3. SagaProof!GroupRebalances
      BY <2>1, <2>2 DEF SagaProof!GroupRebalances, SagaProof!Rebalance, Saga!Fault, SagaProof!Fault
    <2> QED BY <1>0, <2>2, <2>3 DEF SagaProof!SagaStep, SagaSteps
  <1>6. CASE Saga!ReplayOrders
    <2>1. PICK earliest : earliest = SagaProof!ResetToEarliest(sagaGroup.committed)
      OBVIOUS
    <2>2. /\ Saga!Fault("replay") /\ Saga!Rejoin({}, earliest)
          /\ orderStates' = [i \in SagaInstances |-> [o \in Orders |-> SagaProof!Untracked]]
      BY <1>6, <2>1, SameJoin DEF Saga!ReplayOrders, Saga!Replay, Saga!ResetToEarliest,
                                  SagaProof!ResetToEarliest
    <2>3. SagaProof!Rejoin({}, earliest)
      BY <2>2, SagaRejoins
    <2>4. UNCHANGED log
      BY <2>2 DEF Saga!Rejoin
    <2>5. SagaProof!ReplayOrders
      BY <2>1, <2>2, <2>3 DEF SagaProof!ReplayOrders, SagaProof!Replay, Saga!Fault, SagaProof!Fault
    <2> QED BY <1>0, <2>4, <2>5 DEF SagaProof!SagaStep, SagaSteps
  <1>7. ASSUME NEW i \in SagaInstances, Saga!FixStuckOrders(i)
        PROVE  SagaSteps
    BY <1>7, FixSeen DEF SagaProof!SagaStep, SagaSteps
  <1> QED BY <1>1, <1>2, <1>3, <1>4, <1>5, <1>6, <1>7 DEF Saga!SagaStep

-----------------------------------------------------------------------------
(* A placed order reaches all three services.                                  *)

LEMMA PlacementSeen ==
    ASSUME LogShape, NEW o \in Orders, CreateOrder(o)
    PROVE  /\ PaymentProof!CustomerPlaces(o) /\ InventoryProof!CustomerPlaces(o)
           /\ SagaProof!CustomerPlaces(o)
           /\ SagaProof!Send("orders.v1", o, "OrderPlaced")
           /\ LogShape'
  <1>1. PICK tp, e : tp = <<"orders.v1", PartitionOf[o]>> /\ e = [order |-> o, kind |-> "OrderPlaced"]
    OBVIOUS
  <1>2. /\ tp \in FlowTopics \X Partitions /\ tp[1] \in Payment!PaymentTopics
        /\ tp[1] \in Saga!SagaTopics /\ tp[1] \in Inventory!InventoryTopics
        /\ tp \in Payment!PaymentTopics \X Partitions /\ tp \in Saga!SagaTopics \X Partitions
        /\ tp \in Inventory!InventoryTopics \X Partitions
    BY <1>1, FlowAssumption, TopicNames
  <1>3. /\ Payment!PaymentTopics \subseteq FlowTopics
        /\ Inventory!InventoryTopics \subseteq FlowTopics /\ Saga!SagaTopics \subseteq FlowTopics
    BY TopicNames
  <1>4. log' = Appended(log, tp, e)
    BY <1>1 DEF CreateOrder, Saga!PlaceOrder, Saga!Send, Appended
  <1>5. /\ LogOf(Payment!PaymentTopics)' = Appended(LogOf(Payment!PaymentTopics), tp, e)
        /\ LogOf(Inventory!InventoryTopics)' = Appended(LogOf(Inventory!InventoryTopics), tp, e)
        /\ LogOf(Saga!SagaTopics)' = Appended(LogOf(Saga!SagaTopics), tp, e)
        /\ LogShape'
    BY <1>2, <1>3, <1>4, AppendSeen
  <1>6. /\ LogOf(Payment!PaymentTopics)[tp] = log[tp] /\ LogOf(Inventory!InventoryTopics)[tp] = log[tp]
        /\ LogOf(Saga!SagaTopics)[tp] = log[tp]
    BY <1>2, Seen
  <1>7. ~(\E n \in DOMAIN log[tp] : log[tp][n] = e)
    BY <1>1 DEF CreateOrder, Saga!PlaceOrder, Saga!Placed, Saga!Logged, Saga!EventsOf
  <1>8. ~PaymentProof!Placed(o) /\ ~InventoryProof!Placed(o) /\ ~SagaProof!Placed(o)
    BY <1>1, <1>6, <1>7 DEF PaymentProof!Placed, PaymentProof!Logged, PaymentProof!EventsOf,
       InventoryProof!Placed, InventoryProof!Logged, InventoryProof!EventsOf,
       SagaProof!Placed, SagaProof!Logged, SagaProof!EventsOf
  <1>9. PaymentProof!CustomerPlaces(o)
    BY <1>1, <1>5, <1>8 DEF PaymentProof!CustomerPlaces, PaymentProof!PlaceOrder,
       PaymentProof!Send, Appended, CreateOrder, paymentVars
  <1>10. InventoryProof!CustomerPlaces(o)
    BY <1>1, <1>5, <1>8 DEF InventoryProof!CustomerPlaces, InventoryProof!PlaceOrder,
       InventoryProof!Send, Appended, CreateOrder, inventoryVars
  <1>11. SagaProof!CustomerPlaces(o) /\ SagaProof!Send("orders.v1", o, "OrderPlaced")
    BY <1>1, <1>5, <1>8 DEF SagaProof!CustomerPlaces, SagaProof!PlaceOrder,
       SagaProof!Send, Appended, CreateOrder, sagaVars
  <1> QED BY <1>5, <1>9, <1>10, <1>11

-----------------------------------------------------------------------------
(* The answers the saga can hear about an order are as many as the charges and *)
(* reservations of the services, which their own theorems bound.               *)

Said(topic, o, yes, no) ==
    Cardinality(SagaProof!EventsOf(topic, o, yes)) + Cardinality(SagaProof!EventsOf(topic, o, no))

LEMMA PaymentsHeard ==
    ASSUME NEW o \in Orders
    PROVE  /\ PaymentProof!Payments(o) = Said("payments.v1", o, "PaymentAuthorized", "PaymentDeclined")
           /\ PaymentProof!Payments(o)' = Said("payments.v1", o, "PaymentAuthorized", "PaymentDeclined")'
  <1>1. PICK tp : tp = <<"payments.v1", PartitionOf[o]>>
    OBVIOUS
  <1>2. tp \in Payment!PaymentTopics \X Partitions /\ tp \in Saga!SagaTopics \X Partitions
    BY <1>1, FlowAssumption, TopicNames
  <1>3. LogOf(Payment!PaymentTopics)[tp] = log[tp] /\ LogOf(Saga!SagaTopics)[tp] = log[tp]
    BY <1>2, Seen
  <1>4. LogOf(Payment!PaymentTopics)'[tp] = log'[tp] /\ LogOf(Saga!SagaTopics)'[tp] = log'[tp]
    BY <1>2 DEF LogOf, Payment!PaymentTopics, Saga!SagaTopics
  <1>5. \A kind : /\ PaymentProof!EventsOf("payments.v1", o, kind) = SagaProof!EventsOf("payments.v1", o, kind)
                  /\ PaymentProof!EventsOf("payments.v1", o, kind)' = SagaProof!EventsOf("payments.v1", o, kind)'
    BY <1>1, <1>3, <1>4 DEF PaymentProof!EventsOf, SagaProof!EventsOf
  <1>6. \A S : PaymentProof!Cardinality(S) = Cardinality(S)
    BY SameCounting
  <1> QED BY <1>5, <1>6 DEF PaymentProof!Payments, Said

LEMMA ReservationsHeard ==
    ASSUME NEW o \in Orders
    PROVE  /\ InventoryProof!Answers(o) = Said("inventory.v1", o, "InventoryReserved", "InventoryRejected")
           /\ InventoryProof!Answers(o)' = Said("inventory.v1", o, "InventoryReserved", "InventoryRejected")'
  <1>1. PICK tp : tp = <<"inventory.v1", PartitionOf[o]>>
    OBVIOUS
  <1>2. tp \in Inventory!InventoryTopics \X Partitions /\ tp \in Saga!SagaTopics \X Partitions
    BY <1>1, FlowAssumption, TopicNames
  <1>3. LogOf(Inventory!InventoryTopics)[tp] = log[tp] /\ LogOf(Saga!SagaTopics)[tp] = log[tp]
    BY <1>2, Seen
  <1>4. LogOf(Inventory!InventoryTopics)'[tp] = log'[tp] /\ LogOf(Saga!SagaTopics)'[tp] = log'[tp]
    BY <1>2 DEF LogOf, Inventory!InventoryTopics, Saga!SagaTopics
  <1>5. \A kind : /\ InventoryProof!EventsOf("inventory.v1", o, kind) = SagaProof!EventsOf("inventory.v1", o, kind)
                  /\ InventoryProof!EventsOf("inventory.v1", o, kind)' = SagaProof!EventsOf("inventory.v1", o, kind)'
    BY <1>1, <1>3, <1>4 DEF InventoryProof!EventsOf, SagaProof!EventsOf
  <1>6. \A S : InventoryProof!Cardinality(S) = Cardinality(S)
    BY SameCounting
  <1> QED BY <1>5, <1>6 DEF InventoryProof!Answers, Said

(* Only the payment service speaks on payments.v1, and only the inventory      *)
(* service on inventory.v1.                                                    *)
KindsInPlace ==
    \A tp \in DOMAIN LogOf(Saga!SagaTopics) : \A n \in DOMAIN LogOf(Saga!SagaTopics)[tp] :
        /\ tp[1] = "payments.v1" => LogOf(Saga!SagaTopics)[tp][n].kind \in PaymentAnswers
        /\ tp[1] = "inventory.v1" => LogOf(Saga!SagaTopics)[tp][n].kind \in InventoryAnswers

LEMMA AnswersSaid ==
    ASSUME SagaProof!SagaInvariant, KindsInPlace, NEW o \in Orders,
           NEW topic, NEW yes, NEW no,
           \/ topic = "payments.v1" /\ yes = "PaymentAuthorized" /\ no = "PaymentDeclined"
           \/ topic = "inventory.v1" /\ yes = "InventoryReserved" /\ no = "InventoryRejected"
    PROVE  /\ SagaProof!Cardinality(SagaProof!Answers(topic, o)) = Said(topic, o, yes, no)
           /\ Said(topic, o, yes, no) \in Nat
  <1>1. PICK tp, events : tp = <<topic, PartitionOf[o]>> /\ events = LogOf(Saga!SagaTopics)[tp]
    OBVIOUS
  <1>2. tp \in DOMAIN LogOf(Saga!SagaTopics) /\ tp[1] = topic
    <2>1. topic \in Saga!SagaTopics /\ PartitionOf[o] \in Partitions
      BY TopicNames, FlowAssumption
    <2> QED BY <1>1, <2>1, Seen
  <1>3. /\ SagaProof!LogOK /\ events \in Seq(SagaProof!Event)
        /\ tp = SagaProof!Keyed(topic, o)
    <2>1. SagaProof!LogOK
      BY SagaProof!InvariantFacts, SagaAssumed
    <2> QED BY <1>1, <1>2, <2>1 DEF SagaProof!LogOK, SagaProof!Keyed
  <1>4. \A n \in DOMAIN events : \E p : \E kind \in {yes, no} : events[n] = [order |-> p, kind |-> kind]
    <2>1. SUFFICES ASSUME NEW n \in DOMAIN events
                   PROVE  \E p : \E kind \in {yes, no} : events[n] = [order |-> p, kind |-> kind]
      OBVIOUS
    <2>2. /\ tp[1] = "payments.v1" => events[n].kind \in PaymentAnswers
          /\ tp[1] = "inventory.v1" => events[n].kind \in InventoryAnswers
      BY <1>1, <1>2 DEF KindsInPlace
    <2>3. events[n].kind \in {yes, no}
      BY <1>2, <2>2 DEF PaymentAnswers, InventoryAnswers
    <2>4. events[n] \in SagaProof!Event
      BY <1>3
    <2>5. events[n] = [order |-> events[n].order, kind |-> events[n].kind]
      BY <2>4 DEF SagaProof!Event
    <2> QED BY <2>3, <2>5
  <1>5. /\ SagaProof!EventsOf(topic, o, yes) \cup SagaProof!EventsOf(topic, o, no)
              = SagaProof!Answers(topic, o)
        /\ SagaProof!EventsOf(topic, o, yes) \cap SagaProof!EventsOf(topic, o, no) = {}
    <2>1. /\ SagaProof!EventsOf(topic, o, yes) = {n \in DOMAIN events : events[n] = [order |-> o, kind |-> yes]}
          /\ SagaProof!EventsOf(topic, o, no) = {n \in DOMAIN events : events[n] = [order |-> o, kind |-> no]}
          /\ SagaProof!Answers(topic, o) = {n \in DOMAIN events : events[n].order = o}
      BY <1>1 DEF SagaProof!EventsOf, SagaProof!Answers
    <2>2. \A n \in DOMAIN events :
             /\ events[n].order = o <=>
                   events[n] = [order |-> o, kind |-> yes] \/ events[n] = [order |-> o, kind |-> no]
             /\ ~(events[n] = [order |-> o, kind |-> yes] /\ events[n] = [order |-> o, kind |-> no])
      <3>1. yes # no
        OBVIOUS
      <3> QED BY <1>4, <3>1
    <2> QED BY <2>1, <2>2
  <1>6. \A kind : IsFiniteSet(SagaProof!EventsOf(topic, o, kind))
    <2>1. \A kind : SagaProof!IsFiniteSet(SagaProof!EventsOf(topic, o, kind))
      BY <1>2, <1>3, SagaProof!EventsFinite, SagaAssumed
    <2> QED BY <2>1, SameCounting
  <1>7. /\ Cardinality(SagaProof!EventsOf(topic, o, yes)) \in Nat
        /\ Cardinality(SagaProof!EventsOf(topic, o, no)) \in Nat
        /\ Cardinality({}) = 0
    BY <1>6, FS_CardinalityType, FS_EmptySet
  <1>8. Cardinality(SagaProof!Answers(topic, o)) = Said(topic, o, yes, no)
    <2>1. PICK authorized, declined :
             authorized = SagaProof!EventsOf(topic, o, yes) /\ declined = SagaProof!EventsOf(topic, o, no)
      OBVIOUS
    <2>2. Cardinality(authorized \cup declined)
             = Cardinality(authorized) + Cardinality(declined) - Cardinality(authorized \cap declined)
      <3>1. IsFiniteSet(authorized) /\ IsFiniteSet(declined)
        BY <1>6, <2>1
      <3> QED BY <3>1, FS_Union
    <2>3. /\ authorized \cup declined = SagaProof!Answers(topic, o) /\ authorized \cap declined = {}
          /\ Cardinality(authorized) \in Nat /\ Cardinality(declined) \in Nat
          /\ Said(topic, o, yes, no) = Cardinality(authorized) + Cardinality(declined)
      BY <1>5, <1>7, <2>1 DEF Said
    <2>4. Cardinality(authorized \cup declined) = Cardinality(authorized) + Cardinality(declined) - 0
      BY <1>7, <2>2, <2>3
    <2> QED BY <2>3, <2>4
  <1> QED BY <1>7, <1>8, SameCounting DEF Said

(* A send to a topic of the saga keeps it so.                                  *)
LEMMA KindsKept ==
    ASSUME SagaProof!SagaInvariant, KindsInPlace,
           NEW topic \in Saga!SagaTopics, NEW o \in Orders, NEW kind,
           topic = "payments.v1" => kind \in PaymentAnswers,
           topic = "inventory.v1" => kind \in InventoryAnswers,
           SagaProof!Send(topic, o, kind)
    PROVE  KindsInPlace'
  <1>1. PICK tp0, e, old, new :
           /\ tp0 = <<topic, PartitionOf[o]>> /\ e = [order |-> o, kind |-> kind]
           /\ old = LogOf(Saga!SagaTopics) /\ new = LogOf(Saga!SagaTopics)'
    OBVIOUS
  <1>2. new = [old EXCEPT ![tp0] = Append(@, e)] /\ tp0[1] = topic
    BY <1>1 DEF SagaProof!Send
  <1>3. \A tp \in DOMAIN old : old[tp] \in Seq(SagaProof!Event)
    BY <1>1, SagaProof!InvariantFacts, SagaAssumed DEF SagaProof!LogOK
  <1>4. ASSUME NEW tp \in DOMAIN new, NEW n \in DOMAIN new[tp]
        PROVE  /\ tp[1] = "payments.v1" => new[tp][n].kind \in PaymentAnswers
               /\ tp[1] = "inventory.v1" => new[tp][n].kind \in InventoryAnswers
    <2>1. tp \in DOMAIN old /\ old[tp] \in Seq(SagaProof!Event)
      BY <1>2, <1>3
    <2>2. \/ n \in DOMAIN old[tp] /\ new[tp][n] = old[tp][n]
          \/ tp = tp0 /\ new[tp][n] = e
      <3>1. CASE tp # tp0
        BY <1>2, <2>1, <3>1
      <3>2. CASE tp = tp0
        <4>1. PICK said : said = old[tp] /\ said \in Seq(SagaProof!Event)
          BY <2>1
        <4>2. new[tp] = Append(said, e) /\ n \in DOMAIN Append(said, e)
          BY <1>2, <2>1, <3>2, <4>1
        <4>3. Append(said, e)[n] = IF n \in DOMAIN said THEN said[n] ELSE e
          BY <4>1, <4>2
        <4> QED BY <3>2, <4>1, <4>2, <4>3
      <3> QED BY <3>1, <3>2
    <2>3. CASE n \in DOMAIN old[tp] /\ new[tp][n] = old[tp][n]
      BY <1>1, <2>1, <2>3 DEF KindsInPlace
    <2>4. CASE tp = tp0 /\ new[tp][n] = e
      <3>1. e.kind = kind
        BY <1>1
      <3>2. new[tp][n].kind = kind /\ tp[1] = topic
        BY <1>2, <2>4, <3>1
      <3> QED BY <3>2
    <2> QED BY <2>2, <2>3, <2>4
  <1> QED BY <1>1, <1>4 DEF KindsInPlace, PaymentAnswers, InventoryAnswers

-----------------------------------------------------------------------------
(* The bound on the answers: the budgets of the faults bound the charges and   *)
(* the reservations of an order.                                               *)

PaymentWithinBudget ==
    \A kind \in PaymentProof!FaultKinds : paymentFaults[kind] <= PaymentMaxFaults[kind]

InventoryWithinBudget ==
    \A kind \in InventoryProof!FaultKinds : inventoryFaults[kind] <= InventoryMaxFaults[kind]

LEMMA PaymentSpends ==
    ASSUME PaymentProof!PaymentInvariant, PaymentWithinBudget,
           [PaymentProof!Next]_PaymentProof!vars
    PROVE  PaymentWithinBudget'
  <1>1. paymentFaults \in [PaymentProof!FaultKinds -> Nat]
    BY PaymentProof!InvariantFacts, PaymentAssumed
  <1>2. \/ UNCHANGED paymentFaults
        \/ \E kind \in PaymentProof!FaultKinds : PaymentProof!Fault(kind)
    BY DEF PaymentProof!Next, PaymentProof!vars, PaymentProof!CustomerPlaces, PaymentProof!PaymentStep,
       PaymentProof!Handle, PaymentProof!SkipDuplicate, PaymentProof!BeginPayment,
       PaymentProof!Commit, PaymentProof!AutoCommit, PaymentProof!Crash, PaymentProof!CrashAndRejoin,
       PaymentProof!Answer, PaymentProof!AnswerOrder, PaymentProof!AnswerFails,
       PaymentProof!GroupRebalances, PaymentProof!Rebalance,
       PaymentProof!ReplayOrders, PaymentProof!Replay, PaymentProof!FaultKinds
  <1>3. \A kind \in PaymentProof!FaultKinds :
           PaymentMaxFaults[kind] \in Nat /\ paymentFaults[kind] \in Nat
    BY <1>1, PaymentAssumed
  <1> QED BY <1>1, <1>2, <1>3 DEF PaymentProof!Fault, PaymentWithinBudget, PaymentProof!FaultKinds

LEMMA InventorySpends ==
    ASSUME InventoryProof!DeliveryInvariant, InventoryWithinBudget,
           [InventoryProof!Next]_InventoryProof!vars
    PROVE  InventoryWithinBudget'
  <1>1. inventoryFaults \in [InventoryProof!FaultKinds -> Nat]
    BY InventoryProof!InvariantFacts, InventoryAssumed
  <1>2. \/ UNCHANGED inventoryFaults
        \/ \E kind \in InventoryProof!FaultKinds : InventoryProof!Fault(kind)
    BY DEF InventoryProof!Next, InventoryProof!vars, InventoryProof!CustomerPlaces,
       InventoryProof!InventoryStep,
       InventoryProof!Handle, InventoryProof!SkipDuplicate, InventoryProof!BeginReservation,
       InventoryProof!Commit, InventoryProof!AutoCommit, InventoryProof!Crash,
       InventoryProof!CrashAndRejoin, InventoryProof!Answer, InventoryProof!ReserveAndAnswer,
       InventoryProof!ReservationFails, InventoryProof!RetrySendFails, InventoryProof!AnswerFails,
       InventoryProof!GroupRebalances, InventoryProof!Rebalance,
       InventoryProof!ReplayOrders, InventoryProof!Replay, InventoryProof!FaultKinds
  <1>3. \A kind \in InventoryProof!FaultKinds :
           InventoryMaxFaults[kind] \in Nat /\ inventoryFaults[kind] \in Nat
    BY <1>1, InventoryAssumed
  <1> QED BY <1>1, <1>2, <1>3 DEF InventoryProof!Fault, InventoryWithinBudget, InventoryProof!FaultKinds

(* One answer of every process that was ever started and one for every         *)
(* rejected send.                                                              *)
LEMMA WithinBudget ==
    ASSUME NEW instances, NEW budget, NEW n \in Nat, NEW size \in Nat, size = Cardinality(instances),
           NEW crashes \in Nat, NEW replays \in Nat, NEW sends \in Nat, NEW living \in Nat,
           budget["crash"] \in Nat, budget["replay"] \in Nat, budget["send"] \in Nat,
           crashes <= budget["crash"], replays <= budget["replay"], sends <= budget["send"],
           living <= size, n <= living + (crashes + size * replays) + sends
    PROVE  n <= AnswersAtMost(instances, budget)
  <1>1. PICK c \in Nat, r \in Nat, s \in Nat :
           c = budget["crash"] /\ r = budget["replay"] /\ s = budget["send"]
    OBVIOUS
  <1>2. \A a, b, d \in Nat : b <= d => a * b <= a * d
    OBVIOUS
  <1>3. size * replays <= size * r /\ size * (1 + r) = size + size * r
        /\ size * replays \in Nat /\ size * r \in Nat
    BY <1>1, <1>2
  <1>4. PICK x \in Nat, y \in Nat : x = size * replays /\ y = size * r
    BY <1>3
  <1>5. n <= size + y + c + s
    BY <1>1, <1>3, <1>4
  <1> QED BY <1>1, <1>3, <1>4, <1>5 DEF AnswersAtMost

LEMMA PaymentsBounded ==
    PaymentProof!PaymentInvariant /\ PaymentProof!ChargedOncePerProcess /\ PaymentWithinBudget
        => \A o \in Orders : PaymentProof!Payments(o) <= MaxAnswers
  <1> SUFFICES ASSUME PaymentProof!PaymentInvariant, PaymentProof!ChargedOncePerProcess,
                      PaymentWithinBudget, NEW o \in Orders
               PROVE  PaymentProof!Payments(o) <= MaxAnswers
    OBVIOUS
  <1>1. PICK size, living, dead, n : /\ size = Cardinality(PaymentInstances)
                                     /\ living = PaymentProof!Cardinality(PaymentProof!Remembering(o))
                                     /\ dead = PaymentProof!DeadProcesses
                                     /\ n = PaymentProof!Payments(o)
    OBVIOUS
  <1>2. /\ PaymentProof!Cardinality(PaymentInstances) = size
        /\ n \in Nat /\ living \in Nat /\ size \in Nat /\ living <= size
    BY <1>1, SameCounting, PaymentProof!MemoryFacts, PaymentAssumed
  <1>3. paymentFaults \in [PaymentProof!FaultKinds -> Nat]
    BY PaymentProof!InvariantFacts, PaymentAssumed
  <1>4. /\ n <= living + dead + paymentFaults["send"]
        /\ dead = paymentFaults["crash"] + size * paymentFaults["replay"]
    BY <1>1, <1>2 DEF PaymentProof!ChargedOncePerProcess, PaymentProof!DeadProcesses
  <1>5. \A kind \in {"crash", "replay", "send"} :
           /\ paymentFaults[kind] \in Nat /\ PaymentMaxFaults[kind] \in Nat
           /\ paymentFaults[kind] <= PaymentMaxFaults[kind]
    BY <1>3, PaymentAssumed DEF PaymentWithinBudget, PaymentProof!FaultKinds
  <1>6. n <= AnswersAtMost(PaymentInstances, PaymentMaxFaults)
    BY <1>1, <1>2, <1>4, <1>5, WithinBudget
  <1>7. /\ AnswersAtMost(PaymentInstances, PaymentMaxFaults) <= MaxAnswers /\ MaxAnswers \in Nat
        /\ AnswersAtMost(PaymentInstances, PaymentMaxFaults) \in Int
    <2>1. \A a, b \in Nat : a * b \in Nat
      OBVIOUS
    <2>2. size * (1 + PaymentMaxFaults["replay"]) \in Nat
      BY <1>2, <1>5, <2>1
    <2> QED BY <1>1, <1>5, <2>2, FlowAssumption DEF AnswersAtMost
  <1> QED BY <1>1, <1>2, <1>6, <1>7

LEMMA ReservationsBounded ==
    InventoryProof!DeliveryInvariant /\ InventoryProof!ReservedOncePerProcess /\ InventoryWithinBudget
        => \A o \in Orders : InventoryProof!Answers(o) <= MaxAnswers
  <1> SUFFICES ASSUME InventoryProof!DeliveryInvariant, InventoryProof!ReservedOncePerProcess,
                      InventoryWithinBudget, NEW o \in Orders
               PROVE  InventoryProof!Answers(o) <= MaxAnswers
    OBVIOUS
  <1>1. PICK size, living, dead, n : /\ size = Cardinality(InventoryInstances)
                                     /\ living = InventoryProof!Cardinality(InventoryProof!Remembering(o))
                                     /\ dead = InventoryProof!DeadProcesses
                                     /\ n = InventoryProof!Answers(o)
    OBVIOUS
  <1>2. /\ InventoryProof!Cardinality(InventoryInstances) = size
        /\ n \in Nat /\ living \in Nat /\ size \in Nat /\ living <= size
    BY <1>1, SameCounting, InventoryProof!MemoryFacts, InventoryAssumed
  <1>3. inventoryFaults \in [InventoryProof!FaultKinds -> Nat]
    BY InventoryProof!InvariantFacts, InventoryAssumed
  <1>4. /\ n <= living + dead + inventoryFaults["send"]
        /\ dead = inventoryFaults["crash"] + size * inventoryFaults["replay"]
    BY <1>1, <1>2 DEF InventoryProof!ReservedOncePerProcess, InventoryProof!DeadProcesses
  <1>5. \A kind \in {"crash", "replay", "send"} :
           /\ inventoryFaults[kind] \in Nat /\ InventoryMaxFaults[kind] \in Nat
           /\ inventoryFaults[kind] <= InventoryMaxFaults[kind]
    BY <1>3, InventoryAssumed DEF InventoryWithinBudget, InventoryProof!FaultKinds
  <1>6. n <= AnswersAtMost(InventoryInstances, InventoryMaxFaults)
    BY <1>1, <1>2, <1>4, <1>5, WithinBudget
  <1>7. /\ AnswersAtMost(InventoryInstances, InventoryMaxFaults) <= MaxAnswers /\ MaxAnswers \in Nat
        /\ AnswersAtMost(InventoryInstances, InventoryMaxFaults) \in Int
    <2>1. \A a, b \in Nat : a * b \in Nat
      OBVIOUS
    <2>2. size * (1 + InventoryMaxFaults["replay"]) \in Nat
      BY <1>2, <1>5, <2>1
    <2> QED BY <1>1, <1>5, <2>2, FlowAssumption DEF AnswersAtMost
  <1> QED BY <1>1, <1>2, <1>6, <1>7

-----------------------------------------------------------------------------
(* An answer the saga hears is one its own specification allows.               *)

LEMMA PlacedSeen ==
    ASSUME NEW o \in Orders, Saga!Placed(o)
    PROVE  SagaProof!Placed(o)
  <1>1. PICK tp : tp = <<"orders.v1", PartitionOf[o]>>
    OBVIOUS
  <1>2. tp \in Saga!SagaTopics \X Partitions
    BY <1>1, FlowAssumption, TopicNames
  <1>3. LogOf(Saga!SagaTopics)[tp] = log[tp]
    BY <1>2, Seen
  <1>4. SagaProof!EventsOf("orders.v1", o, "OrderPlaced") = Saga!EventsOf("orders.v1", o, "OrderPlaced")
    BY <1>1, <1>3 DEF SagaProof!EventsOf, Saga!EventsOf
  <1> QED BY <1>4 DEF SagaProof!Placed, SagaProof!Logged, Saga!Placed, Saga!Logged

(* Every answer is one more that was said.                                     *)
LEMMA OneMoreSaid ==
    ASSUME SagaProof!SagaInvariant, NEW o \in Orders, NEW kind,
           NEW topic, NEW yes, NEW no,
           \/ topic = "payments.v1" /\ yes = "PaymentAuthorized" /\ no = "PaymentDeclined"
           \/ topic = "inventory.v1" /\ yes = "InventoryReserved" /\ no = "InventoryRejected",
           kind \in {yes, no}, SagaProof!Send(topic, o, kind)
    PROVE  Said(topic, o, yes, no)' = Said(topic, o, yes, no) + 1
  <1>1. /\ SagaProof!LogOK /\ kind \in SagaProof!EventKinds
        /\ SagaProof!Keyed(topic, o) \in DOMAIN LogOf(Saga!SagaTopics)
    <2>1. SagaProof!LogOK
      BY SagaProof!InvariantFacts, SagaAssumed
    <2>2. kind \in SagaProof!EventKinds
      BY DEF SagaProof!EventKinds, SagaProof!AnswerKinds
    <2>3. <<topic, PartitionOf[o]>> \in Saga!SagaTopics \X Partitions
      BY FlowAssumption, TopicNames
    <2> QED BY <2>1, <2>2, <2>3, Seen DEF SagaProof!Keyed
  <1>2. ASSUME NEW k
        PROVE  /\ SagaProof!Cardinality(SagaProof!EventsOf(topic, o, k)') =
                     SagaProof!Cardinality(SagaProof!EventsOf(topic, o, k))
                        + (IF topic = topic /\ o = o /\ k = kind THEN 1 ELSE 0)
               /\ SagaProof!Cardinality(SagaProof!EventsOf(topic, o, k)) \in Nat
    BY <1>1, SagaProof!EventsCounted, SagaProof!EventsFinite, SagaAssumed
  <1>3. ASSUME NEW k
        PROVE  /\ Cardinality(SagaProof!EventsOf(topic, o, k)') =
                     Cardinality(SagaProof!EventsOf(topic, o, k)) + (IF k = kind THEN 1 ELSE 0)
               /\ Cardinality(SagaProof!EventsOf(topic, o, k)) \in Nat
    BY <1>2, SameCounting
  <1>4. yes # no
    OBVIOUS
  <1> QED BY <1>3, <1>4 DEF Said

LEMMA AnswerIsAllowed ==
    ASSUME SagaProof!SagaInvariant, KindsInPlace, NEW o \in Orders, NEW kind,
           SagaHears(o, kind), UNCHANGED sagaVars,
           \/ kind \in PaymentAnswers /\ PaymentProof!Payments(o)' <= MaxAnswers
           \/ kind \in InventoryAnswers /\ InventoryProof!Answers(o)' <= MaxAnswers
    PROVE  SagaProof!UpstreamAnswers(o, kind) /\ KindsInPlace'
  <1>1. PICK topic, yes, no :
           /\ \/ topic = "payments.v1" /\ yes = "PaymentAuthorized" /\ no = "PaymentDeclined"
              \/ topic = "inventory.v1" /\ yes = "InventoryReserved" /\ no = "InventoryRejected"
           /\ kind \in {yes, no} /\ topic = SagaProof!AnswerTopic(kind)
           /\ Said(topic, o, yes, no)' <= MaxAnswers
    <2>1. CASE kind \in PaymentAnswers /\ PaymentProof!Payments(o)' <= MaxAnswers
      <3>1. Said("payments.v1", o, "PaymentAuthorized", "PaymentDeclined")' <= MaxAnswers
        BY <2>1, PaymentsHeard
      <3> QED BY <2>1, <3>1 DEF PaymentAnswers, SagaProof!AnswerTopic
    <2>2. CASE kind \in InventoryAnswers /\ InventoryProof!Answers(o)' <= MaxAnswers
      <3>1. Said("inventory.v1", o, "InventoryReserved", "InventoryRejected")' <= MaxAnswers
        BY <2>2, ReservationsHeard
      <3> QED BY <2>2, <3>1 DEF InventoryAnswers, SagaProof!AnswerTopic
    <2> QED BY <2>1, <2>2
  <1>2. SagaProof!Placed(o)
    BY PlacedSeen DEF SagaHears
  <1>3. SagaProof!Send(topic, o, kind)
    BY <1>1 DEF SagaHears, SagaProof!Send
  <1>4. SagaProof!Cardinality(SagaProof!Answers(topic, o)) < MaxAnswers
    <2>1. Said(topic, o, yes, no)' = Said(topic, o, yes, no) + 1
      BY <1>1, <1>3, OneMoreSaid
    <2>2. SagaProof!Cardinality(SagaProof!Answers(topic, o)) = Said(topic, o, yes, no)
          /\ Said(topic, o, yes, no) \in Nat
      BY <1>1, AnswersSaid
    <2> QED BY <1>1, <2>1, <2>2, FlowAssumption
  <1>5. SagaProof!UpstreamAnswers(o, kind)
    BY <1>1, <1>2, <1>3, <1>4 DEF SagaProof!UpstreamAnswers, sagaVars
  <1>6. KindsInPlace'
    <2>1. /\ topic \in Saga!SagaTopics
          /\ topic = "payments.v1" => kind \in PaymentAnswers
          /\ topic = "inventory.v1" => kind \in InventoryAnswers
      BY <1>1, TopicNames DEF PaymentAnswers, InventoryAnswers
    <2> QED BY <1>3, <2>1, KindsKept
  <1> QED BY <1>5, <1>6

-----------------------------------------------------------------------------
(* The invariant of the flow: those of the three services, each over the       *)
(* topics it knows, and what relates them.                                     *)

FlowInvariant ==
    /\ LogShape /\ KindsInPlace
    /\ PaymentProof!PaymentInvariant /\ PaymentProof!ChargedOncePerProcess /\ PaymentWithinBudget
    /\ InventoryProof!DeliveryInvariant /\ InventoryProof!ReservedOncePerProcess
    /\ InventoryWithinBudget
    /\ SagaProof!SagaInvariant

(* What a step of the flow is to the three services.                           *)
StepSeen ==
    /\ [PaymentProof!Next]_PaymentProof!vars
    /\ [InventoryProof!Next]_InventoryProof!vars
    /\ [SagaProof!Next]_SagaProof!vars
    /\ LogShape' /\ KindsInPlace'

PaymentParts ==
    PaymentProof!PaymentInvariant /\ PaymentProof!ChargedOncePerProcess /\ PaymentWithinBudget

InventoryParts ==
    InventoryProof!DeliveryInvariant /\ InventoryProof!ReservedOncePerProcess
        /\ InventoryWithinBudget

LEMMA PaymentPartsKept ==
    PaymentParts /\ [PaymentProof!Next]_PaymentProof!vars => PaymentParts'
  <1> SUFFICES ASSUME PaymentParts, [PaymentProof!Next]_PaymentProof!vars
               PROVE  PaymentParts'
    OBVIOUS
  <1>1. PaymentProof!PaymentInvariant /\ PaymentProof!ChargedOncePerProcess /\ PaymentWithinBudget
    BY DEF PaymentParts
  <1>2. PaymentProof!PaymentInvariant'
    BY <1>1, PaymentProof!PaymentNext, PaymentAssumed
  <1>3. PaymentProof!ChargedOncePerProcess'
    BY <1>1, PaymentProof!ChargedNext, PaymentAssumed
  <1>4. PaymentWithinBudget'
    BY <1>1, PaymentSpends
  <1> QED BY <1>2, <1>3, <1>4 DEF PaymentParts

LEMMA InventoryPartsKept ==
    InventoryParts /\ [InventoryProof!Next]_InventoryProof!vars => InventoryParts'
  <1> SUFFICES ASSUME InventoryParts, [InventoryProof!Next]_InventoryProof!vars
               PROVE  InventoryParts'
    OBVIOUS
  <1>1. /\ InventoryProof!DeliveryInvariant /\ InventoryProof!ReservedOncePerProcess
        /\ InventoryWithinBudget
    BY DEF InventoryParts
  <1>2. InventoryProof!DeliveryInvariant'
    BY <1>1, InventoryProof!InventoryNext, InventoryAssumed
  <1>3. InventoryProof!ReservedOncePerProcess'
    BY <1>1, InventoryProof!ReservedNext, InventoryAssumed
  <1>4. InventoryWithinBudget'
    BY <1>1, InventorySpends
  <1> QED BY <1>2, <1>3, <1>4 DEF InventoryParts

(* The bounds hold after a step as they hold before it.                        *)
PaymentsWithinBound == \A o \in Orders : PaymentProof!Payments(o) <= MaxAnswers

ReservationsWithinBound == \A o \in Orders : InventoryProof!Answers(o) <= MaxAnswers

LEMMA AnswersBoundedNext ==
    /\ PaymentParts' => PaymentsWithinBound'
    /\ InventoryParts' => ReservationsWithinBound'
  <1>1. PaymentParts => PaymentsWithinBound
    BY PaymentsBounded DEF PaymentParts, PaymentsWithinBound
  <1>2. InventoryParts => ReservationsWithinBound
    BY ReservationsBounded DEF InventoryParts, ReservationsWithinBound
  <1> QED BY <1>1, <1>2, PTL

(* A step the upstream services do not see leaves their answers in place.       *)
LEMMA SameAnswerTopics ==
    ASSUME KindsInPlace,
           UNCHANGED <<LogOf(Payment!PaymentTopics), LogOf(Inventory!InventoryTopics)>>
    PROVE  KindsInPlace'
  <1>1. ASSUME NEW tp \in (Saga!SagaTopics \X Partitions), NEW topics,
               \/ topics = Payment!PaymentTopics /\ tp[1] = "payments.v1"
               \/ topics = Inventory!InventoryTopics /\ tp[1] = "inventory.v1"
        PROVE  LogOf(Saga!SagaTopics)'[tp] = LogOf(Saga!SagaTopics)[tp]
    <2>1. tp \in topics \X Partitions /\ UNCHANGED LogOf(topics)
      BY <1>1, TopicNames
    <2>2. LogOf(topics)[tp] = log[tp] /\ LogOf(topics)'[tp] = log'[tp]
      BY <2>1 DEF LogOf
    <2> QED BY <2>1, <2>2 DEF LogOf
  <1>2. /\ DOMAIN LogOf(Saga!SagaTopics) = Saga!SagaTopics \X Partitions
        /\ DOMAIN LogOf(Saga!SagaTopics)' = Saga!SagaTopics \X Partitions
    BY DEF LogOf, Saga!SagaTopics
  <1>3. ASSUME NEW tp \in DOMAIN LogOf(Saga!SagaTopics)', NEW n \in DOMAIN LogOf(Saga!SagaTopics)'[tp]
        PROVE  /\ tp[1] = "payments.v1" => LogOf(Saga!SagaTopics)'[tp][n].kind \in PaymentAnswers
               /\ tp[1] = "inventory.v1" => LogOf(Saga!SagaTopics)'[tp][n].kind \in InventoryAnswers
    <2>1. tp[1] \in {"payments.v1", "inventory.v1"} => UNCHANGED (LogOf(Saga!SagaTopics)[tp])
      BY <1>1, <1>2
    <2> QED BY <1>2, <2>1 DEF KindsInPlace
  <1> QED BY <1>3 DEF KindsInPlace, PaymentAnswers, InventoryAnswers

(* Every step of the flow is a step of each service, or none.                   *)
LEMMA FlowStep ==
    ASSUME FlowInvariant, [Next]_vars
    PROVE  StepSeen
  <1>1. /\ LogShape /\ KindsInPlace /\ PaymentParts /\ InventoryParts /\ SagaProof!SagaInvariant
        /\ PaymentProof!PaymentInvariant /\ InventoryProof!DeliveryInvariant
    BY DEF FlowInvariant, PaymentParts, InventoryParts
  <1>2. ASSUME NEW o \in Orders, CreateOrder(o)
        PROVE  StepSeen
    <2>1. /\ PaymentProof!CustomerPlaces(o) /\ InventoryProof!CustomerPlaces(o)
          /\ SagaProof!CustomerPlaces(o)
          /\ SagaProof!Send("orders.v1", o, "OrderPlaced") /\ LogShape'
      BY <1>1, <1>2, PlacementSeen
    <2>2. KindsInPlace'
      <3>1. "orders.v1" \in Saga!SagaTopics
        BY TopicNames
      <3> QED BY <1>1, <2>1, <3>1, KindsKept
    <2>3. PaymentProof!Next /\ InventoryProof!Next /\ SagaProof!Next
      BY <2>1 DEF PaymentProof!Next, InventoryProof!Next, SagaProof!Next, SagaProof!Environment
    <2> QED BY <2>1, <2>2, <2>3 DEF StepSeen
  <1>3. CASE PaymentStep
    <2>1. /\ PaymentProof!PaymentStep /\ LogShape' /\ SagaUndisturbed(PaymentAnswers)
          /\ UNCHANGED LogOf(Inventory!InventoryTopics)
      BY <1>1, <1>3, PaymentStepSeen DEF PaymentStep
    <2>2. UNCHANGED <<inventoryVars, sagaVars>>
      BY <1>3 DEF PaymentStep
    <2>3. PaymentProof!Next
      BY <2>1 DEF PaymentProof!Next
    <2>4. UNCHANGED InventoryProof!vars
      BY <2>1, <2>2 DEF InventoryProof!vars, inventoryVars
    <2>5. PaymentParts'
      BY <1>1, <2>3, PaymentPartsKept
    <2>6. \A o \in Orders : PaymentProof!Payments(o)' <= MaxAnswers
      BY <2>5, AnswersBoundedNext DEF PaymentsWithinBound
    <2>7. CASE UNCHANGED LogOf(Saga!SagaTopics)
      <3>1. UNCHANGED SagaProof!vars
        BY <2>2, <2>7 DEF SagaProof!vars, sagaVars
      <3>2. KindsInPlace'
        BY <1>1, <2>7 DEF KindsInPlace
      <3> QED BY <2>1, <2>3, <2>4, <3>1, <3>2 DEF StepSeen
    <2>8. ASSUME NEW o \in Orders, NEW kind \in PaymentAnswers, SagaHears(o, kind)
          PROVE  StepSeen
      <3>1. PaymentProof!Payments(o)' <= MaxAnswers /\ UNCHANGED sagaVars
        BY <2>2, <2>6
      <3>2. SagaProof!UpstreamAnswers(o, kind) /\ KindsInPlace'
        BY <1>1, <2>8, <3>1, AnswerIsAllowed
      <3>3. SagaProof!Next
        BY <3>2 DEF SagaProof!Next, SagaProof!Environment, SagaProof!AnswerKinds, PaymentAnswers
      <3> QED BY <2>1, <2>3, <2>4, <3>2, <3>3 DEF StepSeen
    <2> QED BY <2>1, <2>7, <2>8 DEF SagaUndisturbed
  <1>4. CASE InventoryStep
    <2>1. /\ InventoryProof!InventoryStep /\ LogShape' /\ SagaUndisturbed(InventoryAnswers)
          /\ UNCHANGED LogOf(Payment!PaymentTopics)
      BY <1>1, <1>4, InventoryStepSeen DEF InventoryStep
    <2>2. UNCHANGED <<paymentVars, sagaVars>>
      BY <1>4 DEF InventoryStep
    <2>3. InventoryProof!Next
      BY <2>1 DEF InventoryProof!Next
    <2>4. UNCHANGED PaymentProof!vars
      BY <2>1, <2>2 DEF PaymentProof!vars, paymentVars
    <2>5. InventoryParts'
      BY <1>1, <2>3, InventoryPartsKept
    <2>6. \A o \in Orders : InventoryProof!Answers(o)' <= MaxAnswers
      BY <2>5, AnswersBoundedNext DEF ReservationsWithinBound
    <2>7. CASE UNCHANGED LogOf(Saga!SagaTopics)
      <3>1. UNCHANGED SagaProof!vars
        BY <2>2, <2>7 DEF SagaProof!vars, sagaVars
      <3>2. KindsInPlace'
        BY <1>1, <2>7 DEF KindsInPlace
      <3> QED BY <2>1, <2>3, <2>4, <3>1, <3>2 DEF StepSeen
    <2>8. ASSUME NEW o \in Orders, NEW kind \in InventoryAnswers, SagaHears(o, kind)
          PROVE  StepSeen
      <3>1. InventoryProof!Answers(o)' <= MaxAnswers /\ UNCHANGED sagaVars
        BY <2>2, <2>6
      <3>2. SagaProof!UpstreamAnswers(o, kind) /\ KindsInPlace'
        BY <1>1, <2>8, <3>1, AnswerIsAllowed
      <3>3. SagaProof!Next
        BY <3>2 DEF SagaProof!Next, SagaProof!Environment, SagaProof!AnswerKinds, InventoryAnswers
      <3> QED BY <2>1, <2>3, <2>4, <3>2, <3>3 DEF StepSeen
    <2> QED BY <2>1, <2>7, <2>8 DEF SagaUndisturbed
  <1>5. CASE SagaStep
    <2>1. /\ SagaProof!SagaStep /\ LogShape'
          /\ UNCHANGED <<LogOf(Payment!PaymentTopics), LogOf(Inventory!InventoryTopics)>>
      BY <1>1, <1>5, SagaStepSeen DEF SagaStep, SagaSteps
    <2>2. UNCHANGED <<paymentVars, inventoryVars>>
      BY <1>5 DEF SagaStep
    <2>3. UNCHANGED PaymentProof!vars /\ UNCHANGED InventoryProof!vars
      BY <2>1, <2>2 DEF PaymentProof!vars, paymentVars, InventoryProof!vars, inventoryVars
    <2>4. SagaProof!Next
      BY <2>1 DEF SagaProof!Next
    <2>5. KindsInPlace'
      BY <1>1, <2>1, SameAnswerTopics
    <2> QED BY <2>1, <2>3, <2>4, <2>5 DEF StepSeen
  <1>6. CASE UNCHANGED vars
    <2>1. UNCHANGED log /\ UNCHANGED <<paymentVars, inventoryVars, sagaVars>>
      BY <1>6 DEF vars
    <2>2. /\ LogShape' /\ UNCHANGED LogOf(Saga!SagaTopics)
          /\ UNCHANGED <<LogOf(Payment!PaymentTopics), LogOf(Inventory!InventoryTopics)>>
      BY <1>1, <2>1, SameSeen
    <2>3. /\ UNCHANGED PaymentProof!vars /\ UNCHANGED InventoryProof!vars
          /\ UNCHANGED SagaProof!vars
      BY <2>1, <2>2 DEF PaymentProof!vars, paymentVars, InventoryProof!vars, inventoryVars,
         SagaProof!vars, sagaVars
    <2>4. KindsInPlace'
      BY <1>1, <2>2 DEF KindsInPlace
    <2> QED BY <2>2, <2>3, <2>4 DEF StepSeen
  <1> QED BY <1>2, <1>3, <1>4, <1>5, <1>6 DEF Next

-----------------------------------------------------------------------------
(* The flow starts as its services start.                                      *)
LEMMA FlowInit ==
    ASSUME Init
    PROVE  PaymentProof!Init /\ InventoryProof!Init /\ SagaProof!Init /\ FlowInvariant
  <1>1. ASSUME NEW topics, topics \subseteq FlowTopics
        PROVE  LogOf(topics) = [tp \in topics \X Partitions |-> <<>>]
    BY <1>1 DEF Init, LogOf
  <1>2. PaymentProof!Init
    <2>1. LogOf(Payment!PaymentTopics) = [tp \in PaymentProof!PaymentTopics \X Partitions |-> <<>>]
      BY <1>1, TopicNames DEF PaymentProof!PaymentTopics
    <2>2. paymentFaults = [kind \in PaymentProof!FaultKinds |-> 0]
      BY DEF Init, NoFaults, Saga!FaultKinds, PaymentProof!FaultKinds
    <2>3. PaymentProof!GroupInit(PaymentProof!Subscription)
      BY DEF Init, Payment!GroupInit, PaymentProof!GroupInit, Payment!Subscription,
         PaymentProof!Subscription
    <2> QED BY <2>1, <2>2, <2>3 DEF PaymentProof!Init, PaymentProof!TopicsInit, Init
  <1>3. InventoryProof!Init
    <2>1. LogOf(Inventory!InventoryTopics)
            = [tp \in InventoryProof!InventoryTopics \X Partitions |-> <<>>]
      BY <1>1, TopicNames DEF InventoryProof!InventoryTopics
    <2>2. inventoryFaults = [kind \in InventoryProof!FaultKinds |-> 0]
      BY DEF Init, NoFaults, Saga!FaultKinds, InventoryProof!FaultKinds
    <2>3. InventoryProof!GroupInit(InventoryProof!Subscription)
      BY DEF Init, Inventory!GroupInit, InventoryProof!GroupInit, Inventory!Subscription,
         InventoryProof!Subscription
    <2>4. inventory \in [InventoryInstances -> InventoryProof!FreshShelf]
      BY DEF Init, Inventory!FreshShelf, InventoryProof!FreshShelf
    <2> QED BY <2>1, <2>2, <2>3, <2>4 DEF InventoryProof!Init, InventoryProof!TopicsInit, Init
  <1>4. SagaProof!Init
    <2>1. LogOf(Saga!SagaTopics) = [tp \in SagaProof!SagaTopics \X Partitions |-> <<>>]
      BY <1>1, TopicNames DEF SagaProof!SagaTopics
    <2>2. sagaFaults = [kind \in SagaProof!FaultKinds |-> 0]
      BY DEF Init, NoFaults, Saga!FaultKinds, SagaProof!FaultKinds
    <2>3. SagaProof!GroupInit(SagaProof!Subscription)
      BY DEF Init, Saga!GroupInit, SagaProof!GroupInit, Saga!Subscription, SagaProof!Subscription
    <2>4. orderStates = [i \in SagaInstances |-> [o \in Orders |-> SagaProof!Untracked]]
      BY DEF Init, Saga!Untracked, SagaProof!Untracked
    <2> QED BY <2>1, <2>2, <2>3, <2>4 DEF SagaProof!Init, SagaProof!TopicsInit, Init
  <1>5. LogShape /\ KindsInPlace
    <2>1. LogShape
      BY DEF LogShape, ShapeOf, Init
    <2>2. LogOf(Saga!SagaTopics) = [tp \in Saga!SagaTopics \X Partitions |-> <<>>]
      BY <1>1, TopicNames
    <2> QED BY <2>1, <2>2 DEF KindsInPlace
  <1>6. /\ PaymentProof!PaymentInvariant /\ PaymentProof!ChargedOncePerProcess
        /\ InventoryProof!DeliveryInvariant /\ InventoryProof!ReservedOncePerProcess
        /\ SagaProof!SagaInvariant
    <2>1. PaymentProof!PaymentInvariant /\ PaymentProof!ChargedOncePerProcess
      BY <1>2, PaymentProof!PaymentInit, PaymentProof!ChargedInit, PaymentAssumed
    <2>2. InventoryProof!DeliveryInvariant /\ InventoryProof!ReservedOncePerProcess
      BY <1>3, InventoryProof!InventoryInit, InventoryProof!ReservedInit, InventoryAssumed
    <2>3. SagaProof!SagaInvariant
      BY <1>4, SagaProof!InitInvariant, SagaAssumed
    <2> QED BY <2>1, <2>2, <2>3
  <1>7. PaymentWithinBudget /\ InventoryWithinBudget
    <2>1. /\ \A kind \in Saga!FaultKinds : paymentFaults[kind] = 0 /\ inventoryFaults[kind] = 0
          /\ \A kind \in Saga!FaultKinds :
                PaymentMaxFaults[kind] \in Nat /\ InventoryMaxFaults[kind] \in Nat
      BY FlowAssumption DEF Init, NoFaults
    <2> QED BY <2>1 DEF PaymentWithinBudget, InventoryWithinBudget, Saga!FaultKinds,
       PaymentProof!FaultKinds, InventoryProof!FaultKinds
  <1> QED BY <1>2, <1>3, <1>4, <1>5, <1>6, <1>7 DEF FlowInvariant

LEMMA FlowNext ==
    ASSUME FlowInvariant, [Next]_vars
    PROVE  FlowInvariant'
  <1>1. StepSeen
    BY FlowStep
  <1>2. PaymentParts'
    BY <1>1, PaymentPartsKept DEF FlowInvariant, PaymentParts, StepSeen
  <1>3. InventoryParts'
    BY <1>1, InventoryPartsKept DEF FlowInvariant, InventoryParts, StepSeen
  <1>4. SagaProof!SagaInvariant'
    BY <1>1, SagaProof!NextKeepsInvariant, SagaAssumed DEF FlowInvariant, StepSeen
  <1> QED BY <1>1, <1>2, <1>3, <1>4 DEF FlowInvariant, StepSeen, PaymentParts, InventoryParts

(* The flow is each of its services, as its own specification describes it, at *)
(* once: what is proved of one of them holds in the whole.                     *)
LEMMA FlowIsServices ==
    Spec => PaymentProof!Spec /\ InventoryProof!Spec /\ SagaProof!Spec /\ []FlowInvariant
  <1>1. Init => PaymentProof!Init /\ InventoryProof!Init /\ SagaProof!Init /\ FlowInvariant
    BY FlowInit
  <1>2. FlowInvariant /\ [Next]_vars => FlowInvariant'
    BY FlowNext
  <1>3. FlowInvariant /\ [Next]_vars =>
           /\ [PaymentProof!Next]_PaymentProof!vars
           /\ [InventoryProof!Next]_InventoryProof!vars
           /\ [SagaProof!Next]_SagaProof!vars
    BY FlowStep DEF StepSeen
  <1> QED BY <1>1, <1>2, <1>3, PTL DEF Spec, PaymentProof!Spec, InventoryProof!Spec, SagaProof!Spec

(* The payment and the inventory service are, together, an environment that    *)
(* order-saga's own specification allows, and the saga in the flow behaves as  *)
(* that specification says: at every step of the flow, for any number of       *)
(* orders, instances and faults (the services share only topics.ts's topics).  *)
THEOREM SagaImplemented == Spec => ImplementsSaga
  <1>1. SagaProof!Init => SagaView!Init
    BY DEF SagaProof!Init, SagaView!Init, SagaProof!TopicsInit, SagaView!TopicsInit,
       SagaProof!SagaTopics, SagaView!SagaTopics, SagaProof!FaultKinds, SagaView!FaultKinds,
       SagaProof!GroupInit, SagaView!GroupInit, SagaProof!Subscription, SagaView!Subscription,
       SagaProof!Untracked, SagaView!Untracked
  <1>2. [SagaProof!Next]_SagaProof!vars => [SagaView!Next]_SagaView!vars
    <2>1. SagaProof!Next => SagaView!Next
      BY DEF SagaProof!Next, SagaView!Next, SagaProof!Environment, SagaView!Environment,
         SagaProof!SagaStep, SagaView!SagaStep, SagaProof!CustomerPlaces,
         SagaView!CustomerPlaces, SagaProof!PlaceOrder, SagaView!PlaceOrder, SagaProof!Placed,
         SagaView!Placed, SagaProof!Logged, SagaView!Logged, SagaProof!EventsOf,
         SagaView!EventsOf, SagaProof!Send, SagaView!Send, SagaProof!UpstreamAnswers,
         SagaView!UpstreamAnswers, SagaProof!AnswerTopic, SagaView!AnswerTopic,
         SagaProof!Answers, SagaView!Answers, SagaProof!AnswerKinds, SagaView!AnswerKinds,
         SagaProof!Handle, SagaView!Handle, SagaProof!Subscription, SagaView!Subscription,
         SagaProof!HandleOrderPlaced, SagaView!HandleOrderPlaced, SagaProof!DropAnswer,
         SagaView!DropAnswer, SagaProof!HandleAnswer, SagaView!HandleAnswer,
         SagaProof!Deliverable, SagaView!Deliverable, SagaProof!Idle, SagaView!Idle,
         SagaProof!NextEvent, SagaView!NextEvent, SagaProof!NewOrder, SagaView!NewOrder,
         SagaProof!FinishAtOnce, SagaView!FinishAtOnce, SagaProof!Resolved, SagaView!Resolved,
         SagaProof!Tracked, SagaView!Tracked, SagaProof!Untracked, SagaView!Untracked,
         SagaProof!Applied, SagaView!Applied, SagaProof!Authorized, SagaView!Authorized,
         SagaProof!Declined, SagaView!Declined, SagaProof!Reserved, SagaView!Reserved,
         SagaProof!Rejected, SagaView!Rejected, SagaProof!Publishes, SagaView!Publishes,
         SagaProof!Ready, SagaView!Ready, SagaProof!BeginHandling, SagaView!BeginHandling,
         SagaProof!FixStuckOrders, SagaView!FixStuckOrders, SagaProof!StuckOrders,
         SagaView!StuckOrders, SagaProof!Stuck, SagaView!Stuck, SagaProof!Commit,
         SagaView!Commit, SagaProof!AutoCommit, SagaView!AutoCommit, SagaProof!Crash,
         SagaView!Crash, SagaProof!CrashAndRejoin, SagaView!CrashAndRejoin, SagaProof!Fault,
         SagaView!Fault, SagaProof!Rejoin, SagaView!Rejoin, SagaProof!Restart,
         SagaView!Restart, SagaProof!NoOffset, SagaView!NoOffset, SagaProof!Publish,
         SagaView!Publish, SagaProof!PublishOutcome, SagaView!PublishOutcome,
         SagaProof!PublishOutcomeFails, SagaView!PublishOutcomeFails, SagaProof!EventOf,
         SagaView!EventOf, SagaProof!OutcomeTopic, SagaView!OutcomeTopic,
         SagaProof!OutcomeKind, SagaView!OutcomeKind, SagaProof!FinishHandling,
         SagaView!FinishHandling, SagaProof!SendUnacknowledged, SagaView!SendUnacknowledged,
         SagaProof!GroupRebalances, SagaView!GroupRebalances, SagaProof!Rebalance,
         SagaView!Rebalance, SagaProof!ReplayOrders, SagaView!ReplayOrders, SagaProof!Replay,
         SagaView!Replay, SagaProof!ResetToEarliest, SagaView!ResetToEarliest,
         SagaProof!SetToSeq, SagaView!SetToSeq, SagaProof!IsInjective, SagaView!IsInjective,
         SagaProof!Cardinality, SagaView!Cardinality
    <2>2. SagaProof!vars = SagaView!vars /\ SagaProof!vars' = SagaView!vars'
      BY DEF SagaProof!vars, SagaView!vars
    <2> QED BY <2>1, <2>2
  <1> QED BY <1>1, <1>2, FlowIsServices, PTL DEF SagaProof!Spec, SagaView!Spec, ImplementsSaga

(* In the whole flow as in the saga alone: a decision an instance shows turns  *)
(* into its opposite only when an upstream service answered the order both     *)
(* ways, and is forgotten only when the saga's group was disturbed.            *)
THEOREM SagaDecisionsStable == Spec => SagaDecisionStable
  <1>1. SagaProof!Spec => SagaProof!DecisionStable
    BY SagaProof!DecisionsStable, SagaAssumed, PTL
  <1>2. SagaProof!DecisionStable <=> SagaView!DecisionStable
    <2>1. \A i, o : (SagaProof!Decided(i, o) <=> SagaView!Decided(i, o))
                    /\ (SagaProof!Decided(i, o)' <=> SagaView!Decided(i, o)')
      BY DEF SagaProof!Decided, SagaView!Decided
    <2>2. \A o : SagaProof!SelfContradicted(o) <=> SagaView!SelfContradicted(o)
      BY DEF SagaProof!SelfContradicted, SagaView!SelfContradicted, SagaProof!Logged,
         SagaView!Logged, SagaProof!EventsOf, SagaView!EventsOf
    <2>3. SagaProof!Regrouped' <=> SagaView!Regrouped'
      BY DEF SagaProof!Regrouped, SagaView!Regrouped
    <2>4. SagaProof!vars = SagaView!vars /\ SagaProof!vars' = SagaView!vars'
      BY DEF SagaProof!vars, SagaView!vars
    <2>5. [\A i \in SagaInstances, o \in Orders :
              SagaProof!Decided(i, o) /\ orderStates'[i][o].status # orderStates[i][o].status =>
                  \/ SagaProof!Decided(i, o)' /\ SagaProof!SelfContradicted(o)
                  \/ SagaProof!Regrouped']_SagaProof!vars
          <=> [\A i \in SagaInstances, o \in Orders :
              SagaView!Decided(i, o) /\ orderStates'[i][o].status # orderStates[i][o].status =>
                  \/ SagaView!Decided(i, o)' /\ SagaView!SelfContradicted(o)
                  \/ SagaView!Regrouped']_SagaView!vars
      BY <2>1, <2>2, <2>3, <2>4
    <2> QED BY <2>5, PTL DEF SagaProof!DecisionStable, SagaView!DecisionStable
  <1> QED BY <1>1, <1>2, FlowIsServices, PTL DEF SagaDecisionStable

(* So the dashboard, which relies on OrderOutcome for what a read of order-saga *)
(* returns, may rely on it of the saga behind the two real services: instances *)
(* show and announce in the flow what the answers on the log justify.          *)
THEOREM OutcomeImplementedByFlow == Spec => SagaProof!ImplementsOutcome
  <1>1. SagaProof!Spec => SagaProof!ImplementsOutcome
    BY SagaProof!OutcomeImplemented, SagaAssumed, PTL
  <1> QED BY <1>1, FlowIsServices, PTL

(* With groups that start at offset 0, whatever the payment and the inventory  *)
(* group committed while they met no rejected send has its answer on the log,  *)
(* and whatever order-saga then decides is announced or about to be: a handler *)
(* that is lost on the way is a delivery that comes again (the handlers'       *)
(* catch blocks against kafkajs's commits, all three services at once).        *)
THEOREM NothingLostInFlow ==
    ASSUME InitialCommitted = 0
    PROVE  Spec => /\ []PaymentProof!CommittedWasAnswered
                   /\ []InventoryProof!CommittedWasSettled
                   /\ []SagaProof!DecisionIsPublished
  <1>1. PaymentProof!Spec => []PaymentProof!CommittedWasAnswered
    BY PaymentProof!NoOrderLost, PaymentAssumed, PTL
  <1>2. InventoryProof!Spec => []InventoryProof!CommittedWasSettled
    BY InventoryProof!NoOrderLost, InventoryAssumed, PTL
  <1>3. SagaProof!Spec => []SagaProof!DecisionIsPublished
    BY SagaProof!DecisionsPublished, SagaAssumed, PTL
  <1> QED BY <1>1, <1>2, <1>3, FlowIsServices, PTL

-----------------------------------------------------------------------------
(* The outcome of an order                                                     *)

LEMMA LoggedSeen ==
    ASSUME NEW o \in Orders, NEW topic \in Saga!SagaTopics, NEW kind
    PROVE  /\ SagaProof!Logged(topic, o, kind) <=> Saga!Logged(topic, o, kind)
           /\ topic \in Inventory!InventoryTopics =>
                 (InventoryProof!Logged(topic, o, kind) <=> SagaProof!Logged(topic, o, kind))
  <1>1. PICK tp : tp = <<topic, PartitionOf[o]>>
    OBVIOUS
  <1>2. tp \in Saga!SagaTopics \X Partitions
    BY <1>1, FlowAssumption
  <1>3. /\ LogOf(Saga!SagaTopics)[tp] = log[tp]
        /\ topic \in Inventory!InventoryTopics => LogOf(Inventory!InventoryTopics)[tp] = log[tp]
    BY <1>1, <1>2, Seen
  <1>4. /\ SagaProof!EventsOf(topic, o, kind) = Saga!EventsOf(topic, o, kind)
        /\ topic \in Inventory!InventoryTopics =>
              InventoryProof!EventsOf(topic, o, kind) = SagaProof!EventsOf(topic, o, kind)
    BY <1>1, <1>3 DEF SagaProof!EventsOf, Saga!EventsOf, InventoryProof!EventsOf
  <1> QED BY <1>4 DEF SagaProof!Logged, Saga!Logged, InventoryProof!Logged

(* Two answers that contradict each other are at least two answers.            *)
LEMMA ContradictionSaysTwo ==
    ASSUME SagaProof!SagaInvariant, NEW o \in Orders, NEW topic \in Saga!SagaTopics,
           NEW yes, NEW no,
           SagaProof!Logged(topic, o, yes), SagaProof!Logged(topic, o, no)
    PROVE  Said(topic, o, yes, no) > 1
  <1>1. SagaProof!LogOK /\ SagaProof!Keyed(topic, o) \in DOMAIN LogOf(Saga!SagaTopics)
    <2>1. SagaProof!LogOK
      BY SagaProof!InvariantFacts, SagaAssumed
    <2>2. <<topic, PartitionOf[o]>> \in Saga!SagaTopics \X Partitions
      BY FlowAssumption
    <2> QED BY <2>1, <2>2, Seen DEF SagaProof!Keyed
  <1>2. ASSUME NEW kind, SagaProof!Logged(topic, o, kind)
        PROVE  /\ Cardinality(SagaProof!EventsOf(topic, o, kind)) \in Nat
               /\ Cardinality(SagaProof!EventsOf(topic, o, kind)) > 0
    <2>1. /\ SagaProof!Cardinality(SagaProof!EventsOf(topic, o, kind)) \in Nat
          /\ SagaProof!Cardinality(SagaProof!EventsOf(topic, o, kind)) > 0
      BY <1>1, <1>2, SagaProof!EventsFinite, SagaAssumed
    <2> QED BY <2>1, SameCounting
  <1> QED BY <1>2 DEF Said

(* No order is announced as both completed and cancelled, through any          *)
(* rebalance of the groups and any fault of order-saga, as long as the one     *)
(* process of each upstream service keeps its memory and its sends: each       *)
(* answers an order once, and the saga decides from the answers.               *)
THEOREM OutcomeIsFinal ==
    ASSUME Cardinality(PaymentInstances) = 1, Cardinality(InventoryInstances) = 1
    PROVE  Spec => []OneOutcome
  <1>1. SagaProof!Spec => []SagaProof!OutcomeExclusive
    BY SagaProof!OutcomeIsExclusive, SagaAssumed, PTL
  <1>2. FlowInvariant /\ SagaProof!OutcomeExclusive => OneOutcome
    <2> SUFFICES ASSUME FlowInvariant, SagaProof!OutcomeExclusive, NEW o \in Orders,
                        UpstreamFailures = 0, Completed(o), Cancelled(o)
                 PROVE  FALSE
      BY DEF OneOutcome
    <2>1. /\ SagaProof!SagaInvariant
          /\ PaymentProof!PaymentInvariant /\ PaymentProof!ChargedOncePerProcess
          /\ InventoryProof!DeliveryInvariant /\ InventoryProof!ReservedOncePerProcess
      BY DEF FlowInvariant
    <2>2. SagaProof!SelfContradicted(o)
      <3>1. /\ SagaProof!Logged("orders.completed.v1", o, "OrderCompleted")
            /\ SagaProof!Logged("orders.cancelled.v1", o, "OrderCancelled")
        BY LoggedSeen, TopicNames DEF Completed, Cancelled
      <3> QED BY <3>1 DEF SagaProof!OutcomeExclusive
    <2>3. /\ paymentFaults \in [PaymentProof!FaultKinds -> Nat]
          /\ inventoryFaults \in [InventoryProof!FaultKinds -> Nat]
      BY <2>1, PaymentProof!InvariantFacts, PaymentAssumed,
         InventoryProof!InvariantFacts, InventoryAssumed
    <2>4. \A kind \in {"crash", "send", "replay"} :
             paymentFaults[kind] = 0 /\ inventoryFaults[kind] = 0
      <3>1. \A kind \in {"crash", "send", "replay"} :
               paymentFaults[kind] \in Nat /\ inventoryFaults[kind] \in Nat
        BY <2>3 DEF PaymentProof!FaultKinds, InventoryProof!FaultKinds
      <3>2. PICK a \in Nat, b \in Nat, c \in Nat, d \in Nat, e \in Nat, f \in Nat :
               /\ a = paymentFaults["crash"] /\ b = paymentFaults["send"]
               /\ c = paymentFaults["replay"] /\ d = inventoryFaults["crash"]
               /\ e = inventoryFaults["send"] /\ f = inventoryFaults["replay"]
        BY <3>1
      <3>3. a + b + c + d + e + f = 0
        BY <3>2 DEF UpstreamFailures
      <3>4. a = 0 /\ b = 0 /\ c = 0 /\ d = 0 /\ e = 0 /\ f = 0
        BY <3>3
      <3> QED BY <3>2, <3>4
    <2>5. Said("payments.v1", o, "PaymentAuthorized", "PaymentDeclined") <= 1
      <3>1. /\ PaymentProof!Cardinality(PaymentProof!Remembering(o)) \in Nat
            /\ PaymentProof!Cardinality(PaymentProof!Remembering(o)) <= 1
            /\ PaymentProof!Cardinality(PaymentInstances) = 1 /\ PaymentProof!Payments(o) \in Nat
        BY <2>1, SameCounting, PaymentProof!MemoryFacts, PaymentAssumed
      <3>2. PaymentProof!DeadProcesses = 0
        BY <2>4, <3>1 DEF PaymentProof!DeadProcesses
      <3>3. PaymentProof!Payments(o) <= 1
        BY <2>1, <2>4, <3>1, <3>2 DEF PaymentProof!ChargedOncePerProcess
      <3> QED BY <3>3, PaymentsHeard
    <2>6. Said("inventory.v1", o, "InventoryReserved", "InventoryRejected") <= 1
      <3>1. /\ InventoryProof!Cardinality(InventoryProof!Remembering(o)) \in Nat
            /\ InventoryProof!Cardinality(InventoryProof!Remembering(o)) <= 1
            /\ InventoryProof!Cardinality(InventoryInstances) = 1 /\ InventoryProof!Answers(o) \in Nat
        BY <2>1, SameCounting, InventoryProof!MemoryFacts, InventoryAssumed
      <3>2. InventoryProof!DeadProcesses = 0
        BY <2>4, <3>1 DEF InventoryProof!DeadProcesses
      <3>3. InventoryProof!Answers(o) <= 1
        BY <2>1, <2>4, <3>1, <3>2 DEF InventoryProof!ReservedOncePerProcess
      <3> QED BY <3>3, ReservationsHeard
    <2>7. /\ Said("payments.v1", o, "PaymentAuthorized", "PaymentDeclined") \in Nat
          /\ Said("inventory.v1", o, "InventoryReserved", "InventoryRejected") \in Nat
      <3>1. SagaProof!SagaInvariant /\ KindsInPlace
        BY DEF FlowInvariant
      <3>2. ASSUME NEW topic, NEW yes, NEW no,
                   \/ topic = "payments.v1" /\ yes = "PaymentAuthorized" /\ no = "PaymentDeclined"
                   \/ topic = "inventory.v1" /\ yes = "InventoryReserved" /\ no = "InventoryRejected"
            PROVE  Said(topic, o, yes, no) \in Nat
        BY <3>1, <3>2, AnswersSaid
      <3> QED BY <3>2
    <2>8. \/ Said("payments.v1", o, "PaymentAuthorized", "PaymentDeclined") > 1
          \/ Said("inventory.v1", o, "InventoryReserved", "InventoryRejected") > 1
      BY <2>1, <2>2, ContradictionSaysTwo, TopicNames DEF SagaProof!SelfContradicted
    <2> QED BY <2>5, <2>6, <2>7, <2>8
  <1> QED BY <1>1, <1>2, FlowIsServices, PTL

(* A sum of the flow is the sum the inventory service's own theorems speak of.  *)
LEMMA SameStock ==
    /\ \A f : Inventory!FoldFunction(+, 0, f) = InventoryProof!Total(f)
    /\ \A o, product : Inventory!Wanted(o, product) = InventoryProof!Wanted(o, product)
    /\ \A product : Inventory!Held(product) = InventoryProof!Held(product)
  <1>1. \A f : Inventory!FoldFunction(+, 0, f) = InventoryProof!Total(f)
    BY Zenon DEF InventoryProof!Total, Inventory!FoldFunction, InventoryProof!FoldFunction,
       Inventory!FoldFunctionOnSet, InventoryProof!FoldFunctionOnSet,
       Inventory!MapThenFoldSet, InventoryProof!MapThenFoldSet
  <1>2. \A o, product : Inventory!Wanted(o, product) = InventoryProof!Wanted(o, product)
    BY Zenon DEF Inventory!Wanted, InventoryProof!Wanted, Inventory!FoldLeft, InventoryProof!FoldLeft,
       Inventory!MapThenFoldSet, InventoryProof!MapThenFoldSet, Inventory!Max, InventoryProof!Max
  <1>3. \A product : Inventory!Held(product) = InventoryProof!Held(product)
    BY Zenon DEF Inventory!Held, InventoryProof!Held, Inventory!FoldFunction, InventoryProof!FoldFunction,
       Inventory!FoldFunctionOnSet, InventoryProof!FoldFunctionOnSet,
       Inventory!MapThenFoldSet, InventoryProof!MapThenFoldSet
  <1> QED BY <1>1, <1>2, <1>3

(* The items of all completed orders are held in stock at once, as long as no  *)
(* process of inventory-service died: an order is completed only when its      *)
(* reservation was really announced, and it was announced only for units that  *)
(* processInventoryReservation moved - for any orders and stock, whatever      *)
(* happens to payment-service and order-saga.                                  *)
THEOREM CompletedIsHeld ==
    ASSUME IsFiniteSet(Orders)
    PROVE  Spec => []CompletedHoldsStock
  <1>1. SagaProof!Spec => []SagaProof!OutcomeJustified
    BY SagaProof!OutcomeCorrect, SagaAssumed, PTL
  <1>2. InventoryProof!Spec => []InventoryProof!InventoryInvariant
    <2>1. InventoryProof!IsFiniteSet(Orders)
      BY SameCounting
    <2> QED BY <2>1, InventoryProof!InvariantHolds, InventoryAssumed, PTL
  <1>3. InventoryProof!Spec => []InventoryProof!PromisesBacked
    <2>1. InventoryProof!IsFiniteSet(Orders)
      BY SameCounting
    <2> QED BY <2>1, InventoryProof!StockIsPromisedOnce, InventoryAssumed, PTL
  <1>4. SagaProof!OutcomeJustified /\ InventoryProof!InventoryInvariant
          /\ InventoryProof!PromisesBacked => CompletedHoldsStock
    <2> SUFFICES ASSUME SagaProof!OutcomeJustified, InventoryProof!InventoryInvariant,
                        InventoryProof!PromisesBacked,
                        inventoryFaults["crash"] + inventoryFaults["replay"] = 0,
                        NEW product \in Products
                 PROVE  Inventory!FoldFunction(+, 0, [o \in Orders |->
                            IF Completed(o) THEN Inventory!Wanted(o, product) ELSE 0])
                        <= Inventory!Held(product)
      BY DEF CompletedHoldsStock
    <2>1. PICK done : done = {o \in Orders : Completed(o)}
      OBVIOUS
    <2>2. PICK wanted : wanted = [o \in Orders |->
                                    IF o \in done THEN InventoryProof!Wanted(o, product) ELSE 0]
      OBVIOUS
    <2>3. [o \in Orders |-> IF Completed(o) THEN Inventory!Wanted(o, product) ELSE 0] = wanted
      BY <2>1, <2>2, SameStock
    <2>4. \A o \in done : InventoryProof!Logged("inventory.v1", o, "InventoryReserved")
      <3>1. ASSUME NEW o \in done
            PROVE  InventoryProof!Logged("inventory.v1", o, "InventoryReserved")
        <4>1. o \in Orders /\ Completed(o)
          BY <2>1, <3>1
        <4>2. SagaProof!Logged("orders.completed.v1", o, "OrderCompleted")
          BY <4>1, LoggedSeen, TopicNames DEF Completed
        <4>3. SagaProof!Logged("inventory.v1", o, "InventoryReserved")
          BY <4>1, <4>2 DEF SagaProof!OutcomeJustified
        <4> QED BY <4>1, <4>3, LoggedSeen, TopicNames
      <3> QED BY <3>1
    <2>5. InventoryProof!DeadProcesses = 0
      <3>1. /\ inventoryFaults["crash"] \in Nat /\ inventoryFaults["replay"] \in Nat
            /\ InventoryProof!Cardinality(InventoryInstances) \in Nat
        <4>1. InventoryProof!DeliveryInvariant
          BY DEF InventoryProof!InventoryInvariant
        <4>2. inventoryFaults \in [InventoryProof!FaultKinds -> Nat]
          BY <4>1, InventoryProof!InvariantFacts, InventoryAssumed
        <4>3. Cardinality(InventoryInstances) \in Nat
          BY FlowAssumption, FS_CardinalityType
        <4> QED BY <4>2, <4>3, SameCounting DEF InventoryProof!FaultKinds
      <3>2. inventoryFaults["crash"] = 0 /\ inventoryFaults["replay"] = 0
        BY <3>1
      <3> QED BY <3>1, <3>2 DEF InventoryProof!DeadProcesses
    <2>6. InventoryProof!Total(wanted) <= InventoryProof!Held(product)
      <3>1. InventoryProof!IsFiniteSet(Orders) /\ done \in SUBSET Orders
        BY <2>1, SameCounting
      <3> QED BY <2>2, <2>4, <2>5, <3>1, InventoryProof!ReservedAreHeld, InventoryAssumed
    <2> QED BY <2>3, <2>6, SameStock
  <1> QED BY <1>1, <1>2, <1>3, <1>4, FlowIsServices, PTL

=============================================================================
