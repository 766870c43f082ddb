------------------------------ MODULE OrderSaga ------------------------------
(* order-saga: OrderSagaService joins the answers of the payment and the       *)
(* inventory service to the order they belong to, keeps the order's state in   *)
(* memory, and publishes its outcome. The gateway, the payment service and the *)
(* inventory service are this module's environment: they may answer a placed   *)
(* order in any order and more than once, as redelivery makes them do.         *)
EXTENDS ConsumerGroup, SequencesExt

CONSTANT
    MaxAnswers      \* bound: events each upstream service sends about an order

ASSUME SagaAssumption == MaxAnswers \in Nat

VARIABLE orderStates    \* orderStates[i][o]: instance i's Map entry of order o

vars == <<log, faults, group, inFlight, orderStates>>

Subscription == {"orders.v1", "payments.v1", "inventory.v1"} \X Partitions

SagaTopics == {"orders.v1", "payments.v1", "inventory.v1",
               "orders.completed.v1", "orders.cancelled.v1"}

OrderState == [payment : {"NONE", "PENDING", "AUTHORIZED", "DECLINED"},
               inventory : {"NONE", "PENDING", "RESERVED", "REJECTED"},
               status : {"NONE", "PENDING", "COMPLETED", "CANCELLED"}]

(* no entry in the Map *)
Untracked == [payment |-> "NONE", inventory |-> "NONE", status |-> "NONE"]

NewOrder == [payment |-> "PENDING", inventory |-> "PENDING", status |-> "PENDING"]

Tracked(i, o) == orderStates[i][o] # Untracked

Ready(st) == st.payment = "AUTHORIZED" /\ st.inventory = "RESERVED"

(* Variants with a bug each: the second answer does not complete the order; a  *)
(* reservation that completes nothing makes the order pending again.           *)
AuthorizedUnjoined(st) == [st EXCEPT !.payment = "AUTHORIZED"]

ReservedReopens(st) ==
    [st EXCEPT !.inventory = "RESERVED",
               !.status = IF st.payment = "AUTHORIZED" THEN "COMPLETED" ELSE "PENDING"]

(* handlePaymentEvent and handleInventoryEvent on the order's entry *)
Authorized(st) ==
    [st EXCEPT !.payment = "AUTHORIZED",
               !.status = IF st.inventory = "RESERVED" THEN "COMPLETED" ELSE @]

Declined(st) == [st EXCEPT !.payment = "DECLINED", !.status = "CANCELLED"]

Reserved(st) ==
    [st EXCEPT !.inventory = "RESERVED",
               !.status = IF st.payment = "AUTHORIZED" THEN "COMPLETED" ELSE @]

Rejected(st) == [st EXCEPT !.inventory = "REJECTED", !.status = "CANCELLED"]

Applied(st, kind) ==
    CASE kind = "PaymentAuthorized" -> Authorized(st)
      [] kind = "PaymentDeclined"   -> Declined(st)
      [] kind = "InventoryReserved" -> Reserved(st)
      [] kind = "InventoryRejected" -> Rejected(st)

(* Variants with a bug each: the first good answer is taken for both; the      *)
(* inventory handler forgets to publish the completion.                        *)
PublishesEarly(st, kind) == kind # "InventoryReserved"

PublishesOnPaymentOnly(st, kind) ==
    \/ kind \in {"PaymentDeclined", "InventoryRejected"}
    \/ kind = "PaymentAuthorized" /\ Ready(Applied(st, kind))

(* the handler goes on to publish: a refusal always, good news once both are in *)
Publishes(st, kind) ==
    \/ kind \in {"PaymentDeclined", "InventoryRejected"}
    \/ Ready(Applied(st, kind))

OutcomeTopic(kind) ==
    IF kind \in {"PaymentDeclined", "InventoryRejected"}
    THEN "orders.cancelled.v1" ELSE "orders.completed.v1"

OutcomeKind(kind) ==
    IF kind \in {"PaymentDeclined", "InventoryRejected"}
    THEN "OrderCancelled" ELSE "OrderCompleted"

Init ==
    /\ TopicsInit(SagaTopics)
    /\ GroupInit(Subscription)
    /\ orderStates = [i \in Instances |-> [o \in Orders |-> Untracked]]

-----------------------------------------------------------------------------
(* The environment *)

CustomerPlaces(o) ==
    /\ PlaceOrder(o)
    /\ UNCHANGED <<faults, group, inFlight, orderStates>>

AnswerTopic(kind) ==
    IF kind \in {"PaymentAuthorized", "PaymentDeclined"}
    THEN "payments.v1" ELSE "inventory.v1"

Answers(topic, o) ==
    LET events == log[<<topic, PartitionOf[o]>>]
    IN  {n \in DOMAIN events : events[n].order = o}

UpstreamAnswers(o, kind) ==
    /\ Placed(o)
    /\ Cardinality(Answers(AnswerTopic(kind), o)) < MaxAnswers
    /\ Send(AnswerTopic(kind), o, kind)
    /\ UNCHANGED <<faults, group, inFlight, orderStates>>

-----------------------------------------------------------------------------
(* The service *)

(* A redelivered OrderPlaced overwrites the entry: there is no duplicate check *)
HandleOrderPlaced(i, tp) ==
    /\ Deliverable(i, tp)
    /\ NextEvent(tp).kind = "OrderPlaced"
    /\ orderStates' = [orderStates EXCEPT ![i][NextEvent(tp).order] = NewOrder]
    /\ FinishAtOnce(tp)
    /\ UNCHANGED <<log, faults>>

(* A variant with a bug: the first answer to an untracked order is parked, so  *)
(* that an entry exists before its OrderPlaced.                                *)
ParksAnswer(i, tp) ==
    LET e == NextEvent(tp)
    IN  /\ Deliverable(i, tp)
        /\ e.kind \in AnswerKinds
        /\ ~Tracked(i, e.order)
        /\ orderStates' = [orderStates EXCEPT ![i][e.order] = Applied(NewOrder, e.kind)]
        /\ FinishAtOnce(tp)
        /\ UNCHANGED <<log, faults>>

(* "Order state not found": the answer is dropped for good *)
DropAnswer(i, tp) ==
    /\ Deliverable(i, tp)
    /\ NextEvent(tp).kind \in AnswerKinds
    /\ ~Tracked(i, NextEvent(tp).order)
    /\ FinishAtOnce(tp)
    /\ UNCHANGED <<log, faults, orderStates>>

HandleAnswer(i, tp) ==
    LET e  == NextEvent(tp)
        st == orderStates[i][e.order]
    IN  /\ Deliverable(i, tp)
        /\ e.kind \in AnswerKinds
        /\ Tracked(i, e.order)
        /\ orderStates' = [orderStates EXCEPT ![i][e.order] = Applied(st, e.kind)]
        /\ IF Publishes(st, e.kind) THEN BeginHandling(i, tp) ELSE FinishAtOnce(tp)
        /\ UNCHANGED <<log, faults>>

PublishOutcome(m) ==
    LET e == EventOf(m)
    IN  /\ Send(OutcomeTopic(e.kind), e.order, OutcomeKind(e.kind))
        /\ FinishHandling(m)
        /\ UNCHANGED <<faults, orderStates>>

(* handleEvent swallows the rejected send; the message still counts as handled *)
PublishOutcomeFails(m) ==
    LET e == EventOf(m)
    IN  /\ Fault("send")
        /\ SendUnacknowledged(OutcomeTopic(e.kind), e.order, OutcomeKind(e.kind))
        /\ FinishHandling(m)
        /\ UNCHANGED orderStates

Stuck(st) == st.status = "PENDING" /\ Ready(st)

StuckOrders(i) == {o \in Orders : Stuck(orderStates[i][o])}

(* POST fix-stuck-orders: one synchronous pass over the Map, with sends nobody *)
(* awaits. It runs even while a handler awaits its own send.                   *)
FixStuckOrders(i) ==
    LET Completions(p) == {[order |-> o, kind |-> "OrderCompleted"] :
                               o \in {s \in StuckOrders(i) : PartitionOf[s] = p}}
    IN  /\ orderStates' = [orderStates EXCEPT ![i] = [o \in Orders |->
              IF o \in StuckOrders(i) THEN [@[o] EXCEPT !.status = "COMPLETED"] ELSE @[o]]]
        /\ log' = [tp \in DOMAIN log |->
              IF tp[1] = "orders.completed.v1"
              THEN log[tp] \o SetToSeq(Completions(tp[2])) ELSE log[tp]]
        /\ UNCHANGED <<faults, group, inFlight>>

Commit(i) == AutoCommit(i) /\ UNCHANGED orderStates

GroupRebalances == Rebalance /\ UNCHANGED orderStates

(* the Map lives in the process *)
Crash(i) ==
    /\ CrashAndRejoin(i)
    /\ orderStates' = [orderStates EXCEPT ![i] = [o \in Orders |-> Untracked]]

(* old orders come back without the old answers, whose topics are not reset *)
ReplayOrders ==
    /\ Replay
    /\ orderStates' = [i \in Instances |-> [o \in Orders |-> Untracked]]

Environment ==
    \/ \E o \in Orders : CustomerPlaces(o)
    \/ \E o \in Orders, kind \in AnswerKinds : UpstreamAnswers(o, kind)

Handle(i) ==
    \E tp \in Subscription :
        HandleOrderPlaced(i, tp) \/ DropAnswer(i, tp) \/ HandleAnswer(i, tp)

Publish ==
    \E m \in inFlight : PublishOutcome(m) \/ PublishOutcomeFails(m)

SagaStep ==
    \/ \E i \in Instances : Handle(i) \/ FixStuckOrders(i) \/ Commit(i) \/ Crash(i)
    \/ Publish
    \/ GroupRebalances
    \/ ReplayOrders

Next == Environment \/ SagaStep

Spec == Init /\ [][Next]_vars

(* kafkajs keeps polling every partition, and a pending send settles *)
SagaFairness ==
    /\ \A i \in Instances : \A tp \in Subscription :
          WF_vars(HandleOrderPlaced(i, tp) \/ DropAnswer(i, tp) \/ HandleAnswer(i, tp))
    /\ WF_vars(Publish)

FairSpec == Spec /\ SagaFairness

-----------------------------------------------------------------------------
(* Properties *)

TypeOK ==
    /\ TopicsType(SagaTopics)
    /\ GroupType(Subscription)
    /\ GroupBounds
    /\ orderStates \in [Instances -> [Orders -> OrderState]]

(* What the two answers say and what the saga decided agree in every entry, in *)
(* whatever order, and however often, the answers arrived; in particular       *)
(* checkAndFixStuckOrders never finds an order to fix                          *)
(* (order-saga.service.ts, both handlers).                                     *)
StatusJoinsAnswers ==
    \A i \in Instances, o \in Orders :
        LET st == orderStates[i][o]
        IN  /\ st.status = "COMPLETED" => Ready(st)
            /\ Ready(st) => st.status # "PENDING"
            /\ st.status = "PENDING" => st.payment # "DECLINED" /\ st.inventory # "REJECTED"

(* A published OrderCompleted is backed by an authorized payment and by        *)
(* reserved stock; an OrderCancelled by a refusal - across redeliveries,       *)
(* reassignments and crashes of the saga (the sends of the two handlers).      *)
OutcomeJustified ==
    \A o \in Orders :
        /\ Logged("orders.completed.v1", o, "OrderCompleted") =>
              Logged("payments.v1", o, "PaymentAuthorized") /\
              Logged("inventory.v1", o, "InventoryReserved")
        /\ Logged("orders.cancelled.v1", o, "OrderCancelled") =>
              Logged("payments.v1", o, "PaymentDeclined") \/
              Logged("inventory.v1", o, "InventoryRejected")

(* A decision the HTTP endpoints show is on its topic, or about to be, as long *)
(* as no send was rejected: the entry is changed before the send is awaited.   *)
PublishedOrPending(i, o, topic, kind) ==
    \/ Logged(topic, o, kind)
    \/ \E m \in inFlight :
          m.instance = i /\ EventOf(m).order = o /\ OutcomeKind(EventOf(m).kind) = kind

DecisionIsPublished ==
    faults["send"] = 0 => \A i \in Instances, o \in Orders :
        /\ orderStates[i][o].status = "COMPLETED" =>
              PublishedOrPending(i, o, "orders.completed.v1", "OrderCompleted")
        /\ orderStates[i][o].status = "CANCELLED" =>
              PublishedOrPending(i, o, "orders.cancelled.v1", "OrderCancelled")

(* While no upstream service contradicts itself about an order, the saga never *)
(* announces both outcomes for it, whatever is redelivered to it.              *)
SelfContradicted(o) ==
    \/ Logged("payments.v1", o, "PaymentAuthorized") /\ Logged("payments.v1", o, "PaymentDeclined")
    \/ Logged("inventory.v1", o, "InventoryReserved") /\ Logged("inventory.v1", o, "InventoryRejected")

OutcomeExclusive ==
    \A o \in Orders :
        \/ SelfContradicted(o)
        \/ ~Logged("orders.completed.v1", o, "OrderCompleted")
        \/ ~Logged("orders.cancelled.v1", o, "OrderCancelled")

(* The inductive strengthening: every event sits where its key puts it and an  *)
(* order is placed once, an entry belongs to a placed order and only says what *)
(* an upstream service said, and a handler that awaits its send was entitled   *)
(* to it (handlePaymentEvent, handleInventoryEvent).                           *)
AnswersInPlace ==
    \A tp \in DOMAIN log : \A n \in DOMAIN log[tp] :
        log[tp][n].kind \in AnswerKinds =>
            tp = <<AnswerTopic(log[tp][n].kind), PartitionOf[log[tp][n].order]>>

OrdersInPlace ==
    \A tp \in DOMAIN log : \A n \in DOMAIN log[tp] :
        log[tp][n].kind = "OrderPlaced" =>
            tp = <<"orders.v1", PartitionOf[log[tp][n].order]>>

PlacedOnce ==
    \A o \in Orders : \A m, n \in EventsOf("orders.v1", o, "OrderPlaced") : m = n

EntriesJustified ==
    \A i \in Instances, o \in Orders :
        LET st == orderStates[i][o]
        IN  /\ Tracked(i, o) => st.status # "NONE" /\ Placed(o)
            /\ st.payment = "AUTHORIZED" => Logged("payments.v1", o, "PaymentAuthorized")
            /\ st.inventory = "RESERVED" => Logged("inventory.v1", o, "InventoryReserved")
            /\ st.status = "CANCELLED" =>
                  Logged("payments.v1", o, "PaymentDeclined") \/
                  Logged("inventory.v1", o, "InventoryRejected")

(* An undisturbed group never delivers an order again: the OrderPlaced of an   *)
(* entry lies behind the group's position.                                     *)
Regrouped == faults["rebalance"] + faults["crash"] + faults["replay"] > 0

TrackedBehind ==
    ~Regrouped => \A i \in Instances, o \in Orders : Tracked(i, o) =>
        \A n \in EventsOf("orders.v1", o, "OrderPlaced") :
            n <= group.position[<<"orders.v1", PartitionOf[o]>>]

InFlightJustified ==
    \A m \in inFlight :
        LET e == EventOf(m)
        IN  /\ e.kind \in AnswerKinds
            /\ Logged(AnswerTopic(e.kind), e.order, e.kind)
            /\ OutcomeKind(e.kind) = "OrderCompleted" =>
                  Logged("payments.v1", e.order, "PaymentAuthorized") /\
                  Logged("inventory.v1", e.order, "InventoryReserved")

SagaInvariant ==
    /\ TypeOK
    /\ StatusJoinsAnswers
    /\ AnswersInPlace
    /\ OrdersInPlace
    /\ PlacedOnce
    /\ EntriesJustified
    /\ TrackedBehind
    /\ InFlightJustified
    /\ OutcomeJustified

(* The abstraction of this module's state: which outcomes the answers on the   *)
(* topics justify, the status of each entry, the outcomes on the topics.       *)
Settled(o) ==
    {outcome \in {"COMPLETED", "CANCELLED"} :
        IF outcome = "COMPLETED"
        THEN /\ Logged("payments.v1", o, "PaymentAuthorized")
             /\ Logged("inventory.v1", o, "InventoryReserved")
        ELSE \/ Logged("payments.v1", o, "PaymentDeclined")
             \/ Logged("inventory.v1", o, "InventoryRejected")}

Announced(o) ==
    {outcome \in {"COMPLETED", "CANCELLED"} :
        IF outcome = "COMPLETED"
        THEN Logged("orders.completed.v1", o, "OrderCompleted")
        ELSE Logged("orders.cancelled.v1", o, "OrderCancelled")}

Outcome == INSTANCE OrderOutcome WITH
    placed    <- {o \in Orders : Placed(o)},
    settled   <- [o \in Orders |-> Settled(o)],
    entries   <- [i \in Instances |-> [o \in Orders |-> orderStates[i][o].status]],
    announced <- [o \in Orders |-> Announced(o)]

(* Whatever is redelivered, lost or forgotten: an instance shows an outcome,   *)
(* and announces it, only when the answers justify it, and an entry comes into *)
(* being as pending, from its OrderPlaced (every handler of OrderSagaService). *)
ImplementsOutcome == Outcome!OutcomeSpec

Decided(i, o) == orderStates[i][o].status \in {"COMPLETED", "CANCELLED"}

(* A decision only changes into the opposite one when an upstream service      *)
(* contradicted itself or the group was disturbed, and it is only forgotten    *)
(* when the group was disturbed: a rebalance, a crash of an instance, a replay.*)
DecisionStable ==
    [][\A i \in Instances, o \in Orders :
          Decided(i, o) /\ orderStates'[i][o].status # orderStates[i][o].status =>
              \/ Decided(i, o)' /\ SelfContradicted(o)
              \/ Regrouped']_vars

(* An answer instance i will still get: appended, not yet delivered.           *)
Undelivered(i, topic, o, kind) ==
    LET tp == <<topic, PartitionOf[o]>>
    IN  /\ group.owner[tp] = i
        /\ \E n \in EventsOf(topic, o, kind) : n > group.position[tp]

Disturbed == \E kind \in FaultKinds : faults[kind] > 0

(* An order whose answers come to its instance after the order itself is       *)
(* announced: as completed when both are good, as cancelled when one is a      *)
(* refusal, unless the group is disturbed or a send rejected (the join of the  *)
(* two handlers and their sends).                                              *)
AnsweredOrderDecided ==
    \A i \in Instances, o \in Orders :
        /\ (/\ orderStates[i][o] = NewOrder
            /\ Undelivered(i, "payments.v1", o, "PaymentAuthorized")
            /\ Undelivered(i, "inventory.v1", o, "InventoryReserved"))
              ~> \/ SelfContradicted(o) \/ Disturbed
                 \/ Logged("orders.completed.v1", o, "OrderCompleted")
        /\ (/\ Tracked(i, o)
            /\ \/ Undelivered(i, "payments.v1", o, "PaymentDeclined")
               \/ Undelivered(i, "inventory.v1", o, "InventoryRejected"))
              ~> Logged("orders.cancelled.v1", o, "OrderCancelled") \/ Disturbed

(* README "At-Least-Once Delivery": duplicates are handled gracefully - what   *)
(* the saga decided about an order is not undone by a redelivered event.       *)
DuplicatesAreHarmless ==
    [][\A i \in Instances, o \in Orders :
          Decided(i, o) /\ faults'["crash"] = 0 => Decided(i, o)']_vars
=============================================================================
