------------------------------ MODULE OrderFlow ------------------------------
(* The order flow end to end: the gateway places orders, payment-service and   *)
(* inventory-service answer them, order-saga joins the answers. The services   *)
(* share nothing but the topics; each has its own consumer group and its own   *)
(* faults.                                                                     *)
EXTENDS Integers, Sequences, FiniteSets

CONSTANTS
    Orders, Partitions, PartitionOf,
    PaymentInstances, InventoryInstances, SagaInstances,
    PaymentMaxFaults, InventoryMaxFaults, SagaMaxFaults,
    InitialCommitted,
    Products, Unknown, ItemsOf, StockLevels, MaxAttempts,
    MaxAnswers      \* the refinement's bound on the answers to one order

VARIABLES
    log,
    paymentFaults, paymentGroup, paymentInFlight, paymentProcessed,
    inventoryFaults, inventoryGroup, inventoryInFlight, inventoryProcessed, inventory,
    sagaFaults, sagaGroup, sagaInFlight, orderStates

paymentVars == <<paymentFaults, paymentGroup, paymentInFlight, paymentProcessed>>
inventoryVars ==
    <<inventoryFaults, inventoryGroup, inventoryInFlight, inventoryProcessed, inventory>>
sagaVars == <<sagaFaults, sagaGroup, sagaInFlight, orderStates>>
vars == <<log, paymentVars, inventoryVars, sagaVars>>

Payment == INSTANCE PaymentService WITH
    Instances <- PaymentInstances, MaxFaults <- PaymentMaxFaults,
    ResultsOf <- [o \in Orders |-> {"PaymentAuthorized", "PaymentDeclined"}],
    faults <- paymentFaults, group <- paymentGroup,
    inFlight <- paymentInFlight, processed <- paymentProcessed

Inventory == INSTANCE InventoryService WITH
    Instances <- InventoryInstances, MaxFaults <- InventoryMaxFaults,
    faults <- inventoryFaults, group <- inventoryGroup,
    inFlight <- inventoryInFlight, processed <- inventoryProcessed

Saga == INSTANCE OrderSaga WITH
    Instances <- SagaInstances, MaxFaults <- SagaMaxFaults,
    faults <- sagaFaults, group <- sagaGroup, inFlight <- sagaInFlight

(* What the modules of the services assume, and that MaxAnswers leaves room for *)
(* every answer: one of each process that is ever started, one for each        *)
(* rejected send.                                                              *)
AnswersAtMost(instances, maxFaults) ==
    Cardinality(instances) * (1 + maxFaults["replay"]) + maxFaults["crash"] + maxFaults["send"]

ASSUME FlowAssumption ==
    /\ PartitionOf \in [Orders -> Partitions]
    /\ InitialCommitted \in {Saga!NoOffset, 0}
    /\ \A maxFaults \in {PaymentMaxFaults, InventoryMaxFaults, SagaMaxFaults} :
          maxFaults \in [Saga!FaultKinds -> Nat]
    /\ \A instances \in {PaymentInstances, InventoryInstances, SagaInstances} :
          instances # {} /\ IsFiniteSet(instances)
    /\ Unknown \notin Products
    /\ ItemsOf \in [Orders -> Seq(Inventory!Item)]
    /\ StockLevels # {} /\ StockLevels \subseteq Nat /\ IsFiniteSet(StockLevels)
    /\ MaxAttempts \in Nat
    /\ MaxAnswers \in Nat
    /\ AnswersAtMost(PaymentInstances, PaymentMaxFaults) <= MaxAnswers
    /\ AnswersAtMost(InventoryInstances, InventoryMaxFaults) <= MaxAnswers

(* what each service sees of the topics *)
LogOf(topics) == [tp \in topics \X Partitions |-> log[tp]]

FlowTopics ==
    Payment!PaymentTopics \cup Inventory!InventoryTopics \cup Saga!SagaTopics

NoFaults == [kind \in Saga!FaultKinds |-> 0]

Init ==
    /\ log = [tp \in FlowTopics \X Partitions |-> <<>>]
    /\ paymentFaults = NoFaults /\ inventoryFaults = NoFaults /\ sagaFaults = NoFaults
    /\ Payment!GroupInit(Payment!Subscription)
    /\ Inventory!GroupInit(Inventory!Subscription)
    /\ Saga!GroupInit(Saga!Subscription)
    /\ paymentProcessed = [i \in PaymentInstances |-> {}]
    /\ inventoryProcessed = [i \in InventoryInstances |-> {}]
    /\ inventory \in [InventoryInstances -> Inventory!FreshShelf]
    /\ orderStates = [i \in SagaInstances |-> [o \in Orders |-> Saga!Untracked]]

(* OrdersController.createOrder hands the request to OrdersService *)
CreateOrder(o) ==
    /\ Saga!PlaceOrder(o)
    /\ UNCHANGED <<paymentVars, inventoryVars, sagaVars>>

PaymentStep == Payment!PaymentStep /\ UNCHANGED <<inventoryVars, sagaVars>>

InventoryStep == Inventory!InventoryStep /\ UNCHANGED <<paymentVars, sagaVars>>

SagaStep == Saga!SagaStep /\ UNCHANGED <<paymentVars, inventoryVars>>

Next ==
    \/ \E o \in Orders : CreateOrder(o)
    \/ PaymentStep
    \/ InventoryStep
    \/ SagaStep

Spec == Init /\ [][Next]_vars

(* kafkajs polls every partition for every service, timers and sends settle *)
FlowFairness ==
    /\ \A i \in PaymentInstances :
          WF_vars(Payment!Handle(i) /\ UNCHANGED <<inventoryVars, sagaVars>>)
    /\ WF_vars(Payment!Answer /\ UNCHANGED <<inventoryVars, sagaVars>>)
    /\ \A i \in InventoryInstances :
          WF_vars(Inventory!Handle(i) /\ UNCHANGED <<paymentVars, sagaVars>>)
    /\ WF_vars(Inventory!Answer /\ UNCHANGED <<paymentVars, sagaVars>>)
    /\ \A i \in SagaInstances : \A tp \in Saga!Subscription :
          WF_vars(/\ \/ Saga!HandleOrderPlaced(i, tp)
                     \/ Saga!DropAnswer(i, tp)
                     \/ Saga!HandleAnswer(i, tp)
                  /\ UNCHANGED <<paymentVars, inventoryVars>>)
    /\ WF_vars(Saga!Publish /\ UNCHANGED <<paymentVars, inventoryVars>>)

FairSpec == Spec /\ FlowFairness

-----------------------------------------------------------------------------
(* Properties *)

(* The saga as its own specification describes it, over the topics it knows.   *)
SagaView == INSTANCE OrderSaga WITH
    log <- LogOf(Saga!SagaTopics),
    Instances <- SagaInstances, MaxFaults <- SagaMaxFaults,
    faults <- sagaFaults, group <- sagaGroup, inFlight <- sagaInFlight

(* The payment and the inventory service are an environment the saga's own     *)
(* specification allows: through their failures and redeliveries they send no  *)
(* more than MaxAnswers events about an order, and none that is not placed. So *)
(* what is checked and proved of OrderSaga holds in the whole flow.            *)
ImplementsSaga == SagaView!Spec

(* A decision of the saga turns into its opposite only when an upstream service *)
(* really answered the order both ways - a payment redelivered after a crash    *)
(* draws a result of its own - and is never forgotten while the saga's group is *)
(* left alone: what OrderSaga checks for one answer each, for repeated ones.    *)
SagaDecisionStable == SagaView!DecisionStable

Completed(o) == Saga!Logged("orders.completed.v1", o, "OrderCompleted")

Cancelled(o) == Saga!Logged("orders.cancelled.v1", o, "OrderCancelled")

UpstreamFailures ==
    paymentFaults["crash"] + paymentFaults["send"] + paymentFaults["replay"]
      + inventoryFaults["crash"] + inventoryFaults["send"] + inventoryFaults["replay"]

(* An order is never announced as both completed and cancelled, however the    *)
(* groups are rebalanced, while neither upstream service loses its memory or a *)
(* send (the idempotency caches and the join together) and each is deployed as *)
(* one process, as docker-compose.yml does: of two, a rebalance would hand an  *)
(* order whose offset is not committed yet to the one that does not know it.   *)
OneOutcome == \A o \in Orders : UpstreamFailures = 0 => ~(Completed(o) /\ Cancelled(o))

(* The items of every completed order are held in stock, as long as            *)
(* inventory-service lost no memory: from processInventoryReservation through  *)
(* the saga's join to the outcome topic.                                       *)
CompletedHoldsStock ==
    inventoryFaults["crash"] + inventoryFaults["replay"] = 0 =>
        \A product \in Products :
            Inventory!FoldFunction(+, 0, [o \in Orders |->
                IF Completed(o) THEN Inventory!Wanted(o, product) ELSE 0])
            <= Inventory!Held(product)

SagaDisturbed == \E kind \in Saga!FaultKinds : sagaFaults[kind] > 0

SendRejected == paymentFaults["send"] + inventoryFaults["send"] > 0

TrackedInTime(o) ==
    /\ \E i \in SagaInstances : Saga!Tracked(i, o)
    /\ Saga!Answers("payments.v1", o) = {} /\ Saga!Answers("inventory.v1", o) = {}

Sidelined(o) ==
    Inventory!InErrorTopic("orders.retry.v1", o) \/ Inventory!InErrorTopic("orders.dlq.v1", o)

(* An order the saga learns of before anyone answered it is decided, or it     *)
(* failed in inventory-service and waits on the retry topic - whatever happens *)
(* to the upstream services, as long as no send is rejected and the saga's     *)
(* group is left alone.                                                        *)
TrackedOrderDecided ==
    \A o \in Orders :
        TrackedInTime(o) ~>
            (Completed(o) \/ Cancelled(o) \/ Sidelined(o) \/ SagaDisturbed \/ SendRejected)

(* README "Normal Success Path": payment, inventory and saga complete an       *)
(* order - a placed order that inventory-service did not fail is decided.      *)
PlacedOrderDecided ==
    \A o \in Orders : Saga!Placed(o) ~> (Completed(o) \/ Cancelled(o) \/ Sidelined(o))
=============================================================================
