------------------------------- MODULE Topics -------------------------------
(* The Kafka topics the services exchange events through, and the budget of    *)
(* faults a run may inject. The broker is external: a topic partition is an    *)
(* append-only sequence, and KafkaProducer.sendEvent picks the partition from  *)
(* the message key: the order's id, on every topic with several partitions.    *)
EXTENDS Integers, Sequences, FiniteSets

CONSTANTS
    Orders,         \* the orders customers may place
    Partitions,     \* the partitions of every topic
    PartitionOf,    \* the partition Kafka's hash of the orderId selects
    MaxFaults       \* bound: how often each kind of fault may strike

FaultKinds == {"crash", "rebalance", "send", "replay"}

ASSUME TopicsAssumption ==
    /\ PartitionOf \in [Orders -> Partitions]
    /\ MaxFaults \in [FaultKinds -> Nat]

VARIABLES
    log,            \* log[<<topic, partition>>]: the events appended so far
    faults          \* faults[kind]: how many faults of a kind have struck

AnswerKinds == {"PaymentAuthorized", "PaymentDeclined",
                "InventoryReserved", "InventoryRejected"}

EventKinds == {"OrderPlaced", "OrderCompleted", "OrderCancelled",
               "OrderRetry", "OrderDLQ"} \cup AnswerKinds

Event == [order : Orders, kind : EventKinds]

TopicsType(topics) ==
    /\ log \in [topics \X Partitions -> Seq(Event)]
    /\ faults \in [FaultKinds -> Nat]

TopicsInit(topics) ==
    /\ log = [tp \in topics \X Partitions |-> <<>>]
    /\ faults = [kind \in FaultKinds |-> 0]

(* KafkaProducer.sendEvent: the acknowledged send of one event, keyed by order *)
Send(topic, order, kind) ==
    log' = [log EXCEPT ![<<topic, PartitionOf[order]>>] =
                Append(@, [order |-> order, kind |-> kind])]

(* A send whose promise rejects after kafkajs' own retries: the broker may or  *)
(* may not hold the event, the producer cannot tell.                           *)
SendUnacknowledged(topic, order, kind) ==
    Send(topic, order, kind) \/ UNCHANGED log

Fault(kind) ==
    /\ faults[kind] < MaxFaults[kind]
    /\ faults' = [faults EXCEPT ![kind] = @ + 1]

EventsOf(topic, order, kind) ==
    LET events == log[<<topic, PartitionOf[order]>>]
    IN  {n \in DOMAIN events : events[n] = [order |-> order, kind |-> kind]}

Logged(topic, order, kind) == EventsOf(topic, order, kind) # {}

Placed(order) == Logged("orders.v1", order, "OrderPlaced")

(* OrdersService.createOrder: every request gets a fresh order id, so an order *)
(* is placed at most once; a request whose send fails may or may not place it. *)
PlaceOrder(order) ==
    /\ ~Placed(order)
    /\ Send("orders.v1", order, "OrderPlaced")
=============================================================================
