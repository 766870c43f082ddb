-------------------------- MODULE InventoryService --------------------------
(* inventory-service: InventoryService reserves the items of every placed      *)
(* order in its in-memory stock and answers with a reservation or a rejection. *)
(* A handler that fails hands its event to the RetryHandler, which publishes   *)
(* it for a retry or to the dead letter queue. Stock and idempotency cache are *)
(* per process.                                                                *)
EXTENDS ConsumerGroup, SequencesExt

CONSTANTS
    Products,       \* the products in the mock inventory
    Unknown,        \* a product id that is not in it
    ItemsOf,        \* the items of each order
    StockLevels,    \* the quantities a restart may put on the shelf at random
    MaxAttempts     \* KAFKA_RETRY_MAX_ATTEMPTS

Item == [product : Products \cup {Unknown}, quantity : Nat \ {0}]

ASSUME InventoryAssumption ==
    /\ Unknown \notin Products
    /\ ItemsOf \in [Orders -> Seq(Item)]
    /\ StockLevels # {} /\ StockLevels \subseteq Nat /\ IsFiniteSet(StockLevels)
    /\ MaxAttempts \in Nat

VARIABLES
    processed,      \* processed[i]: the offsets instance i marked processed
    inventory       \* inventory[i][product]: what instance i has and holds

vars == <<log, faults, group, inFlight, processed, inventory>>

Subscription == {"orders.v1"} \X Partitions

InventoryTopics == {"orders.v1", "inventory.v1", "orders.retry.v1", "orders.dlq.v1"}

Shelf == [Products -> [available : Nat, reserved : Nat]]

(* initializeMockInventory *)
FreshShelf == [Products -> [available : StockLevels, reserved : {0}]]

Init ==
    /\ TopicsInit(InventoryTopics)
    /\ GroupInit(Subscription)
    /\ processed = [i \in Instances |-> {}]
    /\ inventory \in [Instances -> FreshShelf]

CustomerPlaces(o) ==
    /\ PlaceOrder(o)
    /\ UNCHANGED <<faults, group, inFlight, processed, inventory>>

-----------------------------------------------------------------------------
(* Reservation *)

CanReserve(shelf, item) ==
    item.product \in Products /\ shelf[item.product].available >= item.quantity

(* A variant with a bug: what is reserved stays available.                     *)
HeldTwice(shelf, item) ==
    [shelf EXCEPT ![item.product].reserved = @ + item.quantity]

Take(shelf, item) ==
    [shelf EXCEPT ![item.product] = [available |-> @.available - item.quantity,
                                     reserved |-> @.reserved + item.quantity]]

(* A variant with a bug: an item that cannot be reserved is passed over.       *)
PassOver(attempt, item) ==
    IF CanReserve(attempt.shelf, item)
    THEN [attempt EXCEPT !.shelf = Take(@, item)]
    ELSE attempt

ReserveItem(attempt, item) ==
    IF attempt.success /\ CanReserve(attempt.shelf, item)
    THEN [attempt EXCEPT !.shelf = Take(@, item)]
    ELSE [attempt EXCEPT !.success = FALSE]

(* processInventoryReservation: items are taken one by one; the first that is  *)
(* not there ends the loop, and what was taken before it stays taken.          *)
Reservation(shelf, items) ==
    FoldLeft(ReserveItem, [shelf |-> shelf, success |-> TRUE], items)

Attempt(m) == Reservation(inventory[m.instance], ItemsOf[EventOf(m).order])

AnswerKind(m) == IF Attempt(m).success THEN "InventoryReserved" ELSE "InventoryRejected"

-----------------------------------------------------------------------------
(* RetryHandler.handleFailedEvent. The retry and the dead letter topic have a  *)
(* single partition, and no service reads them.                                *)

ErrorPartition == CHOOSE p \in Partitions : TRUE

Retried(topics, order) ==
    [topics EXCEPT ![<<"orders.retry.v1", ErrorPartition>>] =
        Append(@, [order |-> order, kind |-> "OrderRetry"])]

DeadLettered(topics, order) ==
    [topics EXCEPT ![<<"orders.dlq.v1", ErrorPartition>>] =
        Append(@, [order |-> order, kind |-> "OrderDLQ"])]

(* A variant with a bug: an event out of attempts is dropped.                  *)
DropExhausted(topics, order, retryCount) ==
    IF retryCount >= MaxAttempts THEN topics ELSE Retried(topics, order)

HandleFailedEvent(topics, order, retryCount) ==
    IF retryCount >= MaxAttempts THEN DeadLettered(topics, order)
                                 ELSE Retried(topics, order)

-----------------------------------------------------------------------------
(* The handler *)

IsDuplicate(i, tp, offset) == <<tp, offset>> \in processed[i]

SkipDuplicate(i, tp) ==
    /\ Deliverable(i, tp)
    /\ IsDuplicate(i, tp, group.position[tp])
    /\ FinishAtOnce(tp)
    /\ UNCHANGED <<log, faults, processed, inventory>>

(* the simulated processing delay begins *)
BeginReservation(i, tp) ==
    /\ Deliverable(i, tp)
    /\ ~IsDuplicate(i, tp, group.position[tp])
    /\ BeginHandling(i, tp)
    /\ UNCHANGED <<log, faults, processed, inventory>>

(* A variant with a bug: the offset is not marked when the send returns.       *)
UnmarkedAnswer(m) ==
    /\ inventory' = [inventory EXCEPT ![m.instance] = Attempt(m).shelf]
    /\ Send("inventory.v1", EventOf(m).order, AnswerKind(m))
    /\ FinishHandling(m)
    /\ UNCHANGED <<faults, processed>>

(* After the delay: the stock is changed, the answer sent and the offset       *)
(* marked. While the send is awaited nothing else in the process reads or      *)
(* changes the stock, so the three are one step.                               *)
ReserveAndAnswer(m) ==
    /\ inventory' = [inventory EXCEPT ![m.instance] = Attempt(m).shelf]
    /\ Send("inventory.v1", EventOf(m).order, AnswerKind(m))
    /\ processed' = [processed EXCEPT ![m.instance] = @ \cup {<<m.tp, m.offset>>}]
    /\ FinishHandling(m)
    /\ UNCHANGED faults

(* The simulated 20% failure, before anything is reserved: the event goes to  *)
(* the RetryHandler, always with a retry count of 0.                           *)
ReservationFails(m) ==
    /\ log' = HandleFailedEvent(log, EventOf(m).order, 0)
    /\ FinishHandling(m)
    /\ UNCHANGED <<faults, processed, inventory>>

(* ... and the RetryHandler's send is rejected: "Failed to handle retry"       *)
RetrySendFails(m) ==
    /\ Fault("send")
    /\ log' \in {log, HandleFailedEvent(log, EventOf(m).order, 0)}
    /\ FinishHandling(m)
    /\ UNCHANGED <<processed, inventory>>

(* The answer's send is rejected, whether or not the broker has the answer:    *)
(* the items stay reserved, the offset is not marked, and the event goes to    *)
(* the RetryHandler, whose own send the same outage may hit.                   *)
AnswerFails(m) ==
    LET order == EventOf(m).order
        answered == [log EXCEPT ![<<"inventory.v1", PartitionOf[order]>>] =
                        Append(@, [order |-> order, kind |-> AnswerKind(m)])]
    IN  /\ Fault("send")
        /\ \E topics \in {log, answered} :
              log' \in {topics, HandleFailedEvent(topics, order, 0)}
        /\ inventory' = [inventory EXCEPT ![m.instance] = Attempt(m).shelf]
        /\ FinishHandling(m)
        /\ UNCHANGED processed

Commit(i) == AutoCommit(i) /\ UNCHANGED <<processed, inventory>>

GroupRebalances == Rebalance /\ UNCHANGED <<processed, inventory>>

Crash(i) ==
    /\ CrashAndRejoin(i)
    /\ processed' = [processed EXCEPT ![i] = {}]
    /\ \E shelf \in FreshShelf : inventory' = [inventory EXCEPT ![i] = shelf]

ReplayOrders ==
    /\ Replay
    /\ processed' = [i \in Instances |-> {}]
    /\ inventory' \in [Instances -> FreshShelf]

Handle(i) == \E tp \in Subscription : SkipDuplicate(i, tp) \/ BeginReservation(i, tp)

Answer ==
    \E m \in inFlight :
        ReserveAndAnswer(m) \/ ReservationFails(m) \/ RetrySendFails(m) \/ AnswerFails(m)

InventoryStep ==
    \/ \E i \in Instances : Handle(i) \/ Commit(i) \/ Crash(i)
    \/ Answer
    \/ GroupRebalances
    \/ ReplayOrders

Next == (\E o \in Orders : CustomerPlaces(o)) \/ InventoryStep

Spec == Init /\ [][Next]_vars

(* kafkajs keeps polling every partition, and the handler's timers and sends   *)
(* settle.                                                                     *)
InventoryFairness ==
    /\ \A i \in Instances : \A tp \in Subscription :
          WF_vars(SkipDuplicate(i, tp) \/ BeginReservation(i, tp))
    /\ WF_vars(Answer)

FairSpec == Spec /\ InventoryFairness

-----------------------------------------------------------------------------
(* Properties *)

TypeOK ==
    /\ TopicsType(InventoryTopics)
    /\ GroupType(Subscription)
    /\ GroupBounds
    /\ processed \in [Instances -> SUBSET (Subscription \X Nat)]
    /\ inventory \in [Instances -> Shelf]

Wanted(o, product) ==
    FoldLeft(LAMBDA sum, item : IF item.product = product THEN sum + item.quantity ELSE sum,
             0, ItemsOf[o])

(* the units of a product the events on inventory.v1 promise to customers *)
Promised(product) ==
    FoldFunction(+, 0, [o \in Orders |->
        Wanted(o, product) * Cardinality(EventsOf("inventory.v1", o, "InventoryReserved"))])

Held(product) ==
    FoldFunction(+, 0, [i \in Instances |-> inventory[i][product].reserved])

(* the processes of the service that died: a replay stops them all *)
DeadProcesses == faults["crash"] + Cardinality(Instances) * faults["replay"]

(* Every unit promised to a customer is held in the stock of some instance, as *)
(* long as no process lost its memory: no order is answered with a reservation *)
(* of part of its items (processInventoryReservation and its two publishers).  *)
PromisesBacked ==
    DeadProcesses = 0 => \A product \in Products : Promised(product) <= Held(product)

(* Nothing is sold twice by one process: even with failures, redeliveries and  *)
(* reassignments, the promises are at most what all processes ever put on      *)
(* their shelves. Each start puts fresh stock there.                           *)
SoldFromStock ==
    \A product \in Products :
        Promised(product) <= (Cardinality(Instances) + DeadProcesses) * Max(StockLevels)

Answers(o) ==
    Cardinality(EventsOf("inventory.v1", o, "InventoryReserved"))
      + Cardinality(EventsOf("inventory.v1", o, "InventoryRejected"))

(* the living processes whose cache holds order o *)
Remembering(o) ==
    {i \in Instances : \E entry \in processed[i] : log[entry[1]][entry[2] + 1].order = o}

(* Every answer was sent by a process that remembers it, or died, or met a      *)
(* rejected send: rebalances and redelivered offsets alone never make a process *)
(* reserve an order again (isDuplicate, markProcessed).                         *)
ReservedOncePerProcess ==
    \A o \in Orders :
        Answers(o) <= Cardinality(Remembering(o)) + DeadProcesses + faults["send"]

InErrorTopic(topic, o) ==
    \E n \in DOMAIN log[<<topic, ErrorPartition>>] : log[<<topic, ErrorPartition>>][n].order = o

Settled(o) ==
    \/ Answers(o) > 0
    \/ InErrorTopic("orders.retry.v1", o)
    \/ InErrorTopic("orders.dlq.v1", o)

(* An offset is committed only when its order was answered or is on the retry  *)
(* or dead letter topic, unless a send was rejected (handleOrderPlaced's two   *)
(* catch blocks against kafkajs's commits).                                    *)
CommittedWasSettled ==
    faults["send"] = 0 =>
        \A tp \in Subscription : \A n \in 1..Len(log[tp]) :
            n <= group.committed[tp] => Settled(log[tp][n].order)

(* What makes CommittedWasSettled and ReservedOncePerProcess true from step to *)
(* step: an order is on its topic once, in the partition of its key; the cache *)
(* holds offsets of the log, never the one its process works on, and only      *)
(* settled ones; what was delivered, and what was committed, was settled.      *)
OrdersInPlace ==
    \A tp \in Subscription : \A n \in DOMAIN log[tp] :
        /\ tp[2] = PartitionOf[log[tp][n].order]
        /\ log[tp][n].kind = "OrderPlaced"
        /\ \A k \in DOMAIN log[tp] : log[tp][k].order = log[tp][n].order => k = n

ProcessedInLog ==
    \A i \in Instances : \A entry \in processed[i] : entry[2] < Len(log[entry[1]])

ProcessedWasSettled ==
    \A i \in Instances : \A entry \in processed[i] :
        Settled(log[entry[1]][entry[2] + 1].order)

InFlightUnmarked == \A m \in inFlight : <<m.tp, m.offset>> \notin processed[m.instance]

DeliveredWasSettled ==
    faults["send"] = 0 /\ InitialCommitted = 0 =>
        \A tp \in Subscription :
            /\ group.committed[tp] # NoOffset
            /\ \A n \in DOMAIN log[tp] :
                  n <= group.position[tp] \/ n <= group.committed[tp] =>
                      Settled(log[tp][n].order)

DeliveryInvariant ==
    /\ TopicsType(InventoryTopics)
    /\ GroupType(Subscription)
    /\ GroupBounds
    /\ processed \in [Instances -> SUBSET (Subscription \X Nat)]
    /\ OrdersInPlace
    /\ ProcessedInLog
    /\ ProcessedWasSettled
    /\ InFlightUnmarked
    /\ DeliveredWasSettled

(* What makes PromisesBacked and SoldFromStock true from step to step: a        *)
(* reservation moves units on one shelf, and a process that dies takes along    *)
(* at most what a start puts there.                                            *)
ShelvesBounded ==
    \A i \in Instances, product \in Products :
        inventory[i][product].available + inventory[i][product].reserved <= Max(StockLevels)

PromisesHeld ==
    \A product \in Products :
        Promised(product) <= Held(product) + DeadProcesses * Max(StockLevels)

(* The types, the stock and the deliveries together: in particular no process  *)
(* reserves more of a product than it has (CanReserve, Take), and what an      *)
(* instance takes for a duplicate was settled.                                 *)
InventoryInvariant ==
    /\ TypeOK
    /\ ShelvesBounded /\ PromisesHeld /\ SoldFromStock
    /\ DeliveryInvariant

(* Every placed order ends up answered, on the retry topic or on the dead      *)
(* letter topic, through rebalances and crashes, if no send is rejected.       *)
EveryOrderSettled ==
    \A o \in Orders : Placed(o) ~> (Settled(o) \/ faults["send"] > 0)
=============================================================================
