-------------------------- MODULE AnalyticsService --------------------------
(* analytics-service: AnalyticsService counts what was ordered, in memory, and *)
(* publishes the ranking of the products every few minutes.                    *)
EXTENDS ConsumerGroup, SequencesExt

CONSTANTS
    Products,       \* the products customers order
    ItemsOf,        \* the items of each order
    TopSize,        \* how many products a snapshot ranks
    MaxSnapshots    \* bound: snapshots published

ASSUME AnalyticsAssumption ==
    /\ ItemsOf \in [Orders -> Seq([product : Products, quantity : Nat \ {0}])]
    /\ TopSize \in Nat \ {0}
    /\ MaxSnapshots \in Nat

VARIABLES
    processed,      \* processed[i]: the offsets instance i marked processed
    productStats,   \* productStats[i][product]: the count, 0 for no entry
    totalOrders,    \* totalOrders[i]
    snapshots       \* the log of analytics.snapshots.v1, in its one partition

memory == <<processed, productStats, totalOrders>>
vars == <<log, faults, group, inFlight, memory, snapshots>>

Subscription == {"orders.v1"} \X Partitions

NoStats == [product \in Products |-> 0]

Init ==
    /\ TopicsInit({"orders.v1"})
    /\ GroupInit(Subscription)
    /\ processed = [i \in Instances |-> {}]
    /\ productStats = [i \in Instances |-> NoStats]
    /\ totalOrders = [i \in Instances |-> 0]
    /\ snapshots = <<>>

CustomerPlaces(o) ==
    /\ PlaceOrder(o)
    /\ UNCHANGED <<faults, group, inFlight, memory, snapshots>>

(* A variant with a bug: the cache is never asked.                             *)
NeverDuplicate(i, tp, offset) == FALSE

(* A variant with a bug: the key of an event leaves its partition out.         *)
OffsetOnlyDuplicate(i, tp, offset) ==
    \E entry \in processed[i] : entry[2] = offset

IsDuplicate(i, tp, offset) == <<tp, offset>> \in processed[i]

SkipDuplicate(i, tp) ==
    /\ Deliverable(i, tp)
    /\ IsDuplicate(i, tp, group.position[tp])
    /\ FinishAtOnce(tp)
    /\ UNCHANGED <<log, faults, memory, snapshots>>

(* A variant with a bug: an item replaces the product's count.                 *)
ReplacedCount(stats, item) == [stats EXCEPT ![item.product] = item.quantity]

Counted(stats, item) == [stats EXCEPT ![item.product] = @ + item.quantity]

updateProductStats(stats, items) == FoldLeft(Counted, stats, items)

(* handleOrderPlaced awaits nothing: counting and marking are one step *)
CountOrder(i, tp) ==
    /\ Deliverable(i, tp)
    /\ ~IsDuplicate(i, tp, group.position[tp])
    /\ productStats' = [productStats EXCEPT
            ![i] = updateProductStats(@, ItemsOf[NextEvent(tp).order])]
    /\ totalOrders' = [totalOrders EXCEPT ![i] = @ + 1]
    /\ processed' = [processed EXCEPT ![i] = @ \cup {<<tp, group.position[tp]>>}]
    /\ FinishAtOnce(tp)
    /\ UNCHANGED <<log, faults, snapshots>>

Ordered(stats) == {p \in Products : stats[p] > 0}

(* the products ordered most, ties in any order *)
TopProducts(stats) ==
    LET IsTop(ranked) ==
            /\ Cardinality(ranked) = Min({TopSize, Cardinality(Ordered(stats))})
            /\ \A p \in ranked, q \in Ordered(stats) \ ranked : stats[p] >= stats[q]
    IN  {[p \in ranked |-> stats[p]] : ranked \in {s \in SUBSET Ordered(stats) : IsTop(s)}}

(* generateSnapshot: a failed send is logged and forgotten *)
PublishSnapshot(i) ==
    /\ Len(snapshots) < MaxSnapshots
    /\ \E top \in TopProducts(productStats[i]) : snapshots' = Append(snapshots, top)
    /\ UNCHANGED <<log, faults, group, inFlight, memory>>

SnapshotFails ==
    /\ Fault("send")
    /\ UNCHANGED <<log, group, inFlight, memory, snapshots>>

Commit(i) == AutoCommit(i) /\ UNCHANGED <<memory, snapshots>>

GroupRebalances == Rebalance /\ UNCHANGED <<memory, snapshots>>

Crash(i) ==
    /\ CrashAndRejoin(i)
    /\ processed' = [processed EXCEPT ![i] = {}]
    /\ productStats' = [productStats EXCEPT ![i] = NoStats]
    /\ totalOrders' = [totalOrders EXCEPT ![i] = 0]
    /\ UNCHANGED snapshots

ReplayOrders ==
    /\ Replay
    /\ processed' = [i \in Instances |-> {}]
    /\ productStats' = [i \in Instances |-> NoStats]
    /\ totalOrders' = [i \in Instances |-> 0]
    /\ UNCHANGED snapshots

Handle(i) == \E tp \in Subscription : SkipDuplicate(i, tp) \/ CountOrder(i, tp)

Next ==
    \/ \E o \in Orders : CustomerPlaces(o)
    \/ \E i \in Instances : Handle(i) \/ PublishSnapshot(i) \/ Commit(i) \/ Crash(i)
    \/ SnapshotFails
    \/ GroupRebalances
    \/ ReplayOrders

Spec == Init /\ [][Next]_vars

(* kafkajs keeps polling every partition *)
FairSpec ==
    /\ Spec
    /\ \A i \in Instances : \A tp \in Subscription :
          WF_vars(SkipDuplicate(i, tp) \/ CountOrder(i, tp))

-----------------------------------------------------------------------------
(* Properties *)

TypeOK ==
    /\ TopicsType({"orders.v1"})
    /\ GroupType(Subscription)
    /\ GroupBounds
    /\ processed \in [Instances -> SUBSET (Subscription \X Nat)]
    /\ productStats \in [Instances -> [Products -> Nat]]
    /\ totalOrders \in [Instances -> Nat]
    /\ snapshots \in Seq(Range(snapshots))
    /\ \A n \in DOMAIN snapshots :
          /\ DOMAIN snapshots[n] \subseteq Products
          /\ snapshots[n] \in [DOMAIN snapshots[n] -> Nat]
          /\ Cardinality(DOMAIN snapshots[n]) <= TopSize

Quantity(items, product) ==
    FoldLeft(LAMBDA sum, item : IF item.product = product THEN sum + item.quantity ELSE sum,
             0, items)

Demand(product) ==
    FoldFunction(+, 0, [o \in Orders |->
        IF Placed(o) THEN Quantity(ItemsOf[o], product) ELSE 0])

(* No published ranking ever shows more than customers ordered, whatever is    *)
(* redelivered to its instance (handleOrderPlaced's duplicate check and the    *)
(* counters it guards).                                                        *)
NeverOvercounted ==
    \A n \in DOMAIN snapshots : \A product \in DOMAIN snapshots[n] :
        snapshots[n][product] <= Demand(product)

(* What makes it true from step to step: an order is on its topic once, in the *)
(* partition of its key; the cache holds offsets of the log; an instance's     *)
(* counters hold exactly the orders its cache holds; and as long as no process *)
(* lost its memory, what was delivered or committed is in some instance's      *)
(* cache (handleOrderPlaced against kafkajs' positions).                       *)
OrdersInPlace ==
    \A tp \in Subscription : \A n \in DOMAIN log[tp] :
        /\ tp[2] = PartitionOf[log[tp][n].order]
        /\ log[tp][n].kind = "OrderPlaced"
        /\ \A k \in DOMAIN log[tp] : log[tp][k].order = log[tp][n].order => k = n

ProcessedInLog ==
    \A i \in Instances : \A entry \in processed[i] : entry[2] < Len(log[entry[1]])

CountedBy(i, o) ==
    \E n \in EventsOf("orders.v1", o, "OrderPlaced") :
        <<<<"orders.v1", PartitionOf[o]>>, n - 1>> \in processed[i]

CountsKept ==
    \A i \in Instances, product \in Products :
        productStats[i][product] =
            FoldFunction(+, 0, [o \in Orders |->
                IF CountedBy(i, o) THEN Quantity(ItemsOf[o], product) ELSE 0])

DeliveredWasCounted ==
    faults["crash"] = 0 /\ InitialCommitted = 0 =>
        \A tp \in Subscription :
            /\ group.committed[tp] # NoOffset
            /\ \A n \in DOMAIN log[tp] :
                  n <= group.position[tp] \/ n <= group.committed[tp] =>
                      \E i \in Instances : <<tp, n - 1>> \in processed[i]

(* With the types, the group's bounds and the length of a ranking              *)
(* (generateSnapshot's slice).                                                 *)
AnalyticsInvariant ==
    /\ TypeOK
    /\ NeverOvercounted
    /\ OrdersInPlace
    /\ ProcessedInLog
    /\ CountsKept
    /\ DeliveredWasCounted

(* A committed order is in the totals, as long as no process lost its memory:  *)
(* a group that is rebalanced may count an order twice, never not at all.      *)
CommittedWasCounted ==
    faults["crash"] = 0 =>
        \A product \in Products :
            FoldFunction(+, 0, [i \in Instances |-> productStats[i][product]]) >=
            FoldFunction(+, 0, [o \in Orders |->
                IF \E tp \in Subscription : \E n \in EventsOf("orders.v1", o, "OrderPlaced") :
                      tp[2] = PartitionOf[o] /\ n <= group.committed[tp]
                THEN Quantity(ItemsOf[o], product) ELSE 0])

(* Every order placed is counted by some instance in the end - also after the  *)
(* group is rebalanced or restarted from the first order - unless an instance  *)
(* crashes and its memory is lost (handleOrderPlaced under kafkajs' polling).  *)
(* The group committed before: without, a rebalance skips what is not handled. *)
EveryOrderCounted ==
    \A o \in Orders :
        Placed(o) ~> (\E i \in Instances : CountedBy(i, o)) \/ faults["crash"] > 0
=============================================================================
