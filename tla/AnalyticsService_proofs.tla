----------------------- MODULE AnalyticsService_proofs -----------------------
(* Theorems about AnalyticsService, for every finite set of orders and of      *)
(* products, every basket, partition and instance and every bound on the       *)
(* faults: what an order adds to the statistics first, then the invariant of   *)
(* one instance, then the sum over the instances.                              *)
EXTENDS AnalyticsService, ConsumerGroup_proofs

-----------------------------------------------------------------------------
(* What an order adds to the statistics                                        *)

Goods == [product : Products, quantity : Nat \ {0}]

Stats == [Products -> Nat]

LEMMA QuantityFolds ==
    ASSUME NEW items \in Seq(Goods), NEW product
    PROVE  \E w : WantsUp(items, product, w) /\ Quantity(items, product) = w[DOMAIN items]
  <1>1. \A item \in Goods : item.quantity \in Nat
    BY DEF Goods
  <1>2. Quantity(items, product) = WantedOf(items, product)
    BY Zenon DEF Quantity, WantedOf
  <1>3. \E w : WantsUp(items, product, w) /\ WantedOf(items, product) = w[DOMAIN items]
    BY <1>1, WantedFolds
  <1> QED BY <1>2, <1>3, Zenon

LEMMA QuantityIsNat ==
    ASSUME NEW items \in Seq(Goods), NEW product
    PROVE  Quantity(items, product) \in Nat
  <1>1. PICK w : WantsUp(items, product, w) /\ Quantity(items, product) = w[DOMAIN items]
    BY QuantityFolds
  <1> QED BY <1>1 DEF WantsUp

(* One item: its product's count grows by its quantity.                        *)
LEMMA ItemCounted ==
    ASSUME NEW stats \in Stats, NEW item \in Goods
    PROVE  /\ Counted(stats, item) \in Stats
           /\ \A product \in Products :
                Counted(stats, item)[product] = stats[product] + Portion(item, product)
  <1>1. item.product \in Products /\ item.quantity \in Nat
    BY DEF Goods
  <1>2. \A product \in Products : stats[product] \in Nat
    BY DEF Stats
  <1>3. Counted(stats, item) = [stats EXCEPT ![item.product] = stats[item.product] + item.quantity]
    BY DEF Counted
  <1> QED BY <1>1, <1>2, <1>3 DEF Stats, Portion

(* The statistics after each set of items, the last place of a set last.       *)
CountsUp(stats, items, r) ==
    /\ r \in [SUBSET DOMAIN items -> Stats]
    /\ r[{}] = stats
    /\ \A U \in SUBSET DOMAIN items : U # {} =>
          r[U] = Counted(r[U \ {Max(U)}], items[Max(U)])

LEMMA StatsFold ==
    ASSUME NEW stats \in Stats, NEW items \in Seq(Goods)
    PROVE  \E r : CountsUp(stats, items, r) /\ updateProductStats(stats, items) = r[DOMAIN items]
  <1> DEFINE S == DOMAIN items
             Step(g) == [U \in SUBSET S |->
                            IF U = {} THEN stats ELSE Counted(g[U \ {Max(U)}], items[Max(U)])]
             s == CHOOSE g : g = Step(g)
             count == [p \in S \X Stats |-> Counted(p[2], items[p[1]])]
  <1>0. /\ S \in SUBSET Nat /\ IsFiniteSet(S) /\ \A n \in S : items[n] \in Goods
        /\ Chooses(LastOf(S), S)
    BY PlacesOf, LastChooses
  <1>1. \A before \in Stats, n \in S : Counted(before, items[n]) \in Stats
    BY <1>0, ItemCounted
  <1>2. updateProductStats(stats, items) = s[S]
    BY Zenon DEF updateProductStats, FoldLeft, MapThenFoldSet
  <1>3. \E g : g = Step(g)
    <2>1. count \in [S \X Stats -> Stats]
      <3>1. ASSUME NEW p \in S \X Stats
            PROVE  Counted(p[2], items[p[1]]) \in Stats
        BY <1>1
      <3> QED BY <3>1
    <2> HIDE DEF count
    <2>2. PICK h \in [SUBSET S -> Stats] :
             \A U \in SUBSET S : Folded(S, LastOf(S), stats, count, h, U)
      BY <1>0, <2>1, FoldExists
    <2>3. ASSUME NEW U \in SUBSET S, U # {}
          PROVE  h[U] = Counted(h[U \ {Max(U)}], items[Max(U)])
      <3>1. h[U] = count[<<LastOf(S)[U], h[U \ {LastOf(S)[U]}]>>]
        BY <2>2, <2>3 DEF Folded
      <3>2. LastOf(S)[U] = Max(U)
        BY DEF LastOf
      <3>3. LastOf(S)[U] \in S /\ h[U \ {LastOf(S)[U]}] \in Stats
        BY <1>0, <2>2, <2>3 DEF Chooses
      <3>4. count[<<LastOf(S)[U], h[U \ {LastOf(S)[U]}]>>]
               = Counted(h[U \ {LastOf(S)[U]}], items[LastOf(S)[U]])
        BY <3>3 DEF count
      <3> QED BY <3>1, <3>2, <3>4
    <2>4. h[{}] = stats
      BY <2>2 DEF Folded
    <2>5. h = Step(h)
      BY <2>3, <2>4
    <2> QED BY <2>5
  <1>4. s = Step(s)
    BY <1>3
  <1> HIDE DEF s
  <1>5. s[{}] = stats
    BY <1>4
  <1>6. ASSUME NEW U \in SUBSET S, U # {}
        PROVE  /\ s[U] = Counted(s[U \ {Max(U)}], items[Max(U)])
               /\ Max(U) \in S /\ LastOf(S)[U] = Max(U)
    <2>1. s[U] = Counted(s[U \ {Max(U)}], items[Max(U)])
      BY <1>4, <1>6
    <2>2. LastOf(S)[U] = Max(U)
      BY DEF LastOf
    <2> QED BY <1>0, <1>6, <2>1, <2>2 DEF Chooses
  <1>7. \A U \in SUBSET S : s[U] \in Stats
    <2> DEFINE P == {W \in SUBSET S : s[W] \in Stats}
    <2>1. {} \in P
      BY <1>5
    <2>2. ASSUME NEW U \in SUBSET S, U # {}, U \ {LastOf(S)[U]} \in P
          PROVE  U \in P
      <3>1. s[U \ {Max(U)}] \in Stats
        BY <1>6, <2>2
      <3>2. s[U] \in Stats
        BY <1>1, <1>6, <2>2, <3>1
      <3> QED BY <3>2
    <2> HIDE DEF P
    <2>3. \A U \in SUBSET S : U \in P
      BY <1>0, <2>1, <2>2, SubsetsReached
    <2> QED BY <2>3 DEF P
  <1>8. s \in [SUBSET S -> Stats]
    <2>1. s = [U \in SUBSET S |-> s[U]]
      BY <1>4, Zenon
    <2> QED BY <1>7, <2>1
  <1> HIDE DEF Step
  <1>9. CountsUp(stats, items, s)
    BY <1>5, <1>6, <1>8 DEF CountsUp
  <1> QED BY <1>2, <1>9

(* updateProductStats adds to every product what the order wants of it, in     *)
(* however many items.                                                         *)
LEMMA OrderCounted ==
    ASSUME NEW stats \in Stats, NEW items \in Seq(Goods)
    PROVE  /\ updateProductStats(stats, items) \in Stats
           /\ \A product \in Products :
                updateProductStats(stats, items)[product]
                  = stats[product] + Quantity(items, product)
  <1> DEFINE S == DOMAIN items
  <1>1. PICK r : CountsUp(stats, items, r) /\ updateProductStats(stats, items) = r[S]
    BY StatsFold
  <1>2. /\ S \in SUBSET Nat /\ IsFiniteSet(S) /\ \A n \in S : items[n] \in Goods
        /\ Chooses(LastOf(S), S)
    BY PlacesOf, LastChooses
  <1>3. ASSUME NEW product \in Products
        PROVE  r[S][product] = stats[product] + Quantity(items, product)
    <2>1. PICK w : WantsUp(items, product, w) /\ Quantity(items, product) = w[S]
      BY QuantityFolds
    <2>2. stats[product] \in Nat
      BY DEF Stats
    <2> DEFINE P == {U \in SUBSET S : r[U][product] = stats[product] + w[U]}
    <2>3. {} \in P
      BY <1>1, <2>1, <2>2 DEF CountsUp, WantsUp
    <2>4. ASSUME NEW U \in SUBSET S, U # {}, U \ {LastOf(S)[U]} \in P
          PROVE  U \in P
      <3>1. LastOf(S)[U] = Max(U) /\ Max(U) \in S /\ U \ {Max(U)} \in SUBSET S
        BY <1>2, <2>4 DEF LastOf, Chooses
      <3>2. PICK before \in Stats : before = r[U \ {Max(U)}]
        BY <1>1, <3>1 DEF CountsUp
      <3>3. PICK item \in Goods : item = items[Max(U)]
        BY <1>2, <3>1
      <3>4. r[U] = Counted(before, item)
        BY <1>1, <2>4, <3>2, <3>3 DEF CountsUp
      <3>5. r[U][product] = before[product] + Portion(item, product)
        BY <3>4, ItemCounted
      <3>6. w[U] = w[U \ {Max(U)}] + Portion(item, product) /\ w[U \ {Max(U)}] \in Nat
        BY <2>1, <2>4, <3>1, <3>3 DEF WantsUp
      <3>7. Portion(item, product) \in Nat
        BY DEF Portion, Goods
      <3>8. before[product] = stats[product] + w[U \ {Max(U)}]
        BY <2>4, <3>1, <3>2
      <3>9. r[U][product] = stats[product] + w[U]
        BY <2>2, <3>5, <3>6, <3>7, <3>8
      <3> QED BY <3>9
    <2> HIDE DEF P
    <2>5. \A U \in SUBSET S : U \in P
      BY <1>2, <2>3, <2>4, SubsetsReached
    <2>6. S \in P
      BY <2>5
    <2> QED BY <2>1, <2>6 DEF P
  <1>4. r[S] \in Stats
    BY <1>1 DEF CountsUp
  <1> QED BY <1>1, <1>3, <1>4

-----------------------------------------------------------------------------
(* The invariant                                                               *)

USE TopicsAssumption, GroupAssumption

MemoryType ==
    /\ processed \in [Instances -> SUBSET (Subscription \X Nat)]
    /\ productStats \in [Instances -> Stats]
    /\ totalOrders \in [Instances -> Nat]

RankingsType ==
    /\ snapshots \in Seq(Range(snapshots))
    /\ \A n \in DOMAIN snapshots :
          /\ DOMAIN snapshots[n] \subseteq Products
          /\ snapshots[n] \in [DOMAIN snapshots[n] -> Nat]
          /\ Cardinality(DOMAIN snapshots[n]) <= TopSize

LEMMA InvariantFacts ==
    ASSUME AnalyticsInvariant
    PROVE  /\ GroupOK(Subscription) /\ LogOK
           /\ DOMAIN log = {"orders.v1"} \X Partitions
           /\ faults \in [FaultKinds -> Nat]
           /\ MemoryType /\ RankingsType
           /\ NeverOvercounted /\ OrdersInPlace /\ ProcessedInLog
           /\ CountsKept /\ DeliveredWasCounted
  <1>1. log \in [{"orders.v1"} \X Partitions -> Seq(Event)] /\ faults \in [FaultKinds -> Nat]
    BY DEF AnalyticsInvariant, TypeOK, TopicsType
  <1>2. LogOK /\ DOMAIN log = {"orders.v1"} \X Partitions
    BY <1>1 DEF LogOK
  <1>3. GroupOK(Subscription)
    BY <1>2 DEF AnalyticsInvariant, TypeOK, GroupOK, Subscription
  <1>4. MemoryType /\ RankingsType
    BY DEF AnalyticsInvariant, TypeOK, MemoryType, RankingsType, Stats
  <1> QED BY <1>1, <1>2, <1>3, <1>4 DEF AnalyticsInvariant

LEMMA InvariantFrom ==
    ASSUME AnalyticsInvariant, LogGrows, GroupOK(Subscription)', faults' \in [FaultKinds -> Nat],
           MemoryType', RankingsType', NeverOvercounted', OrdersInPlace', ProcessedInLog',
           CountsKept', DeliveredWasCounted'
    PROVE  AnalyticsInvariant'
  <1>1. log' \in [{"orders.v1"} \X Partitions -> Seq(Event)]
    BY InvariantFacts DEF LogGrows
  <1>2. TypeOK'
    BY <1>1 DEF TypeOK, TopicsType, GroupOK, MemoryType, RankingsType, Stats
  <1> QED BY <1>2 DEF AnalyticsInvariant

LEMMA OrderKeyed ==
    ASSUME AnalyticsInvariant, NEW o \in Orders
    PROVE  /\ Keyed("orders.v1", o) \in DOMAIN log /\ Keyed("orders.v1", o) \in Subscription
           /\ ItemsOf[o] \in Seq(Goods)
  BY InvariantFacts, AnalyticsAssumption DEF Keyed, Subscription, Goods

(* The order an offset stands for does not change.                             *)
LEMMA OrderAt ==
    ASSUME AnalyticsInvariant, LogGrows, NEW tp \in Subscription, NEW n \in DOMAIN log[tp]
    PROVE  /\ log[tp][n].order \in Orders /\ n \in Nat /\ n <= Len(log[tp])
           /\ n \in DOMAIN log'[tp] /\ log'[tp][n] = log[tp][n]
  <1>1. tp \in DOMAIN log /\ LogOK
    BY InvariantFacts, GroupFacts
  <1> QED BY <1>1, EventAt DEF Event

LEMMA EntryAt ==
    ASSUME AnalyticsInvariant, LogGrows, NEW i \in Instances, NEW entry \in processed[i]
    PROVE  /\ entry[1] \in Subscription /\ entry[2] \in Nat /\ entry = <<entry[1], entry[2]>>
           /\ entry[2] + 1 \in DOMAIN log[entry[1]]
           /\ entry[2] < Len(log'[entry[1]])
  <1>1. entry[1] \in Subscription /\ entry[2] \in Nat /\ entry = <<entry[1], entry[2]>>
    BY InvariantFacts DEF MemoryType
  <1>2. entry[2] < Len(log[entry[1]])
    BY InvariantFacts DEF ProcessedInLog
  <1>3. entry[1] \in DOMAIN log /\ LogOK
    BY <1>1, InvariantFacts, GroupFacts
  <1>4. entry[2] + 1 \in DOMAIN log[entry[1]] /\ Len(log[entry[1]]) \in Nat
    BY <1>1, <1>2, <1>3, LogFacts
  <1>5. Len(log[entry[1]]) <= Len(log'[entry[1]]) /\ Len(log'[entry[1]]) \in Nat
    BY <1>3, GrownFacts DEF LogGrows
  <1> QED BY <1>1, <1>2, <1>4, <1>5

(* The orders an instance counted, by what each adds to a product's count.     *)
Counts(i, product) ==
    [o \in Orders |-> IF CountedBy(i, o) THEN Quantity(ItemsOf[o], product) ELSE 0]

Ordering(product) ==
    [o \in Orders |-> IF Placed(o) THEN Quantity(ItemsOf[o], product) ELSE 0]

LEMMA CountsAreNat ==
    ASSUME AnalyticsInvariant, NEW i, NEW product
    PROVE  Counts(i, product) \in [Orders -> Nat] /\ Ordering(product) \in [Orders -> Nat]
  <1>1. \A o \in Orders : Quantity(ItemsOf[o], product) \in Nat
    BY OrderKeyed, QuantityIsNat
  <1> QED BY <1>1 DEF Counts, Ordering

LEMMA StatsAreTotals ==
    ASSUME NEW i \in Instances, NEW product \in Products
    PROVE  /\ CountsKept => productStats[i][product] = Total(Counts(i, product))
           /\ Demand(product) = Total(Ordering(product))
  BY Zenon DEF CountsKept, Counts, Total, Demand, Ordering

LEMMA CountsKeptFrom ==
    ASSUME \A i \in Instances, product \in Products :
              productStats[i][product] = Total(Counts(i, product))
    PROVE  CountsKept
  BY Zenon DEF CountsKept, Counts, Total

(* An instance that keeps its cache has counted the same orders.               *)
LEMMA CountedStays ==
    ASSUME AnalyticsInvariant, LogGrows, NEW i \in Instances, processed'[i] = processed[i],
           NEW o \in Orders
    PROVE  CountedBy(i, o)' <=> CountedBy(i, o)
  <1> DEFINE tp == Keyed("orders.v1", o)
  <1>1. tp \in DOMAIN log /\ tp \in Subscription /\ LogOK
    BY OrderKeyed, InvariantFacts
  <1>2. /\ CountedBy(i, o) <=> \E n \in EventsOf("orders.v1", o, "OrderPlaced") :
                                  <<tp, n - 1>> \in processed[i]
        /\ CountedBy(i, o)' <=> \E n \in EventsOf("orders.v1", o, "OrderPlaced")' :
                                  <<tp, n - 1>> \in processed[i]
    BY DEF CountedBy, Keyed
  <1>3. EventsOf("orders.v1", o, "OrderPlaced") \subseteq EventsOf("orders.v1", o, "OrderPlaced")'
    BY <1>1, EventsStay
  <1>4. ASSUME NEW n \in EventsOf("orders.v1", o, "OrderPlaced")', <<tp, n - 1>> \in processed[i]
        PROVE  n \in EventsOf("orders.v1", o, "OrderPlaced")
    <2>1. n \in DOMAIN log'[tp] /\ log'[tp][n] = [order |-> o, kind |-> "OrderPlaced"]
      BY DEF EventsOf, Keyed
    <2>2. n \in Nat
      BY <1>1, <2>1, GrownFacts
    <2>3. n \in DOMAIN log[tp]
      <3>1. PICK entry \in processed[i] : entry = <<tp, n - 1>>
        BY <1>4
      <3>2. entry[1] = tp /\ entry[2] = n - 1
        BY <3>1
      <3>h. HIDE DEF tp
      <3>3. (n - 1) + 1 \in DOMAIN log[tp]
        BY <3>2, EntryAt
      <3> QED BY <2>2, <3>3
    <2>4. log[tp][n] = [order |-> o, kind |-> "OrderPlaced"]
      BY <1>1, <2>1, <2>3, OrderAt
    <2> QED BY <2>3, <2>4 DEF EventsOf, Keyed
  <1> QED BY <1>2, <1>3, <1>4

LEMMA SumOfNothing ==
    ASSUME IsFiniteSet(Orders), NEW f \in [Orders -> Nat], \A o \in Orders : f[o] = 0
    PROVE  Total(f) = 0
  <1>1. Total(f) <= Cardinality(Orders) * 0
    BY SumBounded
  <1>2. Total(f) \in Nat /\ Cardinality(Orders) \in Nat
    BY SumIsNat, FS_CardinalityType
  <1> QED BY <1>1, <1>2

(* A process either keeps its cache and counters or loses them all.            *)
KeepsMemory(i) ==
    processed'[i] = processed[i] /\ productStats'[i] = productStats[i]

LosesMemory(i) == processed'[i] = {} /\ productStats'[i] = NoStats

LEMMA MemoryKept ==
    ASSUME IsFiniteSet(Orders), AnalyticsInvariant, LogGrows,
           \A i \in Instances : KeepsMemory(i) \/ LosesMemory(i)
    PROVE  ProcessedInLog' /\ CountsKept'
  <1>1. ProcessedInLog'
    BY EntryAt DEF ProcessedInLog, KeepsMemory, LosesMemory
  <1>2. ASSUME NEW i \in Instances, NEW product \in Products
        PROVE  productStats'[i][product] = Total(Counts(i, product)')
    <2>1. CASE KeepsMemory(i)
      <3>1. Counts(i, product)' = Counts(i, product)
        <4>1. \A o \in Orders : CountedBy(i, o)' <=> CountedBy(i, o)
          BY <2>1, CountedStays DEF KeepsMemory
        <4> QED BY <4>1 DEF Counts
      <3>2. productStats[i][product] = Total(Counts(i, product))
        BY StatsAreTotals, InvariantFacts
      <3> QED BY <2>1, <3>1, <3>2 DEF KeepsMemory
    <2>2. CASE LosesMemory(i)
      <3>1. \A o \in Orders : ~CountedBy(i, o)'
        BY <2>2 DEF CountedBy, LosesMemory
      <3>2. /\ Counts(i, product)' \in [Orders -> Nat]
            /\ \A o \in Orders : Counts(i, product)'[o] = 0
        BY <3>1 DEF Counts
      <3>3. Total(Counts(i, product)') = 0
        BY <3>2, SumOfNothing
      <3>4. productStats'[i][product] = 0
        BY <2>2 DEF LosesMemory, NoStats
      <3> QED BY <3>3, <3>4
    <2> QED BY <2>1, <2>2
  <1>3. CountsKept'
    BY <1>2, Zenon DEF CountsKept, Counts, Total, FoldFunction, FoldFunctionOnSet, MapThenFoldSet
  <1> QED BY <1>1, <1>3

LEMMA OrdersKept ==
    ASSUME AnalyticsInvariant, \A tp \in Subscription : log'[tp] = log[tp]
    PROVE  OrdersInPlace'
  BY InvariantFacts DEF OrdersInPlace

(* What customers ordered is never less than it was, so a ranking that was     *)
(* right stays right.                                                          *)
LEMMA DemandGrows ==
    ASSUME IsFiniteSet(Orders), AnalyticsInvariant, LogGrows, NEW product \in Products
    PROVE  Demand(product) \in Nat /\ Demand(product)' \in Nat /\ Demand(product) <= Demand(product)'
  <1>1. \A o \in Orders : Placed(o) => Placed(o)'
    BY OrderKeyed, EventsStay, InvariantFacts DEF Placed
  <1>2. \A o \in Orders : Quantity(ItemsOf[o], product) \in Nat
    BY OrderKeyed, QuantityIsNat
  <1>3. /\ Ordering(product) \in [Orders -> Nat] /\ Ordering(product)' \in [Orders -> Nat]
        /\ \A o \in Orders : Ordering(product)[o] <= Ordering(product)'[o]
    BY <1>1, <1>2 DEF Ordering
  <1>4. /\ Total(Ordering(product)) \in Nat /\ Total(Ordering(product)') \in Nat
        /\ Total(Ordering(product)) <= Total(Ordering(product)')
    BY <1>3, SumIsNat, SumGrows
  <1>5. Demand(product) = Total(Ordering(product)) /\ Demand(product)' = Total(Ordering(product)')
    BY Zenon DEF Demand, Total, Ordering, FoldFunction, FoldFunctionOnSet, MapThenFoldSet
  <1> QED BY <1>4, <1>5

LEMMA RankingsKept ==
    ASSUME IsFiniteSet(Orders), AnalyticsInvariant, LogGrows, snapshots' = snapshots
    PROVE  RankingsType' /\ NeverOvercounted'
  <1>1. RankingsType'
    BY InvariantFacts DEF RankingsType
  <1>2. ASSUME NEW n \in DOMAIN snapshots, NEW product \in DOMAIN snapshots[n]
        PROVE  snapshots[n][product] <= Demand(product)'
    <2>1. /\ product \in Products /\ snapshots[n][product] \in Nat
          /\ snapshots[n][product] <= Demand(product)
      BY InvariantFacts DEF RankingsType, NeverOvercounted
    <2> QED BY <2>1, DemandGrows
  <1> QED BY <1>1, <1>2 DEF NeverOvercounted

(* What was delivered or committed before the step was counted before it; what *)
(* it delivers or commits beyond that must be counted after it.                *)
LEMMA DeliveredFrom ==
    ASSUME AnalyticsInvariant, LogGrows, faults'["crash"] = 0 => faults["crash"] = 0,
           faults'["crash"] = 0 /\ InitialCommitted = 0 =>
             \A tp \in Subscription :
               /\ group.committed[tp] # NoOffset => group'.committed[tp] # NoOffset
               /\ \A n \in DOMAIN log'[tp] :
                     n <= group'.position[tp] \/ n <= group'.committed[tp] =>
                       \/ \E i \in Instances : <<tp, n - 1>> \in processed'[i]
                       \/ /\ n \in DOMAIN log[tp]
                          /\ n <= group.position[tp] \/ n <= group.committed[tp]
                          /\ \A i \in Instances : processed[i] \subseteq processed'[i]
    PROVE  DeliveredWasCounted'
  <1> SUFFICES ASSUME faults'["crash"] = 0, InitialCommitted = 0, NEW tp \in Subscription
               PROVE  /\ group'.committed[tp] # NoOffset
                      /\ \A n \in DOMAIN log'[tp] :
                           n <= group'.position[tp] \/ n <= group'.committed[tp] =>
                             \E i \in Instances : <<tp, n - 1>> \in processed'[i]
    BY DEF DeliveredWasCounted
  <1>1. group'.committed[tp] # NoOffset
    BY InvariantFacts DEF DeliveredWasCounted
  <1>2. ASSUME NEW n \in DOMAIN log'[tp],
               n <= group'.position[tp] \/ n <= group'.committed[tp]
        PROVE  \E i \in Instances : <<tp, n - 1>> \in processed'[i]
    <2>1. ASSUME n \in DOMAIN log[tp], n <= group.position[tp] \/ n <= group.committed[tp],
                 \A i \in Instances : processed[i] \subseteq processed'[i]
          PROVE  \E i \in Instances : <<tp, n - 1>> \in processed'[i]
      <3>1. PICK i \in Instances : <<tp, n - 1>> \in processed[i]
        BY <2>1, InvariantFacts DEF DeliveredWasCounted
      <3> QED BY <2>1, <3>1
    <2> QED BY <1>2, <2>1
  <1> QED BY <1>1, <1>2

(* Every order is placed on an event of its own at the end of its partition.   *)
LEMMA PlacementKeepsInvariant ==
    ASSUME IsFiniteSet(Orders), AnalyticsInvariant, NEW o \in Orders, CustomerPlaces(o)
    PROVE  AnalyticsInvariant'
  <1> DEFINE tp0 == Keyed("orders.v1", o)
             last == Len(log[tp0]) + 1
  <1>1. /\ Send("orders.v1", o, "OrderPlaced") /\ ~Placed(o)
        /\ UNCHANGED <<faults, group, inFlight, memory, snapshots>>
    BY DEF CustomerPlaces, PlaceOrder
  <1>2. "OrderPlaced" \in EventKinds
    BY DEF EventKinds
  <1>3. tp0 \in DOMAIN log /\ tp0 \in Subscription
    BY OrderKeyed
  <1>4. /\ LogGrows
        /\ \A tp \in DOMAIN log \ {tp0} : log'[tp] = log[tp]
        /\ DOMAIN log'[tp0] = DOMAIN log[tp0] \cup {last}
        /\ log'[tp0][last] = [order |-> o, kind |-> "OrderPlaced"]
    BY <1>1, <1>2, <1>3, SendAppends, InvariantFacts
  <1>5. DOMAIN log[tp0] = 1..Len(log[tp0]) /\ Len(log[tp0]) \in Nat
    BY <1>3, LogFacts, InvariantFacts
  <1>6. tp0[2] = PartitionOf[o]
    BY DEF Keyed
  <1>7. \A n \in DOMAIN log[tp0] : log[tp0][n].order # o
    <2>1. SUFFICES ASSUME NEW n \in DOMAIN log[tp0], log[tp0][n].order = o
                   PROVE  FALSE
      OBVIOUS
    <2>2. log[tp0][n] \in Event /\ log[tp0][n].kind = "OrderPlaced"
      BY <1>3, <1>5, LogFacts, InvariantFacts DEF OrdersInPlace
    <2>3. log[tp0][n] = [order |-> o, kind |-> "OrderPlaced"]
      BY <2>1, <2>2 DEF Event
    <2> QED BY <1>1, <2>3 DEF Placed, Logged, EventsOf, Keyed
  <1>h. HIDE DEF tp0, last
  <1>8. GroupOK(Subscription)'
    BY <1>1, <1>4, GroupKept, InvariantFacts
  <1>9. ProcessedInLog' /\ CountsKept' /\ MemoryType' /\ RankingsType' /\ NeverOvercounted'
    <2>1. UNCHANGED <<processed, productStats, totalOrders, snapshots>>
      BY <1>1 DEF memory
    <2>2. \A i \in Instances : KeepsMemory(i)
      BY <2>1 DEF KeepsMemory
    <2>3. MemoryType'
      BY <2>1, InvariantFacts DEF MemoryType
    <2> QED BY <1>4, <2>1, <2>2, <2>3, MemoryKept, RankingsKept
  <1>10. \A tp \in Subscription : \A n \in DOMAIN log[tp] :
           n \in DOMAIN log'[tp] /\ log'[tp][n] = log[tp][n]
    BY <1>4, OrderAt
  <1>11. OrdersInPlace'
    <2>1. ASSUME NEW tp \in Subscription, tp # tp0
          PROVE  log'[tp] = log[tp]
      BY <1>4, <2>1, InvariantFacts, GroupFacts
    <2>2. ASSUME NEW n \in DOMAIN log'[tp0]
          PROVE  /\ tp0[2] = PartitionOf[log'[tp0][n].order]
                 /\ log'[tp0][n].kind = "OrderPlaced"
                 /\ \A k \in DOMAIN log'[tp0] : log'[tp0][k].order = log'[tp0][n].order => k = n
      <3>1. \A k \in DOMAIN log[tp0] : log'[tp0][k] = log[tp0][k]
        BY <1>3, <1>10
      <3>2. CASE n = last
        BY <3>1, <3>2, <1>4, <1>6, <1>7
      <3>3. CASE n \in DOMAIN log[tp0]
        BY <3>1, <3>3, <1>3, <1>4, <1>7, InvariantFacts DEF OrdersInPlace
      <3> QED BY <3>2, <3>3, <1>4
    <2>3. ASSUME NEW tp \in Subscription, NEW n \in DOMAIN log'[tp]
          PROVE  /\ tp[2] = PartitionOf[log'[tp][n].order]
                 /\ log'[tp][n].kind = "OrderPlaced"
                 /\ \A k \in DOMAIN log'[tp] : log'[tp][k].order = log'[tp][n].order => k = n
      <3>1. CASE tp = tp0
        BY <2>2, <3>1
      <3>2. CASE tp # tp0
        BY <2>1, <3>2, InvariantFacts DEF OrdersInPlace
      <3> QED BY <3>1, <3>2
    <2> QED BY <2>3 DEF OrdersInPlace
  <1>12. DeliveredWasCounted'
    <2>1. ASSUME NEW tp \in Subscription, NEW n \in DOMAIN log'[tp],
                 n <= group.position[tp] \/ n <= group.committed[tp]
          PROVE  n \in DOMAIN log[tp]
      <3>1. /\ group.position[tp] \in Nat /\ group.position[tp] <= Len(log[tp])
            /\ group.committed[tp] \in Int /\ group.committed[tp] <= Len(log[tp])
            /\ tp \in DOMAIN log
        BY InvariantFacts, GroupFacts
      <3>2. /\ DOMAIN log[tp] = 1..Len(log[tp]) /\ Len(log[tp]) \in Nat
            /\ DOMAIN log'[tp] = 1..Len(log'[tp]) /\ Len(log'[tp]) \in Nat
        BY <3>1, <1>4, LogFacts, GrownFacts, InvariantFacts
      <3> QED BY <2>1, <3>1, <3>2
    <2>2. processed' = processed
      BY <1>1 DEF memory
    <2> QED BY <1>1, <1>4, <2>1, <2>2, DeliveredFrom
  <1> QED BY <1>1, <1>4, <1>8, <1>9, <1>11, <1>12, InvariantFrom, InvariantFacts

(* A step that leaves the topic and the rankings alone.                        *)
LEMMA QuietStep ==
    ASSUME IsFiniteSet(Orders), AnalyticsInvariant, UNCHANGED <<log, snapshots>>,
           \A i \in Instances : KeepsMemory(i) \/ LosesMemory(i)
    PROVE  /\ LogGrows /\ OrdersInPlace' /\ ProcessedInLog' /\ CountsKept'
           /\ RankingsType' /\ NeverOvercounted'
  <1>1. LogGrows
    BY SameLogGrows, InvariantFacts
  <1> QED BY <1>1, OrdersKept, MemoryKept, RankingsKept

LEMMA MemoryUnchanged ==
    ASSUME AnalyticsInvariant, UNCHANGED memory
    PROVE  /\ MemoryType' /\ UNCHANGED <<processed, productStats, totalOrders>>
           /\ \A i \in Instances : KeepsMemory(i) \/ LosesMemory(i)
  BY InvariantFacts DEF memory, MemoryType, KeepsMemory

(* The event delivered next, and what delivering it leaves behind.             *)
LEMMA Delivery ==
    ASSUME AnalyticsInvariant, NEW i \in Instances, NEW tp \in Subscription,
           Deliverable(i, tp), FinishAtOnce(tp), UNCHANGED log
    PROVE  /\ group.position[tp] + 1 \in DOMAIN log[tp]
           /\ NextEvent(tp) = log[tp][group.position[tp] + 1]
           /\ NextEvent(tp) = [order |-> NextEvent(tp).order, kind |-> "OrderPlaced"]
           /\ NextEvent(tp).order \in Orders /\ tp = Keyed("orders.v1", NextEvent(tp).order)
           /\ GroupOK(Subscription)' /\ group.position[tp] \in Nat
           /\ group'.committed = group.committed
           /\ \A t \in Subscription : \A n \in DOMAIN log[t] :
                n <= group'.position[t] =>
                  n <= group.position[t] \/ (t = tp /\ n = group.position[tp] + 1)
  <1>1. /\ group.position[tp] + 1 \in DOMAIN log[tp]
        /\ NextEvent(tp) = log[tp][group.position[tp] + 1] /\ NextEvent(tp) \in Event
    BY DeliveredEvent, InvariantFacts
  <1>2. NextEvent(tp).kind = "OrderPlaced" /\ tp[2] = PartitionOf[NextEvent(tp).order]
    BY <1>1, InvariantFacts DEF OrdersInPlace
  <1>3. tp = Keyed("orders.v1", NextEvent(tp).order)
    BY <1>2 DEF Keyed, Subscription
  <1>4. /\ GroupOK(Subscription)' /\ group'.committed = group.committed
        /\ group'.position = [group.position EXCEPT ![tp] = @ + 1]
    BY GroupFinishAtOnce, InvariantFacts
  <1>5. ASSUME NEW t \in Subscription, NEW n \in DOMAIN log[t], n <= group'.position[t]
        PROVE  n <= group.position[t] \/ (t = tp /\ n = group.position[tp] + 1)
    <2>1. n \in Nat /\ group.position \in [Subscription -> Nat]
      BY LogFacts, InvariantFacts, GroupFacts DEF GroupRecord
    <2> QED BY <1>4, <1>5, <2>1
  <1>6. group.position[tp] \in Nat
    BY InvariantFacts, GroupFacts
  <1> QED BY <1>1, <1>2, <1>3, <1>4, <1>5, <1>6 DEF Event

LEMMA SkipKeepsInvariant ==
    ASSUME IsFiniteSet(Orders), AnalyticsInvariant, NEW i \in Instances, NEW tp \in Subscription,
           SkipDuplicate(i, tp)
    PROVE  AnalyticsInvariant'
  <1>1. /\ Deliverable(i, tp) /\ FinishAtOnce(tp) /\ UNCHANGED <<log, faults, memory, snapshots>>
        /\ <<tp, group.position[tp]>> \in processed[i]
    BY DEF SkipDuplicate, IsDuplicate
  <1>2. /\ MemoryType' /\ UNCHANGED <<processed, productStats, totalOrders>>
        /\ \A j \in Instances : KeepsMemory(j) \/ LosesMemory(j)
    BY <1>1, MemoryUnchanged
  <1>3. /\ LogGrows /\ OrdersInPlace' /\ ProcessedInLog' /\ CountsKept'
        /\ RankingsType' /\ NeverOvercounted'
    BY <1>1, <1>2, QuietStep
  <1>4. /\ GroupOK(Subscription)' /\ group.position[tp] \in Nat
        /\ group'.committed = group.committed
        /\ \A t \in Subscription : \A n \in DOMAIN log[t] :
             n <= group'.position[t] =>
               n <= group.position[t] \/ (t = tp /\ n = group.position[tp] + 1)
    BY <1>1, Delivery
  <1>5. DeliveredWasCounted'
    <2>1. (group.position[tp] + 1) - 1 = group.position[tp]
      BY <1>4
    <2>2. <<tp, (group.position[tp] + 1) - 1>> \in processed'[i]
      BY <1>1, <1>2, <2>1
    <2> QED BY <1>1, <1>2, <1>3, <1>4, <2>2, DeliveredFrom
  <1> QED BY <1>1, <1>2, <1>3, <1>4, <1>5, InvariantFrom, InvariantFacts

(* An order that is counted is not in the cache, in any place: its event is    *)
(* the only one about it. Its items are added once.                            *)
LEMMA CountKeepsInvariant ==
    ASSUME IsFiniteSet(Orders), AnalyticsInvariant, NEW i \in Instances, NEW tp \in Subscription,
           CountOrder(i, tp)
    PROVE  AnalyticsInvariant'
  <1> DEFINE at == group.position[tp]
  <1>1. /\ Deliverable(i, tp) /\ FinishAtOnce(tp) /\ UNCHANGED <<log, faults, snapshots>>
        /\ <<tp, at>> \notin processed[i]
        /\ productStats' = [productStats EXCEPT
              ![i] = updateProductStats(productStats[i], ItemsOf[NextEvent(tp).order])]
        /\ totalOrders' = [totalOrders EXCEPT ![i] = totalOrders[i] + 1]
        /\ processed' = [processed EXCEPT ![i] = processed[i] \cup {<<tp, at>>}]
    BY DEF CountOrder, IsDuplicate
  <1>2. /\ at + 1 \in DOMAIN log[tp] /\ NextEvent(tp) = log[tp][at + 1] /\ at \in Nat
        /\ NextEvent(tp) = [order |-> NextEvent(tp).order, kind |-> "OrderPlaced"]
        /\ NextEvent(tp).order \in Orders /\ tp = Keyed("orders.v1", NextEvent(tp).order)
        /\ GroupOK(Subscription)' /\ group'.committed = group.committed
        /\ \A t \in Subscription : \A n \in DOMAIN log[t] :
             n <= group'.position[t] => n <= group.position[t] \/ (t = tp /\ n = at + 1)
    BY <1>1, Delivery
  <1>h. HIDE DEF at
  <1>3. PICK o \in Orders : o = NextEvent(tp).order
    BY <1>2
  <1>4. LogGrows
    BY <1>1, SameLogGrows, InvariantFacts
  <1>5. /\ updateProductStats(productStats[i], ItemsOf[o]) \in Stats
        /\ \A product \in Products :
             updateProductStats(productStats[i], ItemsOf[o])[product]
               = productStats[i][product] + Quantity(ItemsOf[o], product)
    BY OrderKeyed, OrderCounted, InvariantFacts DEF MemoryType
  <1>6. MemoryType'
    <2>1. processed[i] \cup {<<tp, at>>} \in SUBSET (Subscription \X Nat)
      BY <1>2, InvariantFacts DEF MemoryType
    <2>2. totalOrders[i] + 1 \in Nat
      BY InvariantFacts DEF MemoryType
    <2> QED BY <1>1, <1>3, <1>5, <2>1, <2>2, InvariantFacts DEF MemoryType
  <1>7. /\ processed'[i] = processed[i] \cup {<<tp, at>>}
        /\ \A j \in Instances \ {i} : processed'[j] = processed[j] /\ productStats'[j] = productStats[j]
        /\ productStats'[i] = updateProductStats(productStats[i], ItemsOf[o])
    BY <1>1, <1>3, InvariantFacts DEF MemoryType
  <1>8. ProcessedInLog'
    <2>1. at < Len(log[tp])
      <3>1. DOMAIN log[tp] = 1..Len(log[tp]) /\ Len(log[tp]) \in Nat
        BY LogFacts, InvariantFacts, GroupFacts
      <3> QED BY <1>2, <3>1
    <2> QED BY <1>1, <1>7, <2>1, InvariantFacts DEF ProcessedInLog
  <1>9. EventsOf("orders.v1", o, "OrderPlaced") = {at + 1}
    <2>1. \A n \in DOMAIN log[tp] : log[tp][n].order = o => n = at + 1
      BY <1>2, <1>3, InvariantFacts DEF OrdersInPlace
    <2>2. EventsOf("orders.v1", o, "OrderPlaced")
            = {n \in DOMAIN log[tp] : log[tp][n] = [order |-> o, kind |-> "OrderPlaced"]}
      BY <1>2, <1>3 DEF EventsOf, Keyed
    <2>3. log[tp][at + 1] = [order |-> o, kind |-> "OrderPlaced"]
      BY <1>2, <1>3
    <2> QED BY <1>2, <2>1, <2>2, <2>3
  <1>10. ~CountedBy(i, o) /\ CountedBy(i, o)'
    <2>1. EventsOf("orders.v1", o, "OrderPlaced")' = {at + 1}
      BY <1>1, <1>9 DEF EventsOf
    <2>2. <<"orders.v1", PartitionOf[o]>> = tp /\ (at + 1) - 1 = at
      BY <1>2, <1>3 DEF Keyed
    <2> QED BY <1>1, <1>7, <1>9, <2>1, <2>2 DEF CountedBy
  <1>11. ASSUME NEW p \in Orders, p # o
         PROVE  CountedBy(i, p)' <=> CountedBy(i, p)
    <2>1. EventsOf("orders.v1", p, "OrderPlaced")' = EventsOf("orders.v1", p, "OrderPlaced")
      BY <1>1 DEF EventsOf
    <2>2. ASSUME NEW n \in EventsOf("orders.v1", p, "OrderPlaced"),
                 <<<<"orders.v1", PartitionOf[p]>>, n - 1>> = <<tp, at>>
          PROVE  FALSE
      <3>1. tp = <<"orders.v1", PartitionOf[p]>> /\ n - 1 = at
        BY <2>2
      <3>2. n \in DOMAIN log[tp] /\ log[tp][n] = [order |-> p, kind |-> "OrderPlaced"]
        BY <3>1 DEF EventsOf
      <3>3. n = at + 1
        BY <1>2, <3>1, <3>2, OrderAt, <1>4
      <3> QED BY <1>2, <1>3, <1>11, <3>2, <3>3
    <2> QED BY <1>7, <2>1, <2>2 DEF CountedBy
  <1>12. ASSUME NEW j \in Instances, NEW product \in Products
         PROVE  productStats'[j][product] = Total(Counts(j, product)')
    <2>1. productStats[j][product] = Total(Counts(j, product))
      BY StatsAreTotals, InvariantFacts
    <2>2. CASE j # i
      <3>1. \A p \in Orders : CountedBy(j, p)' <=> CountedBy(j, p)
        BY <1>4, <1>7, <2>2, CountedStays
      <3>2. Counts(j, product)' = Counts(j, product)
        BY <3>1 DEF Counts
      <3> QED BY <1>7, <2>1, <2>2, <3>2
    <2>3. CASE j = i
      <3>1. PICK f \in [Orders -> Nat] : f = Counts(i, product)
        BY CountsAreNat
      <3>2. \A p \in Orders : Quantity(ItemsOf[p], product) \in Nat
        BY OrderKeyed, QuantityIsNat
      <3>3. PICK g \in [Orders -> Nat] : g = Counts(i, product)'
        BY <3>2 DEF Counts
      <3>4. /\ \A p \in Orders : p # o => f[p] = g[p]
            /\ f[o] = 0 /\ g[o] = Quantity(ItemsOf[o], product)
        BY <1>10, <1>11, <3>1, <3>3 DEF Counts
      <3>5. Total(g) + f[o] = Total(f) + g[o]
        BY <3>4, SumChanged
      <3>6. Total(f) \in Nat /\ Total(g) \in Nat
        BY SumIsNat
      <3>7. Total(g) = Total(f) + Quantity(ItemsOf[o], product)
        BY <3>2, <3>4, <3>5, <3>6
      <3> QED BY <1>5, <1>7, <2>1, <2>3, <3>1, <3>3, <3>7
    <2> QED BY <2>2, <2>3
  <1>13. CountsKept'
    BY <1>12, Zenon DEF CountsKept, Counts, Total, FoldFunction, FoldFunctionOnSet, MapThenFoldSet
  <1>14. DeliveredWasCounted'
    <2>1. (at + 1) - 1 = at
      BY <1>2
    <2>2. <<tp, (at + 1) - 1>> \in processed'[i]
      BY <1>7, <2>1
    <2>3. \A j \in Instances : processed[j] \subseteq processed'[j]
      BY <1>7
    <2> QED BY <1>1, <1>2, <1>4, <2>2, <2>3, DeliveredFrom
  <1>15. OrdersInPlace' /\ RankingsType' /\ NeverOvercounted'
    BY <1>1, <1>4, OrdersKept, RankingsKept
  <1> QED BY <1>1, <1>2, <1>4, <1>6, <1>8, <1>13, <1>14, <1>15, InvariantFrom, InvariantFacts

(* An instance's counters never exceed what customers ordered.                 *)
LEMMA StatsBounded ==
    ASSUME IsFiniteSet(Orders), AnalyticsInvariant, NEW i \in Instances, NEW product \in Products
    PROVE  /\ productStats[i][product] \in Nat /\ Demand(product) \in Nat
           /\ productStats[i][product] <= Demand(product)
  <1>1. \A o \in Orders : CountedBy(i, o) => Placed(o)
    BY DEF CountedBy, Placed, Logged
  <1>2. \A o \in Orders : Quantity(ItemsOf[o], product) \in Nat
    BY OrderKeyed, QuantityIsNat
  <1>3. /\ Counts(i, product) \in [Orders -> Nat] /\ Ordering(product) \in [Orders -> Nat]
        /\ \A o \in Orders : Counts(i, product)[o] <= Ordering(product)[o]
    BY <1>1, <1>2 DEF Counts, Ordering
  <1>4. /\ Total(Counts(i, product)) \in Nat /\ Total(Ordering(product)) \in Nat
        /\ Total(Counts(i, product)) <= Total(Ordering(product))
    BY <1>3, SumIsNat, SumGrows
  <1> QED BY <1>4, StatsAreTotals, InvariantFacts

(* A ranking shows counts of ranked products, at most TopSize of them.         *)
LEMMA TopFacts ==
    ASSUME IsFiniteSet(Products), NEW stats \in Stats, NEW top \in TopProducts(stats)
    PROVE  /\ DOMAIN top \subseteq Products /\ Cardinality(DOMAIN top) <= TopSize
           /\ top \in [DOMAIN top -> Nat]
           /\ \A product \in DOMAIN top : top[product] = stats[product]
  <1>1. PICK ranked \in SUBSET Ordered(stats) :
           /\ Cardinality(ranked) = Min({TopSize, Cardinality(Ordered(stats))})
           /\ top = [p \in ranked |-> stats[p]]
    BY DEF TopProducts
  <1>2. Ordered(stats) \subseteq Products
    BY DEF Ordered
  <1>3. Cardinality(Ordered(stats)) \in Nat /\ TopSize \in Nat
    BY <1>2, FS_Subset, FS_CardinalityType, AnalyticsAssumption
  <1>4. Cardinality(ranked) <= TopSize
    <2> DEFINE S == {TopSize, Cardinality(Ordered(stats))}
    <2>1. \E x \in S : \A y \in S : x <= y
      BY <1>3
    <2>2. Min(S) \in S /\ \A y \in S : Min(S) <= y
      <3> HIDE DEF S
      <3> QED BY <2>1 DEF Min
    <2> QED BY <1>1, <2>2
  <1>5. \A p \in ranked : p \in Products /\ stats[p] \in Nat
    BY <1>2 DEF Stats
  <1> QED BY <1>1, <1>4, <1>5

LEMMA PublishKeepsInvariant ==
    ASSUME IsFiniteSet(Orders), IsFiniteSet(Products), AnalyticsInvariant, NEW i \in Instances,
           PublishSnapshot(i)
    PROVE  AnalyticsInvariant'
  <1>1. PICK top \in TopProducts(productStats[i]) : snapshots' = Append(snapshots, top)
    BY DEF PublishSnapshot
  <1>2. UNCHANGED <<log, faults, group, inFlight, memory>>
    BY DEF PublishSnapshot
  <1>3. productStats[i] \in Stats /\ snapshots \in Seq(Range(snapshots))
    BY InvariantFacts DEF MemoryType, RankingsType
  <1>4. /\ DOMAIN top \subseteq Products /\ Cardinality(DOMAIN top) <= TopSize
        /\ top \in [DOMAIN top -> Nat]
        /\ \A product \in DOMAIN top : top[product] = productStats[i][product]
    BY <1>3, TopFacts
  <1>5. /\ Len(snapshots) \in Nat /\ DOMAIN snapshots = 1..Len(snapshots)
        /\ DOMAIN snapshots' = 1..(Len(snapshots) + 1)
        /\ \A n \in DOMAIN snapshots : snapshots'[n] = snapshots[n]
        /\ snapshots'[Len(snapshots) + 1] = top
        /\ snapshots' \in Seq(Range(snapshots'))
    <2> DEFINE R == Range(snapshots) \cup {top}
    <2>1. snapshots \in Seq(R) /\ top \in R
      BY <1>3
    <2>2. /\ snapshots' \in Seq(R) /\ Len(snapshots') = Len(snapshots) + 1
          /\ \A n \in 1..Len(snapshots) : snapshots'[n] = snapshots[n]
          /\ snapshots'[Len(snapshots) + 1] = top
      <3> HIDE DEF R
      <3> QED BY <1>1, <2>1, AppendProperties
    <2>3. /\ Len(snapshots) \in Nat /\ DOMAIN snapshots = 1..Len(snapshots)
          /\ DOMAIN snapshots' = 1..Len(snapshots')
      <3> HIDE DEF R
      <3> QED BY <2>1, <2>2, LenProperties
    <2>4. snapshots' \in Seq(Range(snapshots'))
      <3>1. snapshots' \in [1..Len(snapshots') -> R] /\ Len(snapshots') \in Nat
        <4> HIDE DEF R
        <4> QED BY <2>2, LenProperties
      <3>2. snapshots' \in [1..Len(snapshots') -> Range(snapshots')]
        BY <3>1 DEF Range
      <3> QED BY <3>1, <3>2
    <2> QED BY <2>2, <2>3, <2>4
  <1>6. ASSUME NEW n \in DOMAIN snapshots'
        PROVE  \/ n \in DOMAIN snapshots /\ snapshots'[n] = snapshots[n]
               \/ snapshots'[n] = top
    BY <1>5
  <1>7. RankingsType'
    BY <1>4, <1>5, <1>6, InvariantFacts DEF RankingsType
  <1>8. LogGrows
    BY <1>2, SameLogGrows, InvariantFacts
  <1>9. NeverOvercounted'
    <2>1. ASSUME NEW n \in DOMAIN snapshots', NEW product \in DOMAIN snapshots'[n]
          PROVE  snapshots'[n][product] <= Demand(product)'
      <3>1. CASE n \in DOMAIN snapshots /\ snapshots'[n] = snapshots[n]
        <4>1. /\ product \in Products /\ snapshots[n][product] \in Nat
              /\ snapshots[n][product] <= Demand(product)
          BY <3>1, InvariantFacts DEF RankingsType, NeverOvercounted
        <4> QED BY <1>8, <3>1, <4>1, DemandGrows
      <3>2. CASE snapshots'[n] = top
        <4>1. product \in Products /\ snapshots'[n][product] = productStats[i][product]
          BY <1>4, <3>2
        <4>2. productStats[i][product] \in Nat /\ productStats[i][product] <= Demand(product)
          BY <4>1, StatsBounded
        <4> QED BY <1>8, <4>1, <4>2, DemandGrows
      <3> QED BY <1>6, <3>1, <3>2
    <2> QED BY <2>1 DEF NeverOvercounted
  <1>10. /\ MemoryType' /\ UNCHANGED <<processed, productStats, totalOrders>>
         /\ \A j \in Instances : KeepsMemory(j) \/ LosesMemory(j)
    BY <1>2, MemoryUnchanged
  <1>11. OrdersInPlace' /\ ProcessedInLog' /\ CountsKept'
    BY <1>2, <1>8, <1>10, OrdersKept, MemoryKept
  <1>12. GroupOK(Subscription)'
    BY <1>2, <1>8, GroupKept, InvariantFacts
  <1>13. DeliveredWasCounted'
    BY <1>2, <1>8, <1>10, DeliveredFrom
  <1> QED BY <1>2, <1>7, <1>8, <1>9, <1>10, <1>11, <1>12, <1>13, InvariantFrom, InvariantFacts

LEMMA SnapshotFailsKeepsInvariant ==
    ASSUME IsFiniteSet(Orders), AnalyticsInvariant, SnapshotFails
    PROVE  AnalyticsInvariant'
  <1>1. Fault("send") /\ UNCHANGED <<log, group, inFlight, memory, snapshots>>
    BY DEF SnapshotFails
  <1>2. faults' \in [FaultKinds -> Nat] /\ faults'["crash"] = faults["crash"]
    BY <1>1, FaultCounted, InvariantFacts DEF FaultKinds
  <1>3. /\ MemoryType' /\ UNCHANGED <<processed, productStats, totalOrders>>
        /\ \A j \in Instances : KeepsMemory(j) \/ LosesMemory(j)
    BY <1>1, MemoryUnchanged
  <1>4. /\ LogGrows /\ OrdersInPlace' /\ ProcessedInLog' /\ CountsKept'
        /\ RankingsType' /\ NeverOvercounted'
    BY <1>1, <1>3, QuietStep
  <1>5. GroupOK(Subscription)'
    BY <1>1, <1>4, GroupKept, InvariantFacts
  <1>6. DeliveredWasCounted'
    BY <1>1, <1>2, <1>3, <1>4, DeliveredFrom
  <1> QED BY <1>2, <1>3, <1>4, <1>5, <1>6, InvariantFrom

LEMMA CommitKeepsInvariant ==
    ASSUME IsFiniteSet(Orders), AnalyticsInvariant, NEW i \in Instances, Commit(i)
    PROVE  AnalyticsInvariant'
  <1>1. AutoCommit(i) /\ UNCHANGED <<memory, snapshots>>
    BY DEF Commit
  <1>2. /\ GroupOK(Subscription)' /\ UNCHANGED <<log, faults, inFlight>>
        /\ group'.position = group.position
        /\ \A tp \in Subscription :
              group'.committed[tp] \in {group.committed[tp], group.position[tp]}
    BY <1>1, GroupAutoCommit, InvariantFacts
  <1>3. /\ MemoryType' /\ UNCHANGED <<processed, productStats, totalOrders>>
        /\ \A j \in Instances : KeepsMemory(j) \/ LosesMemory(j)
    BY <1>1, MemoryUnchanged
  <1>4. /\ LogGrows /\ OrdersInPlace' /\ ProcessedInLog' /\ CountsKept'
        /\ RankingsType' /\ NeverOvercounted'
    BY <1>1, <1>2, <1>3, QuietStep
  <1>5. DeliveredWasCounted'
    <2>1. \A tp \in Subscription : group.position[tp] \in Nat
      BY InvariantFacts, GroupFacts
    <2> QED BY <1>2, <1>3, <1>4, <2>1, DeliveredFrom DEF NoOffset
  <1> QED BY <1>2, <1>3, <1>4, <1>5, InvariantFrom, InvariantFacts

(* A rejoining group goes on at what it committed, or from the start after a   *)
(* replay, which delivers what no cache holds any more.                        *)
LEMMA RejoinKeepsInvariant ==
    ASSUME IsFiniteSet(Orders), AnalyticsInvariant,
           NEW kind \in {"rebalance", "crash", "replay"}, Fault(kind),
           NEW survivors, NEW committed, Rejoin(survivors, committed), MemoryType',
           UNCHANGED snapshots,
           \A i \in Instances : KeepsMemory(i) \/ LosesMemory(i),
           \/ kind = "rebalance" /\ committed = group.committed /\ processed' = processed
           \/ kind = "crash" /\ committed = group.committed
           \/ kind = "replay" /\ committed = ResetToEarliest(group.committed)
    PROVE  AnalyticsInvariant'
  <1>0. kind # "crash" => "crash" \in FaultKinds \ {kind}
    BY DEF FaultKinds
  <1>1. /\ GroupOK(Subscription)' /\ UNCHANGED log
        /\ faults' \in [FaultKinds -> Nat] /\ faults'[kind] = faults[kind] + 1
        /\ \A k \in FaultKinds \ {kind} : faults'[k] = faults[k]
        /\ \A tp \in Subscription : group.committed[tp] # NoOffset =>
             /\ group'.committed[tp] # NoOffset
             /\ group'.committed[tp] <= group.committed[tp]
             /\ group'.position[tp] <= group.committed[tp]
    <2>1. kind \in FaultKinds
      BY DEF FaultKinds
    <2> QED BY <2>1, GroupRejoins, InvariantFacts
  <1>2. /\ LogGrows /\ OrdersInPlace' /\ ProcessedInLog' /\ CountsKept'
        /\ RankingsType' /\ NeverOvercounted'
    BY <1>1, QuietStep
  <1>3. \A tp \in Subscription : /\ group'.committed[tp] = committed[tp]
                                 /\ group'.position[tp] = Restart(committed, tp)
    <2>1. /\ committed \in [Subscription -> Nat \cup {NoOffset}]
          /\ \A tp \in Subscription : committed[tp] <= Len(log[tp])
      BY RejoinsAtCommitted, InvariantFacts
    <2> QED BY <2>1, GroupRejoin, InvariantFacts
  <1>4. DeliveredWasCounted'
    <2>1. SUFFICES ASSUME faults'["crash"] = 0
                   PROVE  DeliveredWasCounted'
      BY DEF DeliveredWasCounted
    <2>2. kind # "crash"
      <3>1. faults["crash"] \in Nat
        BY InvariantFacts DEF FaultKinds
      <3> QED BY <1>1, <2>1, <3>1
    <2>3. faults["crash"] = 0
      BY <1>0, <1>1, <2>1, <2>2
    <2>4. CASE kind = "rebalance"
      <3>1. \A i \in Instances : processed[i] \subseteq processed'[i]
        BY <2>4
      <3>2. ASSUME InitialCommitted = 0, NEW tp \in Subscription, NEW n \in DOMAIN log'[tp],
                   n <= group'.position[tp] \/ n <= group'.committed[tp]
            PROVE  n \in DOMAIN log[tp] /\ n <= group.committed[tp]
        <4>1. group.committed[tp] # NoOffset
          BY <2>3, <3>2, InvariantFacts DEF DeliveredWasCounted
        <4>2. committed = group.committed
          BY <2>4
        <4>3. group'.position[tp] = group.committed[tp] /\ group'.committed[tp] = group.committed[tp]
          BY <1>3, <4>1, <4>2 DEF Restart
        <4> QED BY <1>1, <3>2, <4>3
      <3>3. ASSUME InitialCommitted = 0, NEW tp \in Subscription
            PROVE  group'.committed[tp] # NoOffset
        BY <1>1, <2>3, <3>3, InvariantFacts DEF DeliveredWasCounted
      <3> QED BY <1>2, <2>3, <3>1, <3>2, <3>3, DeliveredFrom
    <2>5. CASE kind = "replay"
      <3>1. ASSUME NEW tp \in Subscription
            PROVE  group'.committed[tp] = 0 /\ group'.position[tp] = 0
        <4>1. committed = ResetToEarliest(group.committed)
          BY <2>5
        <4>2. tp \in DOMAIN group.committed /\ tp[1] = "orders.v1"
          BY InvariantFacts, GroupFacts DEF Subscription, GroupRecord
        <4>3. committed[tp] = 0
          BY <4>1, <4>2 DEF ResetToEarliest
        <4> QED BY <1>3, <4>3 DEF Restart, NoOffset
      <3>2. ASSUME NEW tp \in Subscription, NEW n \in DOMAIN log'[tp]
            PROVE  ~(n <= 0)
        <4>1. n \in DOMAIN log[tp] /\ DOMAIN log[tp] = 1..Len(log[tp]) /\ Len(log[tp]) \in Nat
          BY <1>1, <3>2, LogFacts, InvariantFacts, GroupFacts
        <4> QED BY <4>1
      <3> QED BY <1>2, <2>3, <3>1, <3>2, DeliveredFrom DEF NoOffset
    <2> QED BY <2>2, <2>4, <2>5
  <1> QED BY <1>1, <1>2, <1>4, InvariantFrom

LEMMA AnalyticsInit ==
    ASSUME IsFiniteSet(Orders), Init
    PROVE  AnalyticsInvariant
  <1>1. Subscription \subseteq {"orders.v1"} \X Partitions
    BY DEF Subscription
  <1>2. /\ GroupOK(Subscription) /\ faults \in [FaultKinds -> Nat]
        /\ DOMAIN log = {"orders.v1"} \X Partitions
        /\ \A tp \in DOMAIN log : DOMAIN log[tp] = {} /\ Len(log[tp]) = 0
        /\ \A tp \in Subscription : group.committed[tp] = InitialCommitted
    BY <1>1, GroupStarts DEF Init
  <1>3. \A tp \in Subscription : DOMAIN log[tp] = {}
    BY <1>1, <1>2
  <1>4. snapshots = <<>> /\ snapshots \in Seq(Range(snapshots)) /\ DOMAIN snapshots = {}
    BY DEF Init
  <1>5. TypeOK
    BY <1>2, <1>4 DEF TypeOK, TopicsType, GroupOK, LogOK, Init, NoStats
  <1>6. NeverOvercounted /\ ProcessedInLog
    BY <1>4 DEF Init, NeverOvercounted, ProcessedInLog
  <1>7. OrdersInPlace /\ DeliveredWasCounted
    BY <1>2, <1>3 DEF OrdersInPlace, DeliveredWasCounted, NoOffset
  <1>8. ASSUME NEW i \in Instances, NEW product \in Products
        PROVE  productStats[i][product] = Total(Counts(i, product))
    <2>1. processed[i] = {} /\ productStats[i][product] = 0
      BY DEF Init, NoStats
    <2>2. Counts(i, product) \in [Orders -> Nat] /\ \A o \in Orders : Counts(i, product)[o] = 0
      BY <2>1 DEF Counts, CountedBy
    <2> QED BY <2>1, <2>2, SumOfNothing
  <1>9. CountsKept
    BY <1>8, CountsKeptFrom
  <1> QED BY <1>5, <1>6, <1>7, <1>9 DEF AnalyticsInvariant

LEMMA AnalyticsStutter ==
    ASSUME IsFiniteSet(Orders), AnalyticsInvariant, UNCHANGED vars
    PROVE  AnalyticsInvariant'
  <1>1. UNCHANGED <<log, faults, group, inFlight, memory, snapshots>>
    BY DEF vars
  <1>2. /\ MemoryType' /\ UNCHANGED <<processed, productStats, totalOrders>>
        /\ \A j \in Instances : KeepsMemory(j) \/ LosesMemory(j)
    BY <1>1, MemoryUnchanged
  <1>3. /\ LogGrows /\ OrdersInPlace' /\ ProcessedInLog' /\ CountsKept'
        /\ RankingsType' /\ NeverOvercounted'
    BY <1>1, <1>2, QuietStep
  <1>4. GroupOK(Subscription)'
    BY <1>1, <1>3, GroupKept, InvariantFacts
  <1>5. DeliveredWasCounted'
    BY <1>1, <1>2, <1>3, DeliveredFrom
  <1> QED BY <1>1, <1>2, <1>3, <1>4, <1>5, InvariantFrom, InvariantFacts

(* Every step keeps the invariant.                                             *)
LEMMA AnalyticsNext ==
    ASSUME IsFiniteSet(Orders), IsFiniteSet(Products), AnalyticsInvariant, [Next]_vars
    PROVE  AnalyticsInvariant'
  <1>1. ASSUME NEW o \in Orders, CustomerPlaces(o)
        PROVE  AnalyticsInvariant'
    BY <1>1, PlacementKeepsInvariant
  <1>2. ASSUME NEW i \in Instances, Handle(i)
        PROVE  AnalyticsInvariant'
    BY <1>2, SkipKeepsInvariant, CountKeepsInvariant DEF Handle
  <1>3. ASSUME NEW i \in Instances, PublishSnapshot(i)
        PROVE  AnalyticsInvariant'
    BY <1>3, PublishKeepsInvariant
  <1>4. ASSUME NEW i \in Instances, Commit(i)
        PROVE  AnalyticsInvariant'
    BY <1>4, CommitKeepsInvariant
  <1>5. ASSUME NEW i \in Instances, Crash(i)
        PROVE  AnalyticsInvariant'
    <2>1. /\ Fault("crash") /\ Rejoin(Instances \ {i}, group.committed)
          /\ processed' = [processed EXCEPT ![i] = {}]
          /\ productStats' = [productStats EXCEPT ![i] = NoStats]
          /\ totalOrders' = [totalOrders EXCEPT ![i] = 0]
          /\ UNCHANGED snapshots
      BY <1>5 DEF Crash, CrashAndRejoin
    <2>2. NoStats \in Stats
      BY DEF NoStats, Stats
    <2>3. MemoryType' /\ \A j \in Instances : KeepsMemory(j) \/ LosesMemory(j)
      BY <2>1, <2>2, InvariantFacts DEF MemoryType, KeepsMemory, LosesMemory
    <2> QED BY <2>1, <2>3, RejoinKeepsInvariant
  <1>6. CASE SnapshotFails
    BY <1>6, SnapshotFailsKeepsInvariant
  <1>7. CASE GroupRebalances
    <2>1. /\ Fault("rebalance") /\ Rejoin(Instances, group.committed)
          /\ UNCHANGED <<memory, snapshots>>
      BY <1>7 DEF GroupRebalances, Rebalance
    <2>2. /\ MemoryType' /\ processed' = processed
          /\ \A j \in Instances : KeepsMemory(j) \/ LosesMemory(j)
      BY <2>1, MemoryUnchanged
    <2> QED BY <2>1, <2>2, RejoinKeepsInvariant
  <1>8. CASE ReplayOrders
    <2>1. /\ Fault("replay") /\ Rejoin({}, ResetToEarliest(group.committed))
          /\ processed' = [i \in Instances |-> {}]
          /\ productStats' = [i \in Instances |-> NoStats]
          /\ totalOrders' = [i \in Instances |-> 0]
          /\ UNCHANGED snapshots
      BY <1>8 DEF ReplayOrders, Replay
    <2>2. NoStats \in Stats
      BY DEF NoStats, Stats
    <2>3. MemoryType' /\ \A j \in Instances : KeepsMemory(j) \/ LosesMemory(j)
      BY <2>1, <2>2 DEF MemoryType, LosesMemory
    <2> QED BY <2>1, <2>3, RejoinKeepsInvariant
  <1>9. CASE UNCHANGED vars
    BY <1>9, AnalyticsStutter
  <1> QED BY <1>1, <1>2, <1>3, <1>4, <1>5, <1>6, <1>7, <1>8, <1>9 DEF Next

(* Under every fault: an instance's counters hold exactly the orders its cache *)
(* holds, each once, so no ranking ever published shows more of a product than *)
(* customers ordered (handleOrderPlaced, updateProductStats, generateSnapshot).*)
THEOREM CountsHold ==
    ASSUME IsFiniteSet(Orders), IsFiniteSet(Products)
    PROVE  Spec => []AnalyticsInvariant
  <1>1. Init => AnalyticsInvariant
    BY AnalyticsInit
  <1>2. AnalyticsInvariant /\ [Next]_vars => AnalyticsInvariant'
    BY AnalyticsNext
  <1> QED BY <1>1, <1>2, PTL DEF Spec

-----------------------------------------------------------------------------
(* What the instances counted together                                         *)

(* Raising one value and lowering none raises the sum as much.                 *)
LEMMA SumRaised ==
    ASSUME NEW S, IsFiniteSet(S), NEW f \in [S -> Nat], NEW g \in [S -> Nat],
           \A y \in S : f[y] <= g[y], NEW x \in S, NEW k \in Nat, f[x] + k <= g[x]
    PROVE  Total(f) + k <= Total(g)
  <1>1. PICK d : d = [f EXCEPT ![x] = g[x]]
    OBVIOUS
  <1>2. d \in [S -> Nat] /\ d[x] = g[x] /\ \A y \in S : y # x => f[y] = d[y]
    BY <1>1
  <1>3. \A y \in S : d[y] <= g[y]
    BY <1>2
  <1>4. Total(d) + f[x] = Total(f) + d[x]
    BY <1>2, SumChanged
  <1>5. Total(d) <= Total(g)
    BY <1>2, <1>3, SumGrows
  <1>6. Total(d) \in Nat /\ Total(f) \in Nat /\ Total(g) \in Nat
    BY <1>2, SumIsNat
  <1>7. f[x] \in Nat /\ g[x] \in Nat
    OBVIOUS
  <1> QED BY <1>2, <1>4, <1>5, <1>6, <1>7

(* The sum of the sums covers every order that some instance counted.          *)
LEMMA SumsCover ==
    ASSUME NEW S, IsFiniteSet(S), NEW T, IsFiniteSet(T),
           NEW F \in [S -> [T -> Nat]], NEW f \in [T -> Nat], NEW sums \in [S -> Nat],
           \A x \in S : sums[x] = Total(F[x]),
           S # {}, \A y \in T : \E x \in S : f[y] <= F[x][y]
    PROVE  Total(f) <= Total(sums)
  <1>1. PICK a : SumsUp(f, T, a) /\ Total(f) = a[T]
    BY SumFolds
  <1> DEFINE b == [x \in S |-> CHOOSE h : SumsUp(F[x], T, h) /\ Total(F[x]) = h[T]]
  <1>2. ASSUME NEW x \in S
        PROVE  SumsUp(F[x], T, b[x]) /\ Total(F[x]) = b[x][T]
    <2>1. F[x] \in [T -> Nat]
      OBVIOUS
    <2>2. \E h : SumsUp(F[x], T, h) /\ Total(F[x]) = h[T]
      BY <2>1, SumFolds
    <2>3. b[x] = CHOOSE h : SumsUp(F[x], T, h) /\ Total(F[x]) = h[T]
      OBVIOUS
    <2> QED BY <2>2, <2>3, Zenon
  <1> HIDE DEF b
  <1>3. \A x \in S, U \in SUBSET T : b[x][U] \in Nat
    BY <1>2 DEF SumsUp
  <1> DEFINE c(U) == [x \in S |-> b[x][U]]
             P == {U \in SUBSET T : a[U] <= Total(c(U))}
  <1>4. \A U \in SUBSET T : c(U) \in [S -> Nat]
    BY <1>3
  <1>5. \A U \in SUBSET T : Total(c(U)) \in Nat
    <2> HIDE DEF c
    <2> QED BY <1>4, SumIsNat
  <1>6. {} \in P
    <2>1. a[{}] = 0 /\ Total(c({})) \in Nat
      BY <1>1, <1>5 DEF SumsUp
    <2> QED BY <2>1
  <1>7. ASSUME NEW U \in SUBSET T, U # {}, U \ {Picked(T)[U]} \in P
        PROVE  U \in P
    <2>1. PICK y \in U : y = Picked(T)[U]
      BY <1>7, PickedChooses DEF Chooses
    <2>2. PICK V \in SUBSET T : V = U \ {y}
      OBVIOUS
    <2>3. /\ a[U] = f[y] + a[V] /\ a[V] \in Nat
          /\ \A x \in S : b[x][U] = F[x][y] + b[x][V]
      BY <1>1, <1>2, <1>7, <2>1, <2>2 DEF SumsUp
    <2>4. PICK x0 \in S : f[y] <= F[x0][y]
      OBVIOUS
    <2>5. PICK before \in [S -> Nat], after \in [S -> Nat] : before = c(V) /\ after = c(U)
      BY <1>4
    <2>6. \A x \in S : before[x] = b[x][V] /\ after[x] = F[x][y] + before[x]
      BY <2>3, <2>5
    <2>7. /\ \A x \in S : before[x] <= after[x]
          /\ before[x0] + f[y] <= after[x0]
      <3>1. \A x \in S : F[x][y] \in Nat
        OBVIOUS
      <3>2. f[y] \in Nat
        OBVIOUS
      <3> QED BY <2>4, <2>6, <3>1, <3>2
    <2>8. Total(before) + f[y] <= Total(after)
      BY <2>7, SumRaised
    <2>9. a[U] <= Total(c(U))
      <3>1. /\ Total(before) \in Nat /\ Total(after) \in Nat /\ f[y] \in Nat
            /\ a[V] <= Total(before)
        <4>1. a[V] <= Total(c(V))
          BY <1>7, <2>1, <2>2
        <4> HIDE DEF c
        <4> QED BY <1>5, <2>5, <4>1
      <3>2. a[U] <= Total(after)
        BY <2>3, <2>8, <3>1
      <3> HIDE DEF c
      <3> QED BY <2>5, <3>2
    <2> QED BY <2>9
  <1>8. \A U \in SUBSET T : U \in P
    <2> HIDE DEF P
    <2> QED BY <1>6, <1>7, PickedChooses, SubsetsReached
  <1>9. c(T) = sums
    <2>1. \A x \in S : b[x][T] = sums[x]
      BY <1>2
    <2> QED BY <2>1
  <1>10. a[T] <= Total(c(T))
    BY <1>8
  <1> QED BY <1>1, <1>9, <1>10

(* As long as no process lost its memory, the counts of the instances together *)
(* hold every order whose offset was committed: rebalances may count an order  *)
(* twice, never not at all (markProcessed and the counters before the commit). *)
THEOREM CommittedIsCounted ==
    ASSUME InitialCommitted = 0, IsFiniteSet(Orders), IsFiniteSet(Products)
    PROVE  Spec => []CommittedWasCounted
  <1>1. AnalyticsInvariant => CommittedWasCounted
    <2> SUFFICES ASSUME AnalyticsInvariant, faults["crash"] = 0, NEW product \in Products
                 PROVE  FoldFunction(+, 0, [i \in Instances |-> productStats[i][product]]) >=
                        FoldFunction(+, 0, [o \in Orders |->
                           IF \E tp \in Subscription : \E n \in EventsOf("orders.v1", o, "OrderPlaced") :
                                 tp[2] = PartitionOf[o] /\ n <= group.committed[tp]
                           THEN Quantity(ItemsOf[o], product) ELSE 0])
      BY DEF CommittedWasCounted
    <2> DEFINE sums == [i \in Instances |-> productStats[i][product]]
               Past(o) == \E tp \in Subscription : \E n \in EventsOf("orders.v1", o, "OrderPlaced") :
                             tp[2] = PartitionOf[o] /\ n <= group.committed[tp]
               f == [o \in Orders |-> IF Past(o) THEN Quantity(ItemsOf[o], product) ELSE 0]
               F == [i \in Instances |-> Counts(i, product)]
    <2>1. \A o \in Orders : Quantity(ItemsOf[o], product) \in Nat
      BY OrderKeyed, QuantityIsNat
    <2>2. f \in [Orders -> Nat]
      BY <2>1
    <2>3. \A i \in Instances : Counts(i, product) \in [Orders -> Nat]
      BY CountsAreNat
    <2>4. F \in [Instances -> [Orders -> Nat]]
      BY <2>3
    <2>5. sums \in [Instances -> Nat]
      BY InvariantFacts DEF MemoryType, Stats
    <2>6. \A i \in Instances : sums[i] = Total(F[i])
      BY StatsAreTotals, InvariantFacts
    <2>7. ASSUME NEW o \in Orders
          PROVE  \E i \in Instances : f[o] <= F[i][o]
      <3>1. CASE Past(o)
        <4>1. PICK tp \in Subscription, n \in EventsOf("orders.v1", o, "OrderPlaced") :
                 tp[2] = PartitionOf[o] /\ n <= group.committed[tp]
          BY <3>1
        <4>2. tp = <<"orders.v1", PartitionOf[o]>>
          BY <4>1 DEF Subscription
        <4>3. n \in DOMAIN log[tp]
          BY <4>2 DEF EventsOf
        <4>4. PICK i \in Instances : <<tp, n - 1>> \in processed[i]
          BY <4>1, <4>3, InvariantFacts DEF DeliveredWasCounted
        <4>5. CountedBy(i, o)
          BY <4>2, <4>4 DEF CountedBy
        <4>6. F[i][o] = Quantity(ItemsOf[o], product)
          BY <4>5 DEF Counts
        <4> QED BY <2>1, <4>6
      <3>2. CASE ~Past(o)
        <4>1. PICK i \in Instances : TRUE
          OBVIOUS
        <4>2. F[i][o] \in Nat
          BY <2>4
        <4> QED BY <3>2, <4>2
      <3> QED BY <3>1, <3>2
    <2>8. Total(f) <= Total(sums) /\ Total(f) \in Nat /\ Total(sums) \in Nat
      <3> HIDE DEF f, F, sums
      <3>1. Instances # {} /\ IsFiniteSet(Instances)
        OBVIOUS
      <3> QED BY <2>2, <2>4, <2>5, <2>6, <2>7, <3>1, SumsCover, SumIsNat
    <2>9. Total(sums) >= Total(f)
      BY <2>8
    <2> QED BY <2>9, Zenon DEF Total
  <1> QED BY <1>1, CountsHold, PTL
=============================================================================
