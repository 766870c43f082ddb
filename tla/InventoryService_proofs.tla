----------------------- MODULE InventoryService_proofs -----------------------
(* Theorems about InventoryService, for every set of orders, items, products,  *)
(* stock levels, partitions and instances and every bound on the faults. The   *)
(* deliveries come first, which only need that an answer is sent either way;   *)
(* then the stock, which needs what a reservation takes.                       *)
EXTENDS InventoryService, ConsumerGroup_proofs

-----------------------------------------------------------------------------
(* What a reservation takes from a shelf                                       *)

Attempts == [shelf : Shelf, success : BOOLEAN]

LEMMA WantedAdds ==
    ASSUME NEW items \in Seq(Item), NEW product
    PROVE  \E w : WantsUp(items, product, w) /\ WantedOf(items, product) = w[DOMAIN items]
  <1>1. \A item \in Item : item.quantity \in Nat
    BY DEF Item
  <1> QED BY <1>1, WantedFolds

(* One item: a success takes what is wanted of it from the available to the    *)
(* reserved stock, a failure takes nothing.                                    *)
ItemTaken(before, after, item) ==
    /\ after \in Attempts
    /\ \A product \in Products :
          LET was == before.shelf[product]  is == after.shelf[product]
          IN  /\ is.available + is.reserved = was.available + was.reserved
              /\ is.reserved >= was.reserved
              /\ after.success => is.reserved = was.reserved + Portion(item, product)
    /\ after.success => before.success

LEMMA ItemReserved ==
    ASSUME NEW attempt \in Attempts, NEW item \in Item
    PROVE  ItemTaken(attempt, ReserveItem(attempt, item), item)
  <1>1. /\ attempt.shelf \in Shelf /\ attempt.success \in BOOLEAN
        /\ attempt = [shelf |-> attempt.shelf, success |-> attempt.success]
        /\ item.quantity \in Nat /\ item.product \in Products \cup {Unknown}
    BY DEF Attempts, Item
  <1>2. \A product \in Products : /\ attempt.shelf[product].available \in Nat
                                  /\ attempt.shelf[product].reserved \in Nat
    BY <1>1 DEF Shelf
  <1>3. CASE attempt.success /\ CanReserve(attempt.shelf, item)
    <2>1. PICK p \in Products : p = item.product
      BY <1>3 DEF CanReserve
    <2>2. PICK row : row = [available |-> attempt.shelf[p].available - item.quantity,
                            reserved |-> attempt.shelf[p].reserved + item.quantity]
      OBVIOUS
    <2>3. /\ row \in [available : Nat, reserved : Nat]
          /\ row.available = attempt.shelf[p].available - item.quantity
          /\ row.reserved = attempt.shelf[p].reserved + item.quantity
      <3>1. attempt.shelf[p].available >= item.quantity
        BY <1>3, <2>1 DEF CanReserve
      <3> QED BY <1>1, <1>2, <2>2, <3>1
    <2>4. PICK shelf : shelf = [attempt.shelf EXCEPT ![p] = row]
      OBVIOUS
    <2>5. /\ shelf \in Shelf /\ shelf[p] = row
          /\ \A q \in Products : q # p => shelf[q] = attempt.shelf[q]
      BY <1>1, <2>3, <2>4 DEF Shelf
    <2>6. Take(attempt.shelf, item) = shelf
      BY <2>1, <2>2, <2>4, Zenon DEF Take
    <2>7. ReserveItem(attempt, item) = [shelf |-> shelf, success |-> attempt.success]
      <3>1. ReserveItem(attempt, item) = [attempt EXCEPT !.shelf = shelf]
        BY <1>3, <2>6, Zenon DEF ReserveItem
      <3> QED BY <1>1, <3>1
    <2>8. PICK after : after = [shelf |-> shelf, success |-> attempt.success]
      OBVIOUS
    <2>9. after \in Attempts /\ after.shelf = shelf /\ after.success = attempt.success
      BY <1>1, <2>5, <2>8 DEF Attempts
    <2>10. ASSUME NEW q \in Products
           PROVE  LET was == attempt.shelf[q]  is == after.shelf[q]
                  IN  /\ is.available + is.reserved = was.available + was.reserved
                      /\ is.reserved >= was.reserved
                      /\ is.reserved = was.reserved + Portion(item, q)
      <3>1. CASE q = p
        <4>1. after.shelf[q] = row
          BY <2>5, <2>9, <3>1
        <4>2. Portion(item, q) = item.quantity
          BY <2>1, <3>1 DEF Portion
        <4> QED BY <1>1, <1>2, <2>3, <3>1, <4>1, <4>2
      <3>2. CASE q # p
        <4>1. after.shelf[q] = attempt.shelf[q]
          BY <2>5, <2>9, <3>2
        <4>2. Portion(item, q) = 0
          BY <2>1, <3>2 DEF Portion
        <4> QED BY <1>2, <4>1, <4>2
      <3> QED BY <3>1, <3>2
    <2>11. ItemTaken(attempt, after, item)
      BY <2>9, <2>10 DEF ItemTaken
    <2> QED BY <2>7, <2>8, <2>11, Zenon
  <1>4. CASE ~(attempt.success /\ CanReserve(attempt.shelf, item))
    <2>1. ReserveItem(attempt, item) = [shelf |-> attempt.shelf, success |-> FALSE]
      <3>1. ReserveItem(attempt, item) = [attempt EXCEPT !.success = FALSE]
        BY <1>4, Zenon DEF ReserveItem
      <3> QED BY <1>1, <3>1
    <2>2. PICK after : after = [shelf |-> attempt.shelf, success |-> FALSE]
      OBVIOUS
    <2>3. after \in Attempts /\ after.shelf = attempt.shelf /\ after.success = FALSE
      BY <1>1, <2>2 DEF Attempts
    <2>4. ItemTaken(attempt, after, item)
      BY <1>2, <2>3 DEF ItemTaken
    <2> QED BY <2>1, <2>2, <2>4, Zenon
  <1> QED BY <1>3, <1>4

(* The attempt after each set of items, the last place of a set last.          *)
TakesUp(shelf, items, r) ==
    /\ r \in [SUBSET DOMAIN items -> Attempts]
    /\ r[{}] = [shelf |-> shelf, success |-> TRUE]
    /\ \A U \in SUBSET DOMAIN items : U # {} =>
          r[U] = ReserveItem(r[U \ {Max(U)}], items[Max(U)])

LEMMA ReservationFolds ==
    ASSUME NEW shelf \in Shelf, NEW items \in Seq(Item)
    PROVE  \E r : TakesUp(shelf, items, r) /\ Reservation(shelf, items) = r[DOMAIN items]
  <1> DEFINE S == DOMAIN items
             base == [shelf |-> shelf, success |-> TRUE]
             Step(g) == [U \in SUBSET S |->
                            IF U = {} THEN base ELSE ReserveItem(g[U \ {Max(U)}], items[Max(U)])]
             s == CHOOSE g : g = Step(g)
             take == [p \in S \X Attempts |-> ReserveItem(p[2], items[p[1]])]
  <1>0. /\ S \in SUBSET Nat /\ IsFiniteSet(S) /\ \A n \in S : items[n] \in Item
        /\ Chooses(LastOf(S), S)
    BY PlacesOf, LastChooses
  <1>1. \A attempt \in Attempts, n \in S : ReserveItem(attempt, items[n]) \in Attempts
    BY <1>0, ItemReserved DEF ItemTaken
  <1>2. Reservation(shelf, items) = s[S]
    BY Zenon DEF Reservation, FoldLeft, MapThenFoldSet
  <1>3. base \in Attempts
    BY DEF Attempts
  <1> HIDE DEF base
  <1>4. \E g : g = Step(g)
    <2>1. take \in [S \X Attempts -> Attempts]
      <3>1. ASSUME NEW p \in S \X Attempts
            PROVE  ReserveItem(p[2], items[p[1]]) \in Attempts
        BY <1>1
      <3> QED BY <3>1
    <2> HIDE DEF take
    <2>2. PICK h \in [SUBSET S -> Attempts] :
             \A U \in SUBSET S : Folded(S, LastOf(S), base, take, h, U)
      BY <1>0, <1>3, <2>1, FoldExists
    <2>3. ASSUME NEW U \in SUBSET S, U # {}
          PROVE  h[U] = ReserveItem(h[U \ {Max(U)}], items[Max(U)])
      <3>1. h[U] = take[<<LastOf(S)[U], h[U \ {LastOf(S)[U]}]>>]
        BY <2>2, <2>3 DEF Folded
      <3>2. LastOf(S)[U] = Max(U)
        BY DEF LastOf
      <3>3. LastOf(S)[U] \in S /\ h[U \ {LastOf(S)[U]}] \in Attempts
        BY <1>0, <2>2, <2>3 DEF Chooses
      <3>4. take[<<LastOf(S)[U], h[U \ {LastOf(S)[U]}]>>]
               = ReserveItem(h[U \ {LastOf(S)[U]}], items[LastOf(S)[U]])
        BY <3>3 DEF take
      <3> QED BY <3>1, <3>2, <3>4
    <2>4. h[{}] = base
      BY <2>2 DEF Folded
    <2>5. h = Step(h)
      BY <2>3, <2>4
    <2> QED BY <2>5
  <1>5. s = Step(s)
    BY <1>4
  <1> HIDE DEF s
  <1>6. s[{}] = base
    BY <1>5
  <1>7. ASSUME NEW U \in SUBSET S, U # {}
        PROVE  /\ s[U] = ReserveItem(s[U \ {Max(U)}], items[Max(U)])
               /\ Max(U) \in S /\ LastOf(S)[U] = Max(U)
    <2>1. s[U] = ReserveItem(s[U \ {Max(U)}], items[Max(U)])
      BY <1>5, <1>7
    <2>2. LastOf(S)[U] = Max(U)
      BY DEF LastOf
    <2> QED BY <1>0, <1>7, <2>1, <2>2 DEF Chooses
  <1>8. \A U \in SUBSET S : s[U] \in Attempts
    <2> DEFINE P == {W \in SUBSET S : s[W] \in Attempts}
    <2>1. {} \in P
      BY <1>3, <1>6
    <2>2. ASSUME NEW U \in SUBSET S, U # {}, U \ {LastOf(S)[U]} \in P
          PROVE  U \in P
      <3>1. s[U \ {Max(U)}] \in Attempts
        BY <1>7, <2>2
      <3>2. s[U] \in Attempts
        BY <1>1, <1>7, <2>2, <3>1
      <3> QED BY <3>2
    <2> HIDE DEF P
    <2>3. \A U \in SUBSET S : U \in P
      BY <1>0, <2>1, <2>2, SubsetsReached
    <2> QED BY <2>3 DEF P
  <1>9. s \in [SUBSET S -> Attempts]
    <2>1. s = [U \in SUBSET S |-> s[U]]
      BY <1>5, Zenon
    <2> QED BY <1>8, <2>1
  <1> HIDE DEF Step
  <1>10. TakesUp(shelf, items, s)
    BY <1>6, <1>7, <1>9 DEF TakesUp, base
  <1> QED BY <1>2, <1>10

(* A reservation keeps what is available and reserved together, never gives    *)
(* back, and when it succeeds reserves exactly what the order wants.           *)
ReservationTaken(before, after, o) ==
    /\ after \in Attempts
    /\ \A product \in Products :
          LET was == before[product]  is == after.shelf[product]
          IN  /\ is.available + is.reserved = was.available + was.reserved
              /\ is.reserved >= was.reserved
              /\ after.success => is.reserved = was.reserved + Wanted(o, product)

LEMMA ItemTakenOf ==
    ASSUME NEW before \in Attempts, NEW after, NEW item, ItemTaken(before, after, item),
           NEW product \in Products
    PROVE  /\ after \in Attempts
           /\ after.shelf[product].available \in Nat /\ after.shelf[product].reserved \in Nat
           /\ before.shelf[product].available \in Nat /\ before.shelf[product].reserved \in Nat
           /\ after.shelf[product].available + after.shelf[product].reserved
                = before.shelf[product].available + before.shelf[product].reserved
           /\ after.shelf[product].reserved >= before.shelf[product].reserved
           /\ after.success => /\ before.success
                               /\ after.shelf[product].reserved
                                    = before.shelf[product].reserved + Portion(item, product)
  BY DEF ItemTaken, Attempts, Shelf

LEMMA ReservationFacts ==
    ASSUME NEW shelf \in Shelf, NEW o \in Orders
    PROVE  ReservationTaken(shelf, Reservation(shelf, ItemsOf[o]), o)
  <1> DEFINE items == ItemsOf[o]
             S == DOMAIN items
  <1>1. items \in Seq(Item)
    BY InventoryAssumption
  <1>2. /\ S \in SUBSET Nat /\ IsFiniteSet(S) /\ \A n \in S : items[n] \in Item
        /\ Chooses(LastOf(S), S)
    BY <1>1, PlacesOf, LastChooses
  <1>3. PICK r : TakesUp(shelf, items, r) /\ Reservation(shelf, items) = r[S]
    BY <1>1, ReservationFolds
  <1> HIDE DEF items
  <1>4. ASSUME NEW product \in Products
        PROVE  /\ r[S].shelf[product].available + r[S].shelf[product].reserved
                    = shelf[product].available + shelf[product].reserved
               /\ r[S].shelf[product].reserved >= shelf[product].reserved
               /\ r[S].success =>
                     r[S].shelf[product].reserved = shelf[product].reserved + Wanted(o, product)
    <2>1. PICK w : WantsUp(items, product, w) /\ Wanted(o, product) = w[S]
      <3>1. Wanted(o, product) = WantedOf(items, product)
        BY Zenon DEF Wanted, WantedOf, items
      <3> QED BY <1>1, <3>1, WantedAdds
    <2>2. shelf[product].available \in Nat /\ shelf[product].reserved \in Nat
      BY DEF Shelf
    <2> DEFINE P == {U \in SUBSET S :
             /\ r[U].shelf[product].available + r[U].shelf[product].reserved
                  = shelf[product].available + shelf[product].reserved
             /\ r[U].shelf[product].reserved >= shelf[product].reserved
             /\ r[U].success => r[U].shelf[product].reserved = shelf[product].reserved + w[U]}
    <2>3. {} \in P
      <3>1. r[{}].shelf = shelf /\ w[{}] = 0
        BY <1>3, <2>1 DEF TakesUp, WantsUp
      <3> QED BY <2>2, <3>1
    <2>4. ASSUME NEW U \in SUBSET S, U # {}, U \ {LastOf(S)[U]} \in P
          PROVE  U \in P
      <3>1. LastOf(S)[U] = Max(U) /\ Max(U) \in S /\ U \ {Max(U)} \in SUBSET S
        BY <1>2, <2>4 DEF LastOf, Chooses
      <3>2. PICK before \in Attempts : before = r[U \ {Max(U)}]
        BY <1>3, <3>1 DEF TakesUp
      <3>3. PICK after : after = r[U]
        OBVIOUS
      <3>4. after = ReserveItem(before, items[Max(U)])
        BY <1>3, <2>4, <3>2, <3>3 DEF TakesUp
      <3>5. items[Max(U)] \in Item
        BY <1>2, <3>1
      <3>6. ItemTaken(before, after, items[Max(U)])
        BY <3>4, <3>5, ItemReserved
      <3>7. /\ w[U] = w[U \ {Max(U)}] + Portion(items[Max(U)], product)
            /\ w[U \ {Max(U)}] \in Nat /\ w[U] \in Nat
        BY <2>1, <2>4, <3>1 DEF WantsUp
      <3>8. Portion(items[Max(U)], product) \in Nat
        BY <3>5 DEF Portion, Item
      <3>9. /\ before.shelf[product].available + before.shelf[product].reserved
                 = shelf[product].available + shelf[product].reserved
            /\ before.shelf[product].reserved >= shelf[product].reserved
            /\ before.success => before.shelf[product].reserved
                                   = shelf[product].reserved + w[U \ {Max(U)}]
        BY <2>4, <3>1, <3>2
      <3>10. /\ after.shelf[product].available + after.shelf[product].reserved
                  = shelf[product].available + shelf[product].reserved
             /\ after.shelf[product].reserved >= shelf[product].reserved
             /\ after.success => after.shelf[product].reserved = shelf[product].reserved + w[U]
        <4>1. /\ after.shelf[product].available \in Nat /\ after.shelf[product].reserved \in Nat
              /\ before.shelf[product].available \in Nat /\ before.shelf[product].reserved \in Nat
              /\ after.shelf[product].available + after.shelf[product].reserved
                   = before.shelf[product].available + before.shelf[product].reserved
              /\ after.shelf[product].reserved >= before.shelf[product].reserved
              /\ after.success => /\ before.success
                                  /\ after.shelf[product].reserved
                                       = before.shelf[product].reserved
                                           + Portion(items[Max(U)], product)
          BY <3>2, <3>6, ItemTakenOf
        <4> QED BY <2>2, <3>7, <3>8, <3>9, <4>1
      <3> QED BY <3>3, <3>10
    <2> HIDE DEF P
    <2>5. \A U \in SUBSET S : U \in P
      BY <1>2, <2>3, <2>4, SubsetsReached
    <2>6. S \in P
      BY <2>5
    <2> QED BY <2>1, <2>6 DEF P
  <1>5. r[S] \in Attempts
    BY <1>3 DEF TakesUp
  <1>6. ReservationTaken(shelf, r[S], o)
    BY <1>4, <1>5 DEF ReservationTaken
  <1> QED BY <1>3, <1>6 DEF items

-----------------------------------------------------------------------------
(* The invariant                                                               *)

USE TopicsAssumption, GroupAssumption

ReservationKinds == {"InventoryReserved", "InventoryRejected"}

LEMMA InvariantFacts ==
    ASSUME DeliveryInvariant
    PROVE  /\ GroupOK(Subscription) /\ LogOK
           /\ DOMAIN log = InventoryTopics \X Partitions
           /\ faults \in [FaultKinds -> Nat]
           /\ processed \in [Instances -> SUBSET (Subscription \X Nat)]
           /\ ProcessedWasSettled /\ OrdersInPlace /\ ProcessedInLog
           /\ InFlightUnmarked /\ DeliveredWasSettled
  <1>1. log \in [InventoryTopics \X Partitions -> Seq(Event)] /\ faults \in [FaultKinds -> Nat]
    BY DEF DeliveryInvariant, TopicsType
  <1>2. LogOK /\ DOMAIN log = InventoryTopics \X Partitions
    BY <1>1 DEF LogOK
  <1>3. Subscription \subseteq DOMAIN log
    BY <1>2 DEF Subscription, InventoryTopics
  <1>4. GroupOK(Subscription)
    BY <1>2, <1>3 DEF DeliveryInvariant, GroupOK
  <1> QED BY <1>1, <1>2, <1>4 DEF DeliveryInvariant

LEMMA InvariantFrom ==
    ASSUME DeliveryInvariant, LogGrows, GroupOK(Subscription)', faults' \in [FaultKinds -> Nat],
           processed' \in [Instances -> SUBSET (Subscription \X Nat)],
           ProcessedWasSettled', OrdersInPlace', ProcessedInLog',
           InFlightUnmarked', DeliveredWasSettled'
    PROVE  DeliveryInvariant'
  <1>1. log' \in [InventoryTopics \X Partitions -> Seq(Event)]
    BY InvariantFacts DEF LogGrows
  <1>2. TopicsType(InventoryTopics)' /\ GroupType(Subscription)' /\ GroupBounds'
    BY <1>1 DEF TopicsType, GroupOK
  <1> QED BY <1>2 DEF DeliveryInvariant

LEMMA TopicsKeyed ==
    ASSUME DeliveryInvariant, NEW topic \in InventoryTopics, NEW o \in Orders
    PROVE  Keyed(topic, o) \in DOMAIN log
  BY InvariantFacts DEF Keyed

LEMMA AnswersCounted ==
    ASSUME DeliveryInvariant, NEW o \in Orders
    PROVE  /\ Answers(o) \in Nat
           /\ Answers(o) > 0 <=> \E kind \in ReservationKinds : Logged("inventory.v1", o, kind)
  <1>1. Keyed("inventory.v1", o) \in DOMAIN log /\ LogOK
    BY TopicsKeyed, InvariantFacts DEF InventoryTopics
  <1>2. \A kind \in ReservationKinds :
          /\ Cardinality(EventsOf("inventory.v1", o, kind)) \in Nat
          /\ Cardinality(EventsOf("inventory.v1", o, kind)) > 0 <=> Logged("inventory.v1", o, kind)
    BY <1>1, EventsFinite
  <1> QED BY <1>2 DEF Answers, ReservationKinds

LEMMA ErrorTopics ==
    ASSUME DeliveryInvariant, NEW o \in Orders
    PROVE  /\ ErrorPartition \in Partitions
           /\ <<"orders.retry.v1", ErrorPartition>> \in DOMAIN log
           /\ <<"orders.dlq.v1", ErrorPartition>> \in DOMAIN log
  <1>1. ErrorPartition \in Partitions
    <2>1. PartitionOf[o] \in Partitions
      OBVIOUS
    <2> QED BY <2>1 DEF ErrorPartition
  <1> QED BY <1>1, InvariantFacts DEF InventoryTopics

LEMMA SettledStays ==
    ASSUME DeliveryInvariant, LogGrows, NEW o \in Orders, Settled(o)
    PROVE  Settled(o)'
  <1>1. Keyed("inventory.v1", o) \in DOMAIN log
    BY TopicsKeyed DEF InventoryTopics
  <1>2. Answers(o) > 0 => (Answers(o) > 0)'
    <2>1. ASSUME NEW kind \in ReservationKinds, Logged("inventory.v1", o, kind)
          PROVE  (Answers(o) > 0)'
      <3>1. Logged("inventory.v1", o, kind)'
        BY <1>1, <2>1, EventsStay, InvariantFacts
      <3>2. /\ DOMAIN log'[Keyed("inventory.v1", o)] = 1..Len(log'[Keyed("inventory.v1", o)])
            /\ Len(log'[Keyed("inventory.v1", o)]) \in Nat
        BY <1>1, GrownFacts
      <3>3. ASSUME NEW k \in ReservationKinds
            PROVE  /\ Cardinality(EventsOf("inventory.v1", o, k)') \in Nat
                   /\ Cardinality(EventsOf("inventory.v1", o, k)') > 0
                        <=> Logged("inventory.v1", o, k)'
        <4>1. EventsOf("inventory.v1", o, k)' \subseteq 1..Len(log'[Keyed("inventory.v1", o)])
          BY <3>2 DEF EventsOf, Keyed
        <4>2. IsFiniteSet(1..Len(log'[Keyed("inventory.v1", o)]))
          BY <3>2, FS_Interval
        <4>3. IsFiniteSet(EventsOf("inventory.v1", o, k)')
          BY <4>1, <4>2, FS_Subset
        <4> QED BY <4>3, FS_CardinalityType, FS_EmptySet DEF Logged
      <3> QED BY <3>1, <3>3 DEF Answers, ReservationKinds
    <2> QED BY <2>1, AnswersCounted
  <1>3. ASSUME NEW topic \in {"orders.retry.v1", "orders.dlq.v1"}, InErrorTopic(topic, o)
        PROVE  InErrorTopic(topic, o)'
    <2>1. <<topic, ErrorPartition>> \in DOMAIN log /\ LogOK
      BY ErrorTopics, InvariantFacts
    <2> QED BY <1>3, <2>1, EventAt DEF InErrorTopic
  <1> QED BY <1>2, <1>3 DEF Settled

(* The order an offset stands for does not change.                             *)
LEMMA OrderAt ==
    ASSUME DeliveryInvariant, LogGrows, NEW tp \in Subscription, NEW n \in DOMAIN log[tp]
    PROVE  /\ log[tp][n].order \in Orders
           /\ n \in DOMAIN log'[tp] /\ log'[tp][n] = log[tp][n]
  <1>1. tp \in DOMAIN log /\ LogOK
    BY InvariantFacts, GroupFacts
  <1>2. log[tp][n] \in Event /\ n \in 1..Len(log[tp]) /\ Len(log[tp]) \in Nat
    BY <1>1, LogFacts
  <1>3. DOMAIN log'[tp] = 1..Len(log'[tp]) /\ Len(log[tp]) <= Len(log'[tp]) /\ Len(log'[tp]) \in Nat
        /\ log'[tp][n] = log[tp][n]
    BY <1>1, <1>2, GrownFacts DEF LogGrows
  <1> QED BY <1>2, <1>3 DEF Event

LEMMA EntryAt ==
    ASSUME DeliveryInvariant, LogGrows, NEW i \in Instances, NEW entry \in processed[i]
    PROVE  /\ entry[1] \in Subscription /\ entry[2] \in Nat /\ entry = <<entry[1], entry[2]>>
           /\ entry[2] + 1 \in DOMAIN log[entry[1]]
           /\ log[entry[1]][entry[2] + 1].order \in Orders
           /\ log'[entry[1]][entry[2] + 1] = log[entry[1]][entry[2] + 1]
           /\ entry[2] < Len(log'[entry[1]])
  <1>1. entry[1] \in Subscription /\ entry[2] \in Nat /\ entry = <<entry[1], entry[2]>>
    BY InvariantFacts
  <1>2. entry[2] < Len(log[entry[1]])
    BY InvariantFacts DEF ProcessedInLog
  <1>3. entry[1] \in DOMAIN log /\ LogOK
    BY <1>1, InvariantFacts, GroupFacts
  <1>4. entry[2] + 1 \in DOMAIN log[entry[1]] /\ Len(log[entry[1]]) \in Nat
    BY <1>1, <1>2, <1>3, LogFacts
  <1>5. Len(log[entry[1]]) <= Len(log'[entry[1]]) /\ Len(log'[entry[1]]) \in Nat
    BY <1>3, GrownFacts DEF LogGrows
  <1> QED BY <1>1, <1>2, <1>4, <1>5, OrderAt

(* A cache that only forgets still holds offsets of answered orders.           *)
LEMMA MemoryKept ==
    ASSUME DeliveryInvariant, LogGrows, \A i \in Instances : processed'[i] \subseteq processed[i]
    PROVE  ProcessedWasSettled' /\ ProcessedInLog'
  <1>1. ASSUME NEW i \in Instances, NEW entry \in processed'[i]
        PROVE  /\ Settled(log[entry[1]][entry[2] + 1].order)'
               /\ entry[2] < Len(log'[entry[1]])
    <2>1. entry \in processed[i]
      BY <1>1
    <2>2. PICK o \in Orders : o = log[entry[1]][entry[2] + 1].order
      BY <2>1, EntryAt
    <2>3. Settled(o)
      BY <2>1, <2>2, InvariantFacts DEF ProcessedWasSettled
    <2>4. Settled(o)'
      BY <2>3, SettledStays
    <2>5. o = log'[entry[1]][entry[2] + 1].order
      BY <2>1, <2>2, EntryAt
    <2> QED BY <2>1, <2>4, <2>5, EntryAt
  <1> QED BY <1>1 DEF ProcessedWasSettled, ProcessedInLog

LEMMA OrdersKept ==
    ASSUME DeliveryInvariant, \A tp \in Subscription : log'[tp] = log[tp]
    PROVE  OrdersInPlace'
  BY InvariantFacts DEF OrdersInPlace

(* What was delivered or committed before the step was answered before it;     *)
(* what it delivers or commits beyond that must be answered after it.          *)
LEMMA DeliveredFrom ==
    ASSUME DeliveryInvariant, LogGrows, faults'["send"] = 0 => faults["send"] = 0,
           faults["send"] = 0 /\ InitialCommitted = 0 =>
             \A tp \in Subscription :
               /\ group.committed[tp] # NoOffset => group'.committed[tp] # NoOffset
               /\ \A n \in DOMAIN log'[tp] :
                     n <= group'.position[tp] \/ n <= group'.committed[tp] =>
                       /\ n \in DOMAIN log[tp]
                       /\ \/ n <= group.position[tp] \/ n <= group.committed[tp]
                          \/ faults'["send"] > 0
                          \/ \E o \in Orders : o = log[tp][n].order /\ Settled(o)'
    PROVE  DeliveredWasSettled'
  <1> SUFFICES ASSUME faults'["send"] = 0, InitialCommitted = 0, NEW tp \in Subscription
               PROVE  /\ group'.committed[tp] # NoOffset
                      /\ \A n \in DOMAIN log'[tp] :
                           n <= group'.position[tp] \/ n <= group'.committed[tp] =>
                             Settled(log[tp][n].order)'
    BY DEF DeliveredWasSettled
  <1>1. group'.committed[tp] # NoOffset
    BY InvariantFacts DEF DeliveredWasSettled
  <1>2. ASSUME NEW n \in DOMAIN log'[tp],
               n <= group'.position[tp] \/ n <= group'.committed[tp]
        PROVE  Settled(log[tp][n].order)'
    <2>1. n \in DOMAIN log[tp]
      BY <1>2
    <2>2. PICK o \in Orders : o = log[tp][n].order
      BY <2>1, OrderAt
    <2>3. o = log'[tp][n].order
      BY <2>1, <2>2, OrderAt
    <2>4. n <= group.position[tp] \/ n <= group.committed[tp] => Settled(o)
      BY <2>1, <2>2, InvariantFacts DEF DeliveredWasSettled
    <2>5. Settled(o)'
      BY <1>2, <2>2, <2>4, SettledStays
    <2> QED BY <2>3, <2>5
  <1> QED BY <1>1, <1>2

(* Every order is placed on an event of its own at the end of its partition.   *)
LEMMA PlacementKeepsInvariant ==
    ASSUME DeliveryInvariant, NEW o \in Orders, CustomerPlaces(o)
    PROVE  /\ DeliveryInvariant' /\ LogGrows /\ UNCHANGED <<faults, processed>>
           /\ \A p \in Orders, kind \in ReservationKinds :
                EventsOf("inventory.v1", p, kind)' = EventsOf("inventory.v1", p, kind)
  <1> DEFINE tp0 == Keyed("orders.v1", o)
             last == Len(log[tp0]) + 1
  <1>1. /\ Send("orders.v1", o, "OrderPlaced") /\ ~Placed(o)
        /\ UNCHANGED <<faults, group, inFlight, processed>>
    BY DEF CustomerPlaces, PlaceOrder
  <1>2. "OrderPlaced" \in EventKinds /\ ReservationKinds \subseteq EventKinds
    BY DEF EventKinds, ReservationKinds, AnswerKinds
  <1>3. tp0 \in DOMAIN log /\ tp0 \in Subscription
    BY TopicsKeyed DEF InventoryTopics, Keyed, Subscription
  <1>4. /\ LogGrows
        /\ \A tp \in DOMAIN log \ {tp0} : log'[tp] = log[tp]
        /\ DOMAIN log'[tp0] = DOMAIN log[tp0] \cup {last}
        /\ log'[tp0][last] = [order |-> o, kind |-> "OrderPlaced"]
    BY <1>1, <1>2, <1>3, SendAppends, InvariantFacts
  <1>5. DOMAIN log[tp0] = 1..Len(log[tp0]) /\ Len(log[tp0]) \in Nat
    BY <1>3, LogFacts, InvariantFacts
  <1>6. tp0[2] = PartitionOf[o]
    BY DEF Keyed
  <1>7. \A n \in DOMAIN log[tp0] : log[tp0][n].order # o
    <2>1. SUFFICES ASSUME NEW n \in DOMAIN log[tp0], log[tp0][n].order = o
                   PROVE  FALSE
      OBVIOUS
    <2>2. log[tp0][n] \in Event /\ log[tp0][n].kind = "OrderPlaced"
      BY <1>3, <1>5, LogFacts, InvariantFacts DEF OrdersInPlace
    <2>3. log[tp0][n] = [order |-> o, kind |-> "OrderPlaced"]
      BY <2>1, <2>2 DEF Event
    <2> QED BY <1>1, <2>3 DEF Placed, Logged, EventsOf, Keyed
  <1>h. HIDE DEF tp0, last
  <1>8. GroupOK(Subscription)'
    BY <1>1, <1>4, GroupKept, InvariantFacts
  <1>9. ProcessedWasSettled' /\ ProcessedInLog'
    BY <1>1, <1>4, MemoryKept
  <1>10. \A tp \in Subscription : \A n \in DOMAIN log[tp] :
           n \in DOMAIN log'[tp] /\ log'[tp][n] = log[tp][n]
    BY <1>4, OrderAt
  <1>11. OrdersInPlace'
    <2>1. ASSUME NEW tp \in Subscription, tp # tp0
          PROVE  log'[tp] = log[tp]
      BY <1>4, <2>1, InvariantFacts, GroupFacts
    <2>2. ASSUME NEW n \in DOMAIN log'[tp0]
          PROVE  /\ tp0[2] = PartitionOf[log'[tp0][n].order]
                 /\ log'[tp0][n].kind = "OrderPlaced"
                 /\ \A k \in DOMAIN log'[tp0] : log'[tp0][k].order = log'[tp0][n].order => k = n
      <3>1. \A k \in DOMAIN log[tp0] : log'[tp0][k] = log[tp0][k]
        BY <1>3, <1>10
      <3>2. CASE n = last
        BY <3>1, <3>2, <1>4, <1>6, <1>7
      <3>3. CASE n \in DOMAIN log[tp0]
        BY <3>1, <3>3, <1>3, <1>4, <1>7, InvariantFacts DEF OrdersInPlace
      <3> QED BY <3>2, <3>3, <1>4
    <2>3. ASSUME NEW tp \in Subscription, NEW n \in DOMAIN log'[tp]
          PROVE  /\ tp[2] = PartitionOf[log'[tp][n].order]
                 /\ log'[tp][n].kind = "OrderPlaced"
                 /\ \A k \in DOMAIN log'[tp] : log'[tp][k].order = log'[tp][n].order => k = n
      <3>1. CASE tp = tp0
        BY <2>2, <3>1
      <3>2. CASE tp # tp0
        BY <2>1, <3>2, InvariantFacts DEF OrdersInPlace
      <3> QED BY <3>1, <3>2
    <2> QED BY <2>3 DEF OrdersInPlace
  <1>12. InFlightUnmarked'
    BY <1>1, InvariantFacts DEF InFlightUnmarked
  <1>13. DeliveredWasSettled'
    <2>1. ASSUME NEW tp \in Subscription, NEW n \in DOMAIN log'[tp],
                 n <= group.position[tp] \/ n <= group.committed[tp]
          PROVE  n \in DOMAIN log[tp]
      <3>1. /\ group.position[tp] \in Nat /\ group.position[tp] <= Len(log[tp])
            /\ group.committed[tp] \in Int /\ group.committed[tp] <= Len(log[tp])
            /\ tp \in DOMAIN log
        BY InvariantFacts, GroupFacts
      <3>2. /\ DOMAIN log[tp] = 1..Len(log[tp]) /\ Len(log[tp]) \in Nat
            /\ DOMAIN log'[tp] = 1..Len(log'[tp]) /\ Len(log'[tp]) \in Nat
        BY <3>1, <1>4, LogFacts, GrownFacts, InvariantFacts
      <3> QED BY <2>1, <3>1, <3>2
    <2> QED BY <1>1, <1>4, <2>1, DeliveredFrom
  <1>14. DeliveryInvariant'
    BY <1>1, <1>4, <1>8, <1>9, <1>11, <1>12, <1>13, InvariantFrom, InvariantFacts
  <1>15. ASSUME NEW p \in Orders, NEW kind \in ReservationKinds
         PROVE  EventsOf("inventory.v1", p, kind)' = EventsOf("inventory.v1", p, kind)
    <2>1. Keyed("inventory.v1", p) \in DOMAIN log /\ Keyed("inventory.v1", p) # tp0
      BY TopicsKeyed DEF Keyed, InventoryTopics, tp0
    <2> QED BY <1>4, <2>1 DEF EventsOf, Keyed
  <1> QED BY <1>1, <1>4, <1>14, <1>15

(* A step that leaves topics and memory alone.                                 *)
LEMMA QuietStep ==
    ASSUME DeliveryInvariant, UNCHANGED log,
           \A i \in Instances : processed'[i] \subseteq processed[i]
    PROVE  LogGrows /\ OrdersInPlace' /\ ProcessedWasSettled' /\ ProcessedInLog'
  BY SameLogGrows, OrdersKept, MemoryKept, InvariantFacts

LEMMA SkipKeepsInvariant ==
    ASSUME DeliveryInvariant, NEW i \in Instances, NEW tp \in Subscription, SkipDuplicate(i, tp)
    PROVE  DeliveryInvariant'
  <1>1. /\ Deliverable(i, tp) /\ FinishAtOnce(tp) /\ UNCHANGED <<log, faults, processed>>
        /\ <<tp, group.position[tp]>> \in processed[i]
    BY DEF SkipDuplicate, IsDuplicate
  <1>2. LogGrows /\ OrdersInPlace' /\ ProcessedWasSettled' /\ ProcessedInLog'
    BY <1>1, QuietStep
  <1>3. /\ GroupOK(Subscription)' /\ inFlight' = inFlight
        /\ group'.committed = group.committed
        /\ group'.position = [group.position EXCEPT ![tp] = @ + 1]
    BY <1>1, GroupFinishAtOnce, InvariantFacts
  <1>4. InFlightUnmarked'
    BY <1>1, <1>3, InvariantFacts DEF InFlightUnmarked
  <1>5. group.position[tp] + 1 \in DOMAIN log[tp]
    BY <1>1, DeliveredEvent, InvariantFacts
  <1>6. PICK o \in Orders : o = log[tp][group.position[tp] + 1].order
    BY <1>2, <1>5, OrderAt
  <1>7. Settled(o)'
    <2>1. Settled(log[tp][group.position[tp] + 1].order)
      BY <1>1, InvariantFacts DEF ProcessedWasSettled
    <2> QED BY <1>2, <1>6, <2>1, SettledStays
  <1>8. DeliveredWasSettled'
    <2>1. ASSUME NEW t \in Subscription, NEW n \in DOMAIN log[t],
                 n <= group'.position[t], ~(n <= group.position[t])
          PROVE  t = tp /\ n = group.position[tp] + 1
      <3>1. n \in Nat /\ group.position \in [Subscription -> Nat]
        BY LogFacts, InvariantFacts, GroupFacts DEF GroupRecord
      <3> QED BY <1>3, <2>1, <3>1
    <2> QED BY <1>1, <1>2, <1>3, <1>6, <1>7, <2>1, DeliveredFrom
  <1> QED BY <1>1, <1>2, <1>3, <1>4, <1>8, InvariantFrom, InvariantFacts

LEMMA BeginKeepsInvariant ==
    ASSUME DeliveryInvariant, NEW i \in Instances, NEW tp \in Subscription, BeginReservation(i, tp)
    PROVE  DeliveryInvariant'
  <1>1. /\ Deliverable(i, tp) /\ BeginHandling(i, tp) /\ UNCHANGED <<log, faults, processed>>
        /\ <<tp, group.position[tp]>> \notin processed[i]
    BY DEF BeginReservation, IsDuplicate
  <1>2. LogGrows /\ OrdersInPlace' /\ ProcessedWasSettled' /\ ProcessedInLog'
    BY <1>1, QuietStep
  <1>3. /\ GroupOK(Subscription)' /\ group' = group
        /\ inFlight' = inFlight \cup
             {[instance |-> i, tp |-> tp, offset |-> group.position[tp], live |-> TRUE]}
    BY <1>1, GroupBeginHandling, InvariantFacts
  <1>4. InFlightUnmarked'
    <2>1. ASSUME NEW n \in inFlight'
          PROVE  <<n.tp, n.offset>> \notin processed[n.instance]
      <3>1. CASE n \in inFlight
        BY <3>1, InvariantFacts DEF InFlightUnmarked
      <3>2. CASE n = [instance |-> i, tp |-> tp, offset |-> group.position[tp], live |-> TRUE]
        <4>1. n.instance = i /\ n.tp = tp /\ n.offset = group.position[tp]
          BY <3>2
        <4> QED BY <1>1, <4>1
      <3> QED BY <1>3, <3>1, <3>2
    <2> QED BY <1>1, <2>1 DEF InFlightUnmarked
  <1>5. DeliveredWasSettled'
    <2>1. \A t \in Subscription :
            /\ group.position[t] \in Nat /\ group.position[t] <= Len(log[t])
            /\ group.committed[t] \in Int /\ group.committed[t] <= Len(log[t])
      BY InvariantFacts, GroupFacts
    <2> QED BY <1>1, <1>2, <1>3, <2>1, DeliveredFrom
  <1> QED BY <1>1, <1>2, <1>3, <1>4, <1>5, InvariantFrom, InvariantFacts

(* An event handed to the RetryHandler ends up on one of its two topics.       *)
LEMMA FailureHandled ==
    ASSUME DeliveryInvariant, NEW o \in Orders,
           NEW topics \in [InventoryTopics \X Partitions -> Seq(Event)]
    PROVE  /\ Grows(topics, HandleFailedEvent(topics, o, 0))
           /\ \A tp \in DOMAIN topics :
                tp[1] \in {"orders.v1", "inventory.v1"} =>
                  HandleFailedEvent(topics, o, 0)[tp] = topics[tp]
           /\ \E topic \in {"orders.retry.v1", "orders.dlq.v1"} :
                \E n \in DOMAIN HandleFailedEvent(topics, o, 0)[<<topic, ErrorPartition>>] :
                  HandleFailedEvent(topics, o, 0)[<<topic, ErrorPartition>>][n].order = o
  <1> DEFINE after == HandleFailedEvent(topics, o, 0)
  <1>1. PICK topic \in {"orders.retry.v1", "orders.dlq.v1"}, kind \in {"OrderRetry", "OrderDLQ"} :
          after = Appended(topics, <<topic, ErrorPartition>>, [order |-> o, kind |-> kind])
    BY DEF HandleFailedEvent, DeadLettered, Retried, Appended
  <1>h. HIDE DEF after
  <1>2. <<topic, ErrorPartition>> \in DOMAIN topics
    BY ErrorTopics, InvariantFacts
  <1>3. [order |-> o, kind |-> kind] \in Event
    BY DEF Event, EventKinds
  <1>4. PICK event \in Event : event = [order |-> o, kind |-> kind]
    BY <1>3
  <1>t. PICK tp0 \in InventoryTopics \X Partitions : tp0 = <<topic, ErrorPartition>>
    BY <1>2
  <1>a. after = Appended(topics, tp0, event)
    BY <1>1, <1>4, <1>t
  <1>b. OneEventMore(InventoryTopics \X Partitions, topics, Appended(topics, tp0, event), tp0, event)
    BY AppendGrows
  <1>5. /\ Grows(topics, after)
        /\ \A t \in (InventoryTopics \X Partitions) \ {tp0} : after[t] = topics[t]
        /\ Len(topics[tp0]) + 1 \in DOMAIN after[tp0]
        /\ after[tp0][Len(topics[tp0]) + 1] = event
    BY <1>a, <1>b DEF OneEventMore
  <1>6. \A tp \in DOMAIN topics :
          tp[1] \in {"orders.v1", "inventory.v1"} => after[tp] = topics[tp]
    BY <1>5, <1>t
  <1>7. \E n \in DOMAIN after[<<topic, ErrorPartition>>] :
          after[<<topic, ErrorPartition>>][n].order = o
    BY <1>5, <1>4, <1>t
  <1> QED BY <1>5, <1>6, <1>7 DEF after

Sold(o) == Cardinality(EventsOf("inventory.v1", o, "InventoryReserved"))

(* An answer that is appended counts for its order and for no other.           *)
LEMMA AnswerAppended ==
    ASSUME DeliveryInvariant, NEW o \in Orders, NEW kind \in ReservationKinds, NEW p \in Orders
    PROVE  /\ log'[Keyed("inventory.v1", p)] = log[Keyed("inventory.v1", p)] =>
                Answers(p)' = Answers(p) /\ Sold(p)' = Sold(p)
           /\ log'[Keyed("inventory.v1", p)]
                  = Append(log[Keyed("inventory.v1", p)], [order |-> o, kind |-> kind]) =>
                /\ Answers(p)' = Answers(p) + (IF p = o THEN 1 ELSE 0)
                /\ Sold(p)' = Sold(p) + (IF p = o /\ kind = "InventoryReserved" THEN 1 ELSE 0)
  <1>1. ASSUME log'[Keyed("inventory.v1", p)] = log[Keyed("inventory.v1", p)]
        PROVE  Answers(p)' = Answers(p) /\ Sold(p)' = Sold(p)
    BY <1>1 DEF Answers, Sold, EventsOf, Keyed
  <1>2. ASSUME log'[Keyed("inventory.v1", p)]
                 = Append(log[Keyed("inventory.v1", p)], [order |-> o, kind |-> kind])
        PROVE  /\ Answers(p)' = Answers(p) + (IF p = o THEN 1 ELSE 0)
               /\ Sold(p)' = Sold(p) + (IF p = o /\ kind = "InventoryReserved" THEN 1 ELSE 0)
    <2>1. [order |-> o, kind |-> kind] \in Event
      BY DEF Event, EventKinds, AnswerKinds, ReservationKinds
    <2>2. Keyed("inventory.v1", p) \in DOMAIN log /\ LogOK
      BY TopicsKeyed, InvariantFacts DEF InventoryTopics
    <2>3. \A k \in ReservationKinds :
            Cardinality(EventsOf("inventory.v1", p, k)') =
              Cardinality(EventsOf("inventory.v1", p, k))
                + (IF [order |-> o, kind |-> kind] = [order |-> p, kind |-> k] THEN 1 ELSE 0)
      BY <1>2, <2>1, <2>2, EventsAppended
    <2>4. \A k \in ReservationKinds :
            [order |-> o, kind |-> kind] = [order |-> p, kind |-> k] <=> p = o /\ k = kind
      OBVIOUS
    <2>5. \A k \in ReservationKinds : Cardinality(EventsOf("inventory.v1", p, k)) \in Nat
      BY <2>2, EventsFinite
    <2> QED BY <2>3, <2>4, <2>5 DEF Answers, Sold, ReservationKinds
  <1> QED BY <1>1, <1>2

(* What a handler leaves on the topics: an answer or none, and then a failed   *)
(* event or none.                                                              *)
LEMMA TopicsAfterHandler ==
    ASSUME DeliveryInvariant, NEW o \in Orders, NEW kind \in ReservationKinds,
           NEW answered, answered = Appended(log, Keyed("inventory.v1", o),
                                             [order |-> o, kind |-> kind]),
           NEW topics \in {log, answered},
           log' \in {topics, HandleFailedEvent(topics, o, 0)}
    PROVE  /\ LogGrows
           /\ \A tp \in Subscription : log'[tp] = log[tp]
           /\ \A p \in Orders :
                /\ Answers(p)' \in {Answers(p), Answers(p) + 1}
                /\ p # o \/ topics = log => Answers(p)' = Answers(p)
                /\ Sold(p)' \in {Sold(p), Sold(p) + 1}
                /\ (p # o \/ topics = log \/ kind # "InventoryReserved") => Sold(p)' = Sold(p)
           /\ topics = answered \/ log' = HandleFailedEvent(topics, o, 0) => Settled(o)'
  <1> DEFINE tp0 == Keyed("inventory.v1", o)
             event == [order |-> o, kind |-> kind]
  <1>1. /\ DOMAIN log = InventoryTopics \X Partitions
        /\ log \in [DOMAIN log -> Seq(Event)]
    BY InvariantFacts DEF LogOK
  <1>2. tp0 \in DOMAIN log /\ event \in Event
    BY TopicsKeyed DEF InventoryTopics, Event, EventKinds, AnswerKinds, ReservationKinds
  <1>3. tp0[1] = "inventory.v1" /\ \A tp \in Subscription : tp \in DOMAIN log /\ tp[1] = "orders.v1"
    BY InvariantFacts, GroupFacts DEF Keyed, Subscription
  <1>4. \A p \in Orders : Keyed("inventory.v1", p) \in DOMAIN log
                           /\ Keyed("inventory.v1", p)[1] = "inventory.v1"
    BY TopicsKeyed DEF InventoryTopics, Keyed
  <1>5. answered = Appended(log, tp0, event)
    OBVIOUS
  <1>h. HIDE DEF tp0, event
  <1>6. /\ Grows(log, answered)
        /\ answered[tp0] = Append(log[tp0], event)
        /\ \A t \in DOMAIN log \ {tp0} : answered[t] = log[t]
    <2>1. PICK tps : tps = DOMAIN log
      OBVIOUS
    <2>2. log \in [tps -> Seq(Event)] /\ tp0 \in tps
      BY <1>1, <1>2, <2>1
    <2>3. OneEventMore(tps, log, Appended(log, tp0, event), tp0, event)
      BY <1>2, <2>2, AppendGrows
    <2> QED BY <1>5, <2>1, <2>3 DEF OneEventMore
  <1>7. Grows(log, topics) /\ topics \in [InventoryTopics \X Partitions -> Seq(Event)]
    BY <1>1, <1>6, GrowsReflexive DEF Grows
  <1>8. /\ Grows(topics, HandleFailedEvent(topics, o, 0))
        /\ \A tp \in DOMAIN topics :
              tp[1] \in {"orders.v1", "inventory.v1"} =>
                HandleFailedEvent(topics, o, 0)[tp] = topics[tp]
        /\ \E topic \in {"orders.retry.v1", "orders.dlq.v1"} :
              \E n \in DOMAIN HandleFailedEvent(topics, o, 0)[<<topic, ErrorPartition>>] :
                HandleFailedEvent(topics, o, 0)[<<topic, ErrorPartition>>][n].order = o
    BY <1>7, FailureHandled
  <1>9. Grows(log, HandleFailedEvent(topics, o, 0))
    BY <1>1, <1>7, <1>8, GrowsTransitive
  <1>10. LogGrows
    BY <1>7, <1>9 DEF Grows, LogGrows
  <1>11. \A tp \in DOMAIN log : tp[1] \in {"orders.v1", "inventory.v1"} => log'[tp] = topics[tp]
    BY <1>1, <1>7, <1>8
  <1>12. \A tp \in Subscription : log'[tp] = log[tp]
    BY <1>3, <1>6, <1>11
  <1>13. ASSUME NEW p \in Orders
         PROVE  /\ Answers(p)' \in {Answers(p), Answers(p) + 1}
                /\ p # o \/ topics = log => Answers(p)' = Answers(p)
                /\ p = o /\ topics = answered => Answers(p)' = Answers(p) + 1
                /\ Sold(p)' \in {Sold(p), Sold(p) + 1}
                /\ (p # o \/ topics = log \/ kind # "InventoryReserved") => Sold(p)' = Sold(p)
    <2>1. CASE topics = log /\ topics # answered
      BY <1>4, <1>11, <2>1, AnswerAppended
    <2>2. CASE topics = answered
      <3>1. CASE Keyed("inventory.v1", p) = tp0
        <4>1. log'[Keyed("inventory.v1", p)] = Append(log[Keyed("inventory.v1", p)], event)
          BY <1>4, <1>6, <1>11, <2>2, <3>1
        <4>2. /\ Answers(p)' = Answers(p) + (IF p = o THEN 1 ELSE 0)
              /\ Sold(p)' = Sold(p) + (IF p = o /\ kind = "InventoryReserved" THEN 1 ELSE 0)
          BY <4>1, AnswerAppended DEF event
        <4>3. Len(Append(log[tp0], event)) = Len(log[tp0]) + 1 /\ Len(log[tp0]) \in Nat
          BY <1>1, <1>2, AppendProperties, LenProperties
        <4>4. answered # log
          BY <1>6, <4>3
        <4>5. Answers(p) \in Nat /\ Sold(p) \in Nat
          <5>1. Keyed("inventory.v1", p) \in DOMAIN log /\ LogOK
            BY <1>4, InvariantFacts
          <5> QED BY <5>1, AnswersCounted, EventsFinite DEF Sold
        <4> QED BY <2>2, <4>2, <4>4, <4>5
      <3>2. CASE Keyed("inventory.v1", p) # tp0
        <4>1. p # o
          BY <3>2 DEF tp0
        <4>2. log'[Keyed("inventory.v1", p)] = log[Keyed("inventory.v1", p)]
          BY <1>4, <1>6, <1>11, <2>2, <3>2
        <4> QED BY <4>1, <4>2, AnswerAppended
      <3> QED BY <3>1, <3>2
    <2> QED BY <2>1, <2>2
  <1>14. topics = answered => Settled(o)'
    <2>1. Answers(o) \in Nat
      BY AnswersCounted
    <2>2. topics = answered => Answers(o)' > 0
      BY <1>13, <2>1
    <2> QED BY <2>2 DEF Settled
  <1>15. log' = HandleFailedEvent(topics, o, 0) => Settled(o)'
    BY <1>8 DEF Settled, InErrorTopic
  <1> QED BY <1>10, <1>12, <1>13, <1>14, <1>15

(* What a handler takes from the stock: nothing, without a reservation sent; or *)
(* what the reservation takes, and one is sent at most, if it succeeded.       *)
StockMoves(i, o) ==
    /\ \A p \in Orders : Sold(p)' \in {Sold(p), Sold(p) + 1} /\ (p # o => Sold(p)' = Sold(p))
    /\ \/ inventory' = inventory /\ \A p \in Orders : Sold(p)' = Sold(p)
       \/ LET taken == Reservation(inventory[i], ItemsOf[o])
          IN  /\ inventory' = [inventory EXCEPT ![i] = taken.shelf]
              /\ taken.success \/ \A p \in Orders : Sold(p)' = Sold(p)

(* How a handler ends: the order answered and its offset marked, the order     *)
(* handed to the RetryHandler, or a send rejected and counted as a fault.      *)
AnswerEnds(m, o) ==
    /\ o = EventOf(m).order /\ FinishHandling(m) /\ StockMoves(m.instance, o)
    /\ LogGrows /\ \A tp \in Subscription : log'[tp] = log[tp]
    /\ faults' \in [FaultKinds -> Nat]
    /\ \A k \in FaultKinds \ {"send"} : faults'[k] = faults[k]
    /\ \A p \in Orders :
          Answers(p)' \in {Answers(p), Answers(p) + 1} /\ (p # o => Answers(p)' = Answers(p))
    /\ \/ /\ faults' = faults /\ Settled(o)'
          /\ processed' = [processed EXCEPT ![m.instance] = @ \cup {<<m.tp, m.offset>>}]
       \/ /\ faults' = faults /\ Settled(o)' /\ processed' = processed
          /\ \A p \in Orders : Answers(p)' = Answers(p)
       \/ faults'["send"] = faults["send"] + 1 /\ processed' = processed

LEMMA AnswerFacts ==
    ASSUME DeliveryInvariant, Answer
    PROVE  \E m \in inFlight : \E o \in Orders : AnswerEnds(m, o)
  <1>1. PICK m \in inFlight :
          ReserveAndAnswer(m) \/ ReservationFails(m) \/ RetrySendFails(m) \/ AnswerFails(m)
    BY DEF Answer
  <1>2. PICK o \in Orders : o = EventOf(m).order
    BY HandledEvent, InvariantFacts DEF Event
  <1>3. PICK kind \in ReservationKinds : kind = AnswerKind(m)
    BY DEF AnswerKind, ReservationKinds
  <1>s. /\ Attempt(m) = Reservation(inventory[m.instance], ItemsOf[o])
        /\ kind # "InventoryReserved" => ~Attempt(m).success
        /\ kind = "InventoryReserved" => Attempt(m).success
    <2>1. Attempt(m) = Reservation(inventory[m.instance], ItemsOf[o])
      BY <1>2, Zenon DEF Attempt
    <2> QED BY <1>3, <2>1 DEF AnswerKind
  <1>4. PICK answered :
          answered = Appended(log, Keyed("inventory.v1", o), [order |-> o, kind |-> kind])
    OBVIOUS
  <1>5. "send" \in FaultKinds
    BY DEF FaultKinds
  <1>6. Fault("send") =>
          /\ faults' \in [FaultKinds -> Nat] /\ faults'["send"] = faults["send"] + 1
          /\ \A k \in FaultKinds \ {"send"} : faults'[k] = faults[k]
    BY <1>5, FaultCounted, InvariantFacts
  <1>7. CASE ReserveAndAnswer(m)
    <2>1. log' = answered
      BY <1>2, <1>3, <1>4, <1>7 DEF ReserveAndAnswer, Send, Appended, Keyed
    <2>2. /\ LogGrows /\ \A tp \in Subscription : log'[tp] = log[tp]
          /\ \A p \in Orders : Answers(p)' \in {Answers(p), Answers(p) + 1}
                                /\ (p # o => Answers(p)' = Answers(p))
          /\ \A p \in Orders : /\ Sold(p)' \in {Sold(p), Sold(p) + 1}
                               /\ p # o \/ kind # "InventoryReserved" => Sold(p)' = Sold(p)
          /\ Settled(o)'
      BY <1>4, <2>1, TopicsAfterHandler
    <2>3. inventory' = [inventory EXCEPT ![m.instance] = Attempt(m).shelf]
      BY <1>7 DEF ReserveAndAnswer
    <2>4. StockMoves(m.instance, o)
      <3>1. Attempt(m).success \/ \A p \in Orders : Sold(p)' = Sold(p)
        BY <1>s, <2>2
      <3>2. \A p \in Orders : /\ Sold(p)' \in {Sold(p), Sold(p) + 1}
                              /\ p # o => Sold(p)' = Sold(p)
        BY <2>2
      <3>3. /\ inventory' = [inventory EXCEPT ![m.instance] =
                                Reservation(inventory[m.instance], ItemsOf[o]).shelf]
            /\ Reservation(inventory[m.instance], ItemsOf[o]).success
               \/ \A p \in Orders : Sold(p)' = Sold(p)
        BY <1>s, <2>3, <3>1, Zenon
      <3> QED BY <3>2, <3>3, Zenon DEF StockMoves
    <2> QED BY <1>2, <1>7, <2>2, <2>4, InvariantFacts DEF ReserveAndAnswer, AnswerEnds
  <1>8. CASE ReservationFails(m)
    <2>1. log' = HandleFailedEvent(log, o, 0)
      BY <1>2, <1>8 DEF ReservationFails
    <2>2. /\ LogGrows /\ \A tp \in Subscription : log'[tp] = log[tp]
          /\ \A p \in Orders : Answers(p)' = Answers(p) /\ Sold(p)' = Sold(p)
          /\ Settled(o)'
      BY <1>4, <2>1, TopicsAfterHandler
    <2>3. StockMoves(m.instance, o)
      BY <1>8, <2>2 DEF StockMoves, ReservationFails
    <2> QED BY <1>2, <1>8, <2>2, <2>3, InvariantFacts DEF ReservationFails, AnswerEnds
  <1>9. CASE RetrySendFails(m)
    <2>1. log' \in {log, HandleFailedEvent(log, o, 0)}
      BY <1>2, <1>9 DEF RetrySendFails
    <2>2. /\ LogGrows /\ \A tp \in Subscription : log'[tp] = log[tp]
          /\ \A p \in Orders : Answers(p)' = Answers(p) /\ Sold(p)' = Sold(p)
      BY <1>4, <2>1, TopicsAfterHandler
    <2>3. StockMoves(m.instance, o)
      BY <1>9, <2>2 DEF StockMoves, RetrySendFails
    <2> QED BY <1>2, <1>6, <1>9, <2>2, <2>3 DEF RetrySendFails, AnswerEnds
  <1>10. CASE AnswerFails(m)
    <2>1. PICK topics \in {log, answered} :
            log' \in {topics, HandleFailedEvent(topics, o, 0)}
      BY <1>2, <1>3, <1>4, <1>10 DEF AnswerFails, Appended, Keyed
    <2>2. /\ LogGrows /\ \A tp \in Subscription : log'[tp] = log[tp]
          /\ \A p \in Orders : Answers(p)' \in {Answers(p), Answers(p) + 1}
                                /\ (p # o => Answers(p)' = Answers(p))
          /\ \A p \in Orders : /\ Sold(p)' \in {Sold(p), Sold(p) + 1}
                               /\ p # o \/ kind # "InventoryReserved" => Sold(p)' = Sold(p)
      BY <1>4, <2>1, TopicsAfterHandler
    <2>3. inventory' = [inventory EXCEPT ![m.instance] = Attempt(m).shelf]
      BY <1>10 DEF AnswerFails
    <2>4. StockMoves(m.instance, o)
      <3>1. Attempt(m).success \/ \A p \in Orders : Sold(p)' = Sold(p)
        BY <1>s, <2>2
      <3>2. \A p \in Orders : /\ Sold(p)' \in {Sold(p), Sold(p) + 1}
                              /\ p # o => Sold(p)' = Sold(p)
        BY <2>2
      <3>3. /\ inventory' = [inventory EXCEPT ![m.instance] =
                                Reservation(inventory[m.instance], ItemsOf[o]).shelf]
            /\ Reservation(inventory[m.instance], ItemsOf[o]).success
               \/ \A p \in Orders : Sold(p)' = Sold(p)
        BY <1>s, <2>3, <3>1, Zenon
      <3> QED BY <3>2, <3>3, Zenon DEF StockMoves
    <2> QED BY <1>2, <1>6, <1>10, <2>2, <2>4 DEF AnswerFails, AnswerEnds
  <1> QED BY <1>1, <1>7, <1>8, <1>9, <1>10

LEMMA AnswerKeepsInvariant ==
    ASSUME DeliveryInvariant, Answer
    PROVE  DeliveryInvariant'
  <1>1. PICK m \in inFlight : \E p \in Orders : AnswerEnds(m, p)
    BY AnswerFacts
  <1>2. PICK o \in Orders : AnswerEnds(m, o)
    BY <1>1
  <1>3. /\ o = EventOf(m).order
        /\ faults' \in [FaultKinds -> Nat]
        /\ FinishHandling(m)
        /\ \/ /\ faults' = faults /\ Settled(o)'
              /\ processed' = [processed EXCEPT ![m.instance] = @ \cup {<<m.tp, m.offset>>}]
           \/ faults' = faults /\ Settled(o)' /\ processed' = processed
           \/ faults'["send"] = faults["send"] + 1 /\ processed' = processed
    BY <1>2 DEF AnswerEnds
  <1>5. LogGrows
    BY <1>2 DEF AnswerEnds
  <1>6. \A tp \in Subscription : log'[tp] = log[tp]
    BY <1>2 DEF AnswerEnds
  <1>7. /\ GroupOK(Subscription)' /\ inFlight' = inFlight \ {m}
        /\ group'.committed = group.committed
        /\ group'.position = IF m.live THEN [group.position EXCEPT ![m.tp] = @ + 1]
                                       ELSE group.position
    BY <1>3, <1>5, GroupFinishHandling, InvariantFacts
  <1>9. /\ m.instance \in Instances /\ m.tp \in Subscription /\ m.offset \in Nat
        /\ m.offset + 1 \in DOMAIN log[m.tp] /\ EventOf(m) = log[m.tp][m.offset + 1]
        /\ m.offset < Len(log[m.tp]) /\ m.live => group.position[m.tp] = m.offset
        /\ \A n \in inFlight : n.instance = m.instance => n = m
    BY InvariantFacts, GroupFacts, HandledEvent
  <1>10. processed' \in [Instances -> SUBSET (Subscription \X Nat)]
    <2>1. processed[m.instance] \cup {<<m.tp, m.offset>>} \in SUBSET (Subscription \X Nat)
      BY <1>9, InvariantFacts
    <2> QED BY <1>3, <2>1, InvariantFacts
  <1>11. \A i \in Instances : \A entry \in processed'[i] :
           entry \in processed[i] \/ (i = m.instance /\ entry = <<m.tp, m.offset>> /\ Settled(o)')
    BY <1>3, <1>9, InvariantFacts
  <1>12. ProcessedWasSettled' /\ ProcessedInLog'
    <2>1. ASSUME NEW i \in Instances, NEW entry \in processed'[i]
          PROVE  /\ Settled(log[entry[1]][entry[2] + 1].order)'
                 /\ entry[2] < Len(log'[entry[1]])
      <3>1. CASE entry \in processed[i]
        <4>1. PICK p \in Orders : p = log[entry[1]][entry[2] + 1].order
          BY <1>5, <3>1, EntryAt
        <4>2. Settled(p)
          BY <3>1, <4>1, InvariantFacts DEF ProcessedWasSettled
        <4>3. Settled(p)'
          BY <1>5, <4>2, SettledStays
        <4>4. p = log'[entry[1]][entry[2] + 1].order
          BY <1>5, <3>1, <4>1, EntryAt
        <4> QED BY <1>5, <3>1, <4>3, <4>4, EntryAt
      <3>2. CASE entry = <<m.tp, m.offset>> /\ Settled(o)'
        <4>1. o = log'[m.tp][m.offset + 1].order
          BY <1>3, <1>6, <1>9
        <4>2. m.offset < Len(log'[m.tp])
          BY <1>6, <1>9
        <4> QED BY <3>2, <4>1, <4>2
      <3> QED BY <1>11, <3>1, <3>2
    <2> QED BY <2>1 DEF ProcessedWasSettled, ProcessedInLog
  <1>13. OrdersInPlace'
    BY <1>6, OrdersKept
  <1>14. InFlightUnmarked'
    <2>1. ASSUME NEW n \in inFlight'
          PROVE  <<n.tp, n.offset>> \notin processed'[n.instance]
      <3>1. n \in inFlight /\ n.instance \in Instances /\ n.instance # m.instance
        BY <1>7, <1>9, InvariantFacts, GroupFacts
      <3>2. processed'[n.instance] = processed[n.instance]
        BY <1>3, <3>1, InvariantFacts
      <3> QED BY <3>1, <3>2, InvariantFacts DEF InFlightUnmarked
    <2> QED BY <2>1 DEF InFlightUnmarked
  <1>15. DeliveredWasSettled'
    <2>1. ASSUME NEW t \in Subscription, NEW n \in DOMAIN log[t],
                 n <= group'.position[t], ~(n <= group.position[t])
          PROVE  t = m.tp /\ n = m.offset + 1
      <3>1. n \in Nat /\ group.position \in [Subscription -> Nat]
        BY LogFacts, InvariantFacts, GroupFacts DEF GroupRecord
      <3> QED BY <1>7, <1>9, <2>1, <3>1
    <2>2. faults["send"] \in Nat /\ faults'["send"] \in Nat
      BY <1>3, InvariantFacts DEF FaultKinds
    <2>3. faults'["send"] = 0 => faults["send"] = 0 /\ Settled(o)'
      BY <1>3, <2>2
    <2>4. ASSUME NEW tp \in Subscription, NEW n \in DOMAIN log'[tp],
                 n <= group'.position[tp] \/ n <= group'.committed[tp]
          PROVE  /\ n \in DOMAIN log[tp]
                 /\ \/ n <= group.position[tp] \/ n <= group.committed[tp]
                    \/ faults'["send"] > 0
                    \/ \E p \in Orders : p = log[tp][n].order /\ Settled(p)'
      <3>1. n \in DOMAIN log[tp]
        BY <1>6, <2>4
      <3>2. CASE n <= group'.position[tp] /\ ~(n <= group.position[tp])
        <4>1. tp = m.tp /\ n = m.offset + 1
          BY <3>1, <3>2, <2>1
        <4> QED BY <1>3, <1>9, <2>2, <2>3, <3>1, <4>1
      <3> QED BY <1>7, <2>4, <3>1, <3>2
    <2> QED BY <1>5, <1>7, <2>3, <2>4, DeliveredFrom
  <1> QED BY <1>3, <1>5, <1>7, <1>10, <1>12, <1>13, <1>14, <1>15, InvariantFrom

LEMMA CommitKeepsInvariant ==
    ASSUME DeliveryInvariant, NEW i \in Instances, Commit(i)
    PROVE  DeliveryInvariant'
  <1>1. AutoCommit(i) /\ UNCHANGED processed
    BY DEF Commit
  <1>2. /\ GroupOK(Subscription)' /\ UNCHANGED <<log, faults, inFlight>>
        /\ group'.position = group.position
        /\ \A tp \in Subscription :
              group'.committed[tp] \in {group.committed[tp], group.position[tp]}
    BY <1>1, GroupAutoCommit, InvariantFacts
  <1>3. LogGrows /\ OrdersInPlace' /\ ProcessedWasSettled' /\ ProcessedInLog'
    BY <1>1, <1>2, QuietStep
  <1>4. InFlightUnmarked'
    BY <1>1, <1>2, InvariantFacts DEF InFlightUnmarked
  <1>5. DeliveredWasSettled'
    <2>1. \A tp \in Subscription : group.position[tp] \in Nat
      BY InvariantFacts, GroupFacts
    <2> QED BY <1>2, <1>3, <2>1, DeliveredFrom DEF NoOffset
  <1> QED BY <1>1, <1>2, <1>3, <1>4, <1>5, InvariantFrom, InvariantFacts

(* The members rejoin, with the memory they have left.                         *)
LEMMA RejoinKeepsInvariant ==
    ASSUME DeliveryInvariant, NEW kind \in {"rebalance", "crash", "replay"}, Fault(kind),
           NEW survivors, NEW committed,
           committed \in {group.committed, ResetToEarliest(group.committed)},
           Rejoin(survivors, committed),
           processed' \in [Instances -> SUBSET (Subscription \X Nat)],
           \A i \in Instances : processed'[i] \subseteq processed[i]
    PROVE  DeliveryInvariant'
  <1>0. kind \in FaultKinds /\ "send" \in FaultKinds \ {kind}
    BY DEF FaultKinds
  <1>1. /\ GroupOK(Subscription)' /\ UNCHANGED log
        /\ faults' \in [FaultKinds -> Nat] /\ faults'["send"] = faults["send"]
        /\ \A m \in inFlight' : \E n \in inFlight :
              m.instance = n.instance /\ m.tp = n.tp /\ m.offset = n.offset
        /\ \A tp \in Subscription : group.committed[tp] # NoOffset =>
             /\ group'.committed[tp] # NoOffset
             /\ group'.committed[tp] <= group.committed[tp]
             /\ group'.position[tp] <= group.committed[tp]
    BY <1>0, GroupRejoins, InvariantFacts
  <1>2. LogGrows /\ OrdersInPlace' /\ ProcessedWasSettled' /\ ProcessedInLog'
    BY <1>1, QuietStep
  <1>3. InFlightUnmarked'
    <2>1. ASSUME NEW m \in inFlight'
          PROVE  <<m.tp, m.offset>> \notin processed'[m.instance]
      <3>1. PICK n \in inFlight : m.instance = n.instance /\ m.tp = n.tp /\ m.offset = n.offset
        BY <1>1
      <3>2. <<n.tp, n.offset>> \notin processed[n.instance] /\ n.instance \in Instances
        BY InvariantFacts, GroupFacts DEF InFlightUnmarked
      <3> QED BY <3>1, <3>2
    <2> QED BY <2>1 DEF InFlightUnmarked
  <1>4. DeliveredWasSettled'
    <2>1. ASSUME faults["send"] = 0, InitialCommitted = 0, NEW tp \in Subscription
          PROVE  /\ group'.committed[tp] # NoOffset
                 /\ \A n \in DOMAIN log'[tp] :
                      n <= group'.position[tp] \/ n <= group'.committed[tp] =>
                        n \in DOMAIN log[tp] /\ n <= group.committed[tp]
      <3>1. group.committed[tp] # NoOffset
        BY <2>1, InvariantFacts DEF DeliveredWasSettled
      <3>2. /\ group'.position[tp] \in Nat /\ group'.committed[tp] \in Int
            /\ group.committed[tp] \in Int
        BY <1>1, GroupFacts, InvariantFacts DEF GroupOK, GroupType, NoOffset
      <3>3. \A n \in DOMAIN log[tp] : n \in Nat
        BY LogFacts, InvariantFacts, GroupFacts
      <3> QED BY <1>1, <3>1, <3>2, <3>3
    <2> QED BY <1>1, <1>2, <2>1, DeliveredFrom
  <1> QED BY <1>1, <1>2, <1>3, <1>4, InvariantFrom

LEMMA InventoryInit ==
    ASSUME Init
    PROVE  DeliveryInvariant
  <1>1. Subscription \subseteq InventoryTopics \X Partitions
    BY DEF Subscription, InventoryTopics
  <1>2. /\ GroupOK(Subscription) /\ faults \in [FaultKinds -> Nat]
        /\ DOMAIN log = InventoryTopics \X Partitions
        /\ \A tp \in DOMAIN log : DOMAIN log[tp] = {} /\ Len(log[tp]) = 0
        /\ \A tp \in Subscription : group.committed[tp] = InitialCommitted
        /\ inFlight = {}
    BY <1>1, GroupStarts DEF Init
  <1>3. \A tp \in Subscription : DOMAIN log[tp] = {}
    BY <1>1, <1>2
  <1>4. /\ TopicsType(InventoryTopics) /\ GroupType(Subscription) /\ GroupBounds
        /\ processed \in [Instances -> SUBSET (Subscription \X Nat)]
    BY <1>2 DEF TopicsType, GroupOK, LogOK, Init
  <1>5. ProcessedWasSettled /\ ProcessedInLog
    BY DEF Init, ProcessedWasSettled, ProcessedInLog
  <1>6. OrdersInPlace /\ InFlightUnmarked /\ DeliveredWasSettled
    BY <1>2, <1>3 DEF OrdersInPlace, InFlightUnmarked, DeliveredWasSettled, NoOffset
  <1> QED BY <1>4, <1>5, <1>6 DEF DeliveryInvariant

LEMMA InventoryStutter ==
    ASSUME DeliveryInvariant, UNCHANGED vars
    PROVE  DeliveryInvariant'
  <1>1. UNCHANGED <<log, faults, group, inFlight, processed>>
    BY DEF vars
  <1>2. LogGrows /\ OrdersInPlace' /\ ProcessedWasSettled' /\ ProcessedInLog'
    BY <1>1, QuietStep
  <1>3. GroupOK(Subscription)'
    BY <1>1, <1>2, GroupKept, InvariantFacts
  <1>4. InFlightUnmarked'
    BY <1>1, InvariantFacts DEF InFlightUnmarked
  <1>5. DeliveredWasSettled'
    BY <1>1, <1>2, DeliveredFrom
  <1> QED BY <1>1, <1>2, <1>3, <1>4, <1>5, InvariantFrom, InvariantFacts

(* Every step keeps the invariant.                                             *)
LEMMA InventoryNext ==
    ASSUME DeliveryInvariant, [Next]_vars
    PROVE  DeliveryInvariant'
  <1>1. ASSUME NEW o \in Orders, CustomerPlaces(o)
        PROVE  DeliveryInvariant'
    BY <1>1, PlacementKeepsInvariant
  <1>2. ASSUME NEW i \in Instances, Handle(i)
        PROVE  DeliveryInvariant'
    BY <1>2, SkipKeepsInvariant, BeginKeepsInvariant DEF Handle
  <1>3. ASSUME NEW i \in Instances, Commit(i)
        PROVE  DeliveryInvariant'
    BY <1>3, CommitKeepsInvariant
  <1>4. ASSUME NEW i \in Instances, Crash(i)
        PROVE  DeliveryInvariant'
    <2>1. /\ Fault("crash") /\ Rejoin(Instances \ {i}, group.committed)
          /\ processed' = [processed EXCEPT ![i] = {}]
      BY <1>4 DEF Crash, CrashAndRejoin
    <2>2. /\ processed' \in [Instances -> SUBSET (Subscription \X Nat)]
          /\ \A j \in Instances : processed'[j] \subseteq processed[j]
      BY <2>1, InvariantFacts
    <2> QED BY <2>1, <2>2, RejoinKeepsInvariant
  <1>5. CASE Answer
    BY <1>5, AnswerKeepsInvariant
  <1>6. CASE GroupRebalances
    <2>1. Fault("rebalance") /\ Rejoin(Instances, group.committed) /\ processed' = processed
      BY <1>6 DEF GroupRebalances, Rebalance
    <2> QED BY <2>1, InvariantFacts, RejoinKeepsInvariant
  <1>7. CASE ReplayOrders
    <2>1. /\ Fault("replay") /\ Rejoin({}, ResetToEarliest(group.committed))
          /\ processed' = [i \in Instances |-> {}]
      BY <1>7 DEF ReplayOrders, Replay
    <2>2. /\ processed' \in [Instances -> SUBSET (Subscription \X Nat)]
          /\ \A j \in Instances : processed'[j] \subseteq processed[j]
      BY <2>1
    <2> QED BY <2>1, <2>2, RejoinKeepsInvariant
  <1>8. CASE UNCHANGED vars
    BY <1>8, InventoryStutter
  <1> QED BY <1>1, <1>2, <1>3, <1>4, <1>5, <1>6, <1>7, <1>8 DEF Next, InventoryStep

(* Under every fault: what an instance takes for a duplicate was answered or   *)
(* handed to the RetryHandler, an order is on its topic once, and until a send *)
(* is rejected everything that was delivered or committed was settled          *)
(* (handleOrderPlaced's two catch blocks, isDuplicate, markProcessed).         *)
THEOREM DeliveryHolds == Spec => []DeliveryInvariant
  <1>1. Init => DeliveryInvariant
    BY InventoryInit
  <1>2. DeliveryInvariant /\ [Next]_vars => DeliveryInvariant'
    BY InventoryNext
  <1> QED BY <1>1, <1>2, PTL DEF Spec

(* A service whose group has committed before loses no order: an offset is     *)
(* committed only when its order was answered or is on the retry or the dead   *)
(* letter topic, through any number of rebalances, crashes, replays and        *)
(* simulated failures, unless a send was rejected (handleOrderPlaced).         *)
THEOREM NoOrderLost ==
    ASSUME InitialCommitted = 0
    PROVE  Spec => []CommittedWasSettled
  <1>1. DeliveryInvariant => CommittedWasSettled
    <2>1. ASSUME DeliveryInvariant, faults["send"] = 0, NEW tp \in Subscription,
                 NEW n \in 1..Len(log[tp]), n <= group.committed[tp]
          PROVE  Settled(log[tp][n].order)
      <3>1. n \in DOMAIN log[tp]
        BY <2>1, LogFacts, InvariantFacts, GroupFacts
      <3> QED BY <2>1, <3>1, InvariantFacts DEF DeliveredWasSettled
    <2> QED BY <2>1 DEF CommittedWasSettled
  <1> QED BY <1>1, DeliveryHolds, PTL

-----------------------------------------------------------------------------
(* How often an order is reserved                                              *)

LEMMA MemoryFacts ==
    ASSUME DeliveryInvariant, NEW o \in Orders
    PROVE  /\ IsFiniteSet(Remembering(o)) /\ Cardinality(Remembering(o)) \in Nat
           /\ Cardinality(Instances) \in Nat
           /\ Cardinality(Remembering(o)) <= Cardinality(Instances)
           /\ DeadProcesses \in Nat /\ faults["send"] \in Nat
           /\ Answers(o) \in Nat
  <1>1. Remembering(o) \subseteq Instances
    BY DEF Remembering
  <1>2. /\ IsFiniteSet(Remembering(o)) /\ Cardinality(Remembering(o)) \in Nat
        /\ Cardinality(Instances) \in Nat
        /\ Cardinality(Remembering(o)) <= Cardinality(Instances)
    BY <1>1, FS_Subset, FS_CardinalityType
  <1>3. faults["crash"] \in Nat /\ faults["replay"] \in Nat /\ faults["send"] \in Nat
    BY InvariantFacts DEF FaultKinds
  <1>4. Keyed("inventory.v1", o) \in DOMAIN log /\ LogOK
    BY TopicsKeyed, InvariantFacts DEF InventoryTopics
  <1>5. \A kind \in ReservationKinds : Cardinality(EventsOf("inventory.v1", o, kind)) \in Nat
    BY <1>4, EventsFinite
  <1>6. Answers(o) \in Nat
    BY <1>5 DEF Answers, ReservationKinds
  <1>7. DeadProcesses \in Nat
    BY <1>2, <1>3 DEF DeadProcesses
  <1> QED BY <1>2, <1>3, <1>6, <1>7

(* A process that keeps its cache keeps remembering.                           *)
LEMMA StillRemembering ==
    ASSUME DeliveryInvariant, LogGrows, NEW o \in Orders, NEW i \in Instances
    PROVE  /\ i \in Remembering(o) /\ processed[i] \subseteq processed'[i] => i \in Remembering(o)'
           /\ i \in Remembering(o)' /\ processed'[i] \subseteq processed[i] => i \in Remembering(o)
  BY EntryAt DEF Remembering

LEMMA RememberingKept ==
    ASSUME DeliveryInvariant, LogGrows, processed' = processed, NEW o \in Orders
    PROVE  Remembering(o)' = Remembering(o)
  <1>1. Remembering(o) \subseteq Instances /\ Remembering(o)' \subseteq Instances
    BY DEF Remembering
  <1> QED BY <1>1, StillRemembering

(* The process that answers an order does not remember it: its cache would     *)
(* hold the one offset of the order, the offset it is working on.              *)
LEMMA AnsweringForgot ==
    ASSUME DeliveryInvariant, NEW m \in inFlight, NEW o \in Orders, o = EventOf(m).order
    PROVE  m.instance \notin Remembering(o)
  <1>1. SUFFICES ASSUME NEW entry \in processed[m.instance],
                        log[entry[1]][entry[2] + 1].order = o
                 PROVE  FALSE
    BY DEF Remembering
  <1>2. /\ m.instance \in Instances /\ m.tp \in Subscription /\ m.offset \in Nat
        /\ m.offset + 1 \in DOMAIN log[m.tp] /\ EventOf(m) = log[m.tp][m.offset + 1]
    BY InvariantFacts, GroupFacts, HandledEvent
  <1>3. entry[1] \in Subscription /\ entry[2] \in Nat /\ entry = <<entry[1], entry[2]>>
        /\ entry[2] + 1 \in DOMAIN log[entry[1]]
    <2>1. entry[1] \in Subscription /\ entry[2] \in Nat /\ entry = <<entry[1], entry[2]>>
          /\ entry[2] < Len(log[entry[1]])
      BY <1>2, InvariantFacts DEF ProcessedInLog
    <2> QED BY <2>1, LogFacts, InvariantFacts, GroupFacts
  <1>4. entry[1][2] = PartitionOf[o] /\ m.tp[2] = PartitionOf[o]
    BY <1>1, <1>2, <1>3, InvariantFacts DEF OrdersInPlace
  <1>5. entry[1] = m.tp
    BY <1>2, <1>3, <1>4 DEF Subscription
  <1>6. entry[2] + 1 = m.offset + 1
    BY <1>1, <1>2, <1>3, <1>5, InvariantFacts DEF OrdersInPlace
  <1>7. entry = <<m.tp, m.offset>>
    BY <1>2, <1>3, <1>5, <1>6
  <1> QED BY <1>7, InvariantFacts DEF InFlightUnmarked

LEMMA AnswerReserves ==
    ASSUME DeliveryInvariant, ReservedOncePerProcess, Answer
    PROVE  ReservedOncePerProcess'
  <1>1. PICK m \in inFlight : \E p \in Orders : AnswerEnds(m, p)
    BY AnswerFacts
  <1>2. PICK o \in Orders : AnswerEnds(m, o)
    BY <1>1
  <1>3. /\ o = EventOf(m).order
        /\ \A k \in FaultKinds \ {"send"} : faults'[k] = faults[k]
        /\ \A p \in Orders : Answers(p)' \in {Answers(p), Answers(p) + 1}
                              /\ (p # o => Answers(p)' = Answers(p))
        /\ \/ /\ faults' = faults
              /\ processed' = [processed EXCEPT ![m.instance] = @ \cup {<<m.tp, m.offset>>}]
           \/ /\ faults' = faults /\ processed' = processed
              /\ \A p \in Orders : Answers(p)' = Answers(p)
           \/ faults'["send"] = faults["send"] + 1 /\ processed' = processed
    BY <1>2 DEF AnswerEnds
  <1>5. LogGrows
    BY <1>2 DEF AnswerEnds
  <1>6. DeadProcesses' = DeadProcesses
    BY <1>3 DEF DeadProcesses, FaultKinds
  <1>7. ASSUME NEW p \in Orders
        PROVE  Answers(p)' <= Cardinality(Remembering(p))' + DeadProcesses' + faults'["send"]
    <2>1. /\ Answers(p) <= Cardinality(Remembering(p)) + DeadProcesses + faults["send"]
          /\ Cardinality(Remembering(p)) \in Nat /\ IsFiniteSet(Remembering(p))
          /\ Answers(p) \in Nat /\ DeadProcesses \in Nat /\ faults["send"] \in Nat
      BY MemoryFacts DEF ReservedOncePerProcess
    <2>2. Answers(p)' \in {Answers(p), Answers(p) + 1} /\ (p # o => Answers(p)' = Answers(p))
      BY <1>3
    <2>3. CASE faults'["send"] = faults["send"] + 1 /\ processed' = processed
      <3>1. Remembering(p)' = Remembering(p)
        BY <1>5, <2>3, RememberingKept
      <3> QED BY <1>3, <1>6, <2>1, <2>2, <2>3, <3>1
    <2>4. CASE /\ faults' = faults
               /\ processed' = [processed EXCEPT ![m.instance] = @ \cup {<<m.tp, m.offset>>}]
      <3>1. m.instance \in Instances
        BY InvariantFacts, GroupFacts
      <3>2. \A i \in Instances : processed[i] \subseteq processed'[i]
        BY <2>4, InvariantFacts
      <3>3. /\ Remembering(p) \subseteq Remembering(p)'
            /\ IsFiniteSet(Remembering(p)') /\ Cardinality(Remembering(p)') \in Nat
        <4>1. Remembering(p) \subseteq Instances /\ Remembering(p)' \subseteq Instances
          BY DEF Remembering
        <4>2. Remembering(p) \subseteq Remembering(p)'
          BY <1>5, <3>2, <4>1, StillRemembering
        <4> QED BY <4>1, <4>2, FS_Subset, FS_CardinalityType
      <3>4. CASE p # o
        <4>1. Cardinality(Remembering(p)) <= Cardinality(Remembering(p)')
          BY <3>3, FS_Subset
        <4> QED BY <1>6, <2>1, <2>2, <2>4, <3>3, <3>4, <4>1
      <3>5. CASE p = o
        <4>1. m.instance \in Remembering(p)'
          <5>1. <<m.tp, m.offset>> \in processed'[m.instance]
            BY <2>4, <3>1, InvariantFacts
          <5>2. log'[m.tp][m.offset + 1].order = o
            <6>1. /\ m.tp \in Subscription /\ m.offset + 1 \in DOMAIN log[m.tp]
                  /\ EventOf(m) = log[m.tp][m.offset + 1]
              BY InvariantFacts, GroupFacts, HandledEvent
            <6> QED BY <1>3, <1>5, <6>1, OrderAt
          <5> QED BY <3>1, <3>5, <5>1, <5>2 DEF Remembering
        <4>2. m.instance \notin Remembering(p)
          BY <1>3, <3>5, AnsweringForgot
        <4>3. Remembering(p) \cup {m.instance} \subseteq Remembering(p)'
          BY <3>3, <4>1
        <4>4. /\ IsFiniteSet(Remembering(p) \cup {m.instance})
              /\ Cardinality(Remembering(p) \cup {m.instance}) = Cardinality(Remembering(p)) + 1
          BY <2>1, <4>2, FS_AddElement
        <4>5. Cardinality(Remembering(p) \cup {m.instance}) <= Cardinality(Remembering(p)')
          BY <3>3, <4>3, FS_Subset
        <4> QED BY <1>6, <2>1, <2>2, <2>4, <3>3, <3>5, <4>4, <4>5
      <3> QED BY <3>4, <3>5
    <2>5. CASE /\ faults' = faults /\ processed' = processed
               /\ \A q \in Orders : Answers(q)' = Answers(q)
      <3>1. Remembering(p)' = Remembering(p)
        BY <1>5, <2>5, RememberingKept
      <3> QED BY <1>6, <2>1, <2>5, <3>1
    <2> QED BY <1>3, <2>3, <2>4, <2>5
  <1> QED BY <1>7 DEF ReservedOncePerProcess

(* A step that sends no answer reserves nothing; what it may cost is memory.   *)
LEMMA NoReservation ==
    ASSUME DeliveryInvariant, ReservedOncePerProcess, faults' \in [FaultKinds -> Nat],
           faults'["send"] = faults["send"],
           \A o \in Orders :
             /\ Answers(o)' = Answers(o)
             /\ Cardinality(Remembering(o)) + DeadProcesses
                  <= Cardinality(Remembering(o))' + DeadProcesses'
    PROVE  ReservedOncePerProcess'
  <1>1. ASSUME NEW o \in Orders
        PROVE  Answers(o)' <= Cardinality(Remembering(o))' + DeadProcesses' + faults'["send"]
    <2>1. /\ Answers(o) \in Nat /\ Cardinality(Remembering(o)) \in Nat
          /\ DeadProcesses \in Nat /\ faults["send"] \in Nat
      BY MemoryFacts
    <2>2. Cardinality(Remembering(o))' \in Nat
      <3>1. IsFiniteSet(Remembering(o)') /\ Remembering(o)' \subseteq Instances
        BY FS_Subset DEF Remembering
      <3> QED BY <3>1, FS_CardinalityType
    <2>3. DeadProcesses' \in Nat
      <3>1. faults'["crash"] \in Nat /\ faults'["replay"] \in Nat /\ Cardinality(Instances) \in Nat
        BY FS_CardinalityType DEF FaultKinds
      <3> QED BY <3>1 DEF DeadProcesses
    <2> QED BY <2>1, <2>2, <2>3 DEF ReservedOncePerProcess
  <1> QED BY <1>1 DEF ReservedOncePerProcess

LEMMA ReservedNext ==
    ASSUME DeliveryInvariant, ReservedOncePerProcess, [Next]_vars
    PROVE  ReservedOncePerProcess'
  <1>1. ASSUME UNCHANGED log, processed' = processed, faults' \in [FaultKinds -> Nat],
               \A k \in {"send", "crash", "replay"} : faults'[k] = faults[k]
        PROVE  ReservedOncePerProcess'
    <2>1. LogGrows
      BY <1>1, SameLogGrows, InvariantFacts
    <2>2. DeadProcesses' = DeadProcesses
      BY <1>1 DEF DeadProcesses
    <2>3. ASSUME NEW o \in Orders
          PROVE  /\ Answers(o)' = Answers(o)
                 /\ Cardinality(Remembering(o)) + DeadProcesses
                      <= Cardinality(Remembering(o))' + DeadProcesses'
      <3>1. Answers(o)' = Answers(o)
        BY <1>1 DEF Answers, EventsOf
      <3>2. Remembering(o)' = Remembering(o)
        BY <1>1, <2>1, RememberingKept
      <3>3. Cardinality(Remembering(o)) \in Nat /\ DeadProcesses \in Nat
        BY MemoryFacts
      <3> QED BY <2>2, <3>1, <3>2, <3>3
    <2> QED BY <1>1, <2>3, NoReservation
  <1>2. ASSUME NEW o \in Orders, CustomerPlaces(o)
        PROVE  ReservedOncePerProcess'
    <2>1. /\ LogGrows /\ faults' = faults /\ processed' = processed
          /\ \A p \in Orders, kind \in ReservationKinds :
                EventsOf("inventory.v1", p, kind)' = EventsOf("inventory.v1", p, kind)
      BY <1>2, PlacementKeepsInvariant
    <2>2. ASSUME NEW p \in Orders
          PROVE  /\ Answers(p)' = Answers(p)
                 /\ Cardinality(Remembering(p)) + DeadProcesses
                      <= Cardinality(Remembering(p))' + DeadProcesses'
      <3>1. Answers(p)' = Answers(p)
        BY <2>1 DEF Answers, ReservationKinds
      <3>2. Remembering(p)' = Remembering(p)
        BY <2>1, RememberingKept
      <3>3. Cardinality(Remembering(p)) \in Nat /\ DeadProcesses \in Nat /\ DeadProcesses' = DeadProcesses
        BY <2>1, MemoryFacts DEF DeadProcesses
      <3> QED BY <3>1, <3>2, <3>3
    <2> QED BY <2>1, <2>2, NoReservation, InvariantFacts
  <1>3. ASSUME NEW i \in Instances, Handle(i)
        PROVE  ReservedOncePerProcess'
    <2>1. UNCHANGED <<log, faults, processed>>
      BY <1>3 DEF Handle, SkipDuplicate, BeginReservation
    <2> QED BY <1>1, <2>1, InvariantFacts
  <1>4. ASSUME NEW i \in Instances, Commit(i)
        PROVE  ReservedOncePerProcess'
    <2>1. UNCHANGED <<log, faults, processed>>
      BY <1>4 DEF Commit, AutoCommit
    <2> QED BY <1>1, <2>1, InvariantFacts
  <1>5. ASSUME NEW i \in Instances, Crash(i)
        PROVE  ReservedOncePerProcess'
    <2>1. /\ Fault("crash") /\ UNCHANGED log /\ processed' = [processed EXCEPT ![i] = {}]
      BY <1>5 DEF Crash, CrashAndRejoin, Rejoin
    <2>2. /\ faults' \in [FaultKinds -> Nat] /\ faults'["crash"] = faults["crash"] + 1
          /\ faults'["send"] = faults["send"] /\ faults'["replay"] = faults["replay"]
      BY <2>1, FaultCounted, InvariantFacts DEF FaultKinds
    <2>3. LogGrows
      BY <2>1, SameLogGrows, InvariantFacts
    <2>4. DeadProcesses' = DeadProcesses + 1
      <3>1. faults["crash"] \in Nat /\ Cardinality(Instances) * faults["replay"] \in Nat
        BY InvariantFacts, FS_CardinalityType DEF FaultKinds
      <3> QED BY <2>2, <3>1 DEF DeadProcesses
    <2>5. ASSUME NEW o \in Orders
          PROVE  /\ Answers(o)' = Answers(o)
                 /\ Cardinality(Remembering(o)) + DeadProcesses
                      <= Cardinality(Remembering(o))' + DeadProcesses'
      <3>1. Answers(o)' = Answers(o)
        BY <2>1 DEF Answers, EventsOf
      <3>2. Remembering(o) \subseteq Remembering(o)' \cup {i}
        <4>1. ASSUME NEW j \in Remembering(o), j # i
              PROVE  j \in Remembering(o)'
          <5>1. j \in Instances /\ processed'[j] = processed[j]
            BY <2>1, <4>1, InvariantFacts DEF Remembering
          <5> QED BY <2>3, <5>1, StillRemembering
        <4> QED BY <4>1
      <3>3. /\ IsFiniteSet(Remembering(o)') /\ Cardinality(Remembering(o)') \in Nat
        <4>1. Remembering(o)' \subseteq Instances
          BY DEF Remembering
        <4> QED BY <4>1, FS_Subset, FS_CardinalityType
      <3>4. /\ Cardinality(Remembering(o)' \cup {i}) <= Cardinality(Remembering(o)') + 1
            /\ IsFiniteSet(Remembering(o)' \cup {i})
            /\ Cardinality(Remembering(o)' \cup {i}) \in Nat
        BY <3>3, OneMoreElement
      <3>5. Cardinality(Remembering(o)) <= Cardinality(Remembering(o)' \cup {i})
        BY <3>2, <3>4, FS_Subset
      <3>6. Cardinality(Remembering(o)) \in Nat /\ DeadProcesses \in Nat
        BY MemoryFacts
      <3> QED BY <2>4, <3>1, <3>3, <3>4, <3>5, <3>6
    <2> QED BY <2>2, <2>5, NoReservation
  <1>6. CASE Answer
    BY <1>6, AnswerReserves
  <1>7. CASE GroupRebalances
    <2>1. Fault("rebalance") /\ UNCHANGED log /\ processed' = processed
      BY <1>7 DEF GroupRebalances, Rebalance, Rejoin
    <2>2. /\ faults' \in [FaultKinds -> Nat]
          /\ \A k \in {"send", "crash", "replay"} : faults'[k] = faults[k]
      BY <2>1, FaultCounted, InvariantFacts DEF FaultKinds
    <2> QED BY <1>1, <2>1, <2>2
  <1>8. CASE ReplayOrders
    <2>1. /\ Fault("replay") /\ UNCHANGED log /\ processed' = [i \in Instances |-> {}]
      BY <1>8 DEF ReplayOrders, Replay, Rejoin
    <2>2. /\ faults' \in [FaultKinds -> Nat] /\ faults'["replay"] = faults["replay"] + 1
          /\ faults'["send"] = faults["send"] /\ faults'["crash"] = faults["crash"]
      BY <2>1, FaultCounted, InvariantFacts DEF FaultKinds
    <2>3. DeadProcesses' = DeadProcesses + Cardinality(Instances)
      <3>1. faults["crash"] \in Nat /\ faults["replay"] \in Nat /\ Cardinality(Instances) \in Nat
        BY InvariantFacts, FS_CardinalityType DEF FaultKinds
      <3>2. \A c, r \in Nat : c * (r + 1) = c * r + c /\ c * r \in Nat
        OBVIOUS
      <3> QED BY <2>2, <3>1, <3>2 DEF DeadProcesses
    <2>4. ASSUME NEW o \in Orders
          PROVE  /\ Answers(o)' = Answers(o)
                 /\ Cardinality(Remembering(o)) + DeadProcesses
                      <= Cardinality(Remembering(o))' + DeadProcesses'
      <3>1. Answers(o)' = Answers(o)
        BY <2>1 DEF Answers, EventsOf
      <3>2. Remembering(o)' = {}
        BY <2>1 DEF Remembering
      <3>3. Cardinality(Remembering(o)') = 0
        BY <3>2, FS_EmptySet
      <3> QED BY <2>3, <3>1, <3>3, MemoryFacts
    <2> QED BY <2>2, <2>4, NoReservation
  <1>9. CASE UNCHANGED vars
    BY <1>1, <1>9, InvariantFacts DEF vars
  <1> QED BY <1>2, <1>3, <1>4, <1>5, <1>6, <1>7, <1>8, <1>9 DEF Next, InventoryStep

(* Nothing is reserved at the start.                                           *)
LEMMA ReservedInit ==
    ASSUME Init
    PROVE  ReservedOncePerProcess
  <1>1. DeliveryInvariant
    BY InventoryInit
  <1>2. ASSUME NEW o \in Orders
        PROVE  Answers(o) = 0
    <2>1. DOMAIN log[<<"inventory.v1", PartitionOf[o]>>] = {}
      <3>1. log[<<"inventory.v1", PartitionOf[o]>>] = <<>>
        BY DEF Init, TopicsInit, InventoryTopics
      <3> QED BY <3>1
    <2>2. \A kind \in ReservationKinds : EventsOf("inventory.v1", o, kind) = {}
      BY <2>1 DEF EventsOf
    <2>3. /\ Cardinality(EventsOf("inventory.v1", o, "InventoryReserved")) = 0
          /\ Cardinality(EventsOf("inventory.v1", o, "InventoryRejected")) = 0
      BY <2>2, FS_EmptySet DEF ReservationKinds
    <2> QED BY <2>3 DEF Answers
  <1> QED BY <1>1, <1>2, MemoryFacts DEF ReservedOncePerProcess

(* Rebalances and redeliveries never make a process reserve an order twice:    *)
(* there is at most one answer for every process that remembers the order,     *)
(* every process that died and every rejected send (isDuplicate before,        *)
(* markProcessed after the send).                                              *)
THEOREM ReservationsBounded == Spec => []ReservedOncePerProcess
  <1>1. Init => DeliveryInvariant /\ ReservedOncePerProcess
    BY InventoryInit, ReservedInit
  <1>2. DeliveryInvariant /\ ReservedOncePerProcess /\ [Next]_vars
           => DeliveryInvariant' /\ ReservedOncePerProcess'
    BY InventoryNext, ReservedNext
  <1> QED BY <1>1, <1>2, PTL DEF Spec

-----------------------------------------------------------------------------
(* The stock. The promises of a product are a sum over the orders, what is     *)
(* held for them a sum over the instances; both are finite sets.               *)

MaxLevel == Max(StockLevels)

StockInvariant ==
    /\ inventory \in [Instances -> Shelf]
    /\ ShelvesBounded
    /\ PromisesHeld

LEMMA LevelFacts ==
    /\ MaxLevel \in Nat
    /\ \A shelf \in FreshShelf : /\ shelf \in Shelf
                                 /\ \A product \in Products :
                                       /\ shelf[product].available <= MaxLevel
                                       /\ shelf[product].reserved = 0
  <1>1. MaxLevel \in StockLevels /\ \A level \in StockLevels : MaxLevel >= level
    <2>1. StockLevels \in SUBSET Nat /\ IsFiniteSet(StockLevels) /\ StockLevels # {}
      BY InventoryAssumption
    <2> QED BY <2>1, MaxFacts DEF MaxLevel
  <1>2. StockLevels \subseteq Nat
    BY InventoryAssumption
  <1>3. ASSUME NEW shelf \in FreshShelf
        PROVE  /\ shelf \in Shelf
               /\ \A product \in Products : /\ shelf[product].available <= MaxLevel
                                            /\ shelf[product].reserved = 0
    <2>1. \A product \in Products : shelf[product] \in [available : StockLevels, reserved : {0}]
      BY DEF FreshShelf
    <2>2. \A product \in Products : shelf[product] \in [available : Nat, reserved : Nat]
      <3>1. ASSUME NEW product \in Products
            PROVE  shelf[product] \in [available : Nat, reserved : Nat]
        <4>1. PICK row : row \in [available : StockLevels, reserved : {0}] /\ row = shelf[product]
          BY <2>1
        <4>2. row.available \in StockLevels /\ row.reserved = 0
          BY <4>1
        <4>3. row = [available |-> row.available, reserved |-> row.reserved]
          BY <4>1
        <4>4. row \in [available : Nat, reserved : Nat]
          BY <1>2, <4>2, <4>3
        <4> QED BY <4>1, <4>4
      <3> QED BY <3>1
    <2>3. shelf \in Shelf
      BY <2>2 DEF FreshShelf, Shelf
    <2>4. \A product \in Products : /\ shelf[product].available \in StockLevels
                                    /\ shelf[product].reserved = 0
      BY <2>1
    <2> QED BY <1>1, <1>2, <2>3, <2>4
  <1> QED BY <1>1, <1>2, <1>3

LEMMA UnitsWanted ==
    ASSUME NEW o \in Orders, NEW product \in Products
    PROVE  Wanted(o, product) \in Nat
  <1>1. ItemsOf[o] \in Seq(Item)
    BY InventoryAssumption
  <1>2. Wanted(o, product) = WantedOf(ItemsOf[o], product)
    BY Zenon DEF Wanted, WantedOf
  <1>3. PICK w : WantsUp(ItemsOf[o], product, w)
                   /\ WantedOf(ItemsOf[o], product) = w[DOMAIN ItemsOf[o]]
    BY <1>1, WantedAdds
  <1> QED BY <1>2, <1>3 DEF WantsUp

(* One more reservation on the topic promises what its order wants.            *)
LEMMA PromisesCounted ==
    ASSUME IsFiniteSet(Orders), NEW before \in [Orders -> Nat], NEW after \in [Orders -> Nat],
           NEW product \in Products
    PROVE  LET units(sold) == Total([p \in Orders |-> Wanted(p, product) * sold[p]])
           IN  /\ units(before) \in Nat /\ units(after) \in Nat
               /\ before = after => units(after) = units(before)
               /\ \A o \in Orders :
                     /\ \A p \in Orders : p # o => after[p] = before[p]
                     /\ after[o] = before[o] + 1
                     => units(after) = units(before) + Wanted(o, product)
  <1> DEFINE f == [p \in Orders |-> Wanted(p, product) * before[p]]
             g == [p \in Orders |-> Wanted(p, product) * after[p]]
  <1>1. \A p \in Orders : Wanted(p, product) \in Nat
    BY UnitsWanted
  <1>2. \A w, n \in Nat : w * n \in Nat /\ w * (n + 1) = w * n + w
    OBVIOUS
  <1>3. f \in [Orders -> Nat] /\ g \in [Orders -> Nat]
    <2>1. ASSUME NEW p \in Orders
          PROVE  Wanted(p, product) * before[p] \in Nat /\ Wanted(p, product) * after[p] \in Nat
      BY <1>1, <1>2
    <2> QED BY <2>1
  <1>4. Total(f) \in Nat /\ Total(g) \in Nat
    BY <1>3, SumIsNat
  <1>5. before = after => Total(g) = Total(f)
    OBVIOUS
  <1>6. ASSUME NEW o \in Orders, after[o] = before[o] + 1,
               \A p \in Orders : p # o => after[p] = before[p]
        PROVE  Total(g) = Total(f) + Wanted(o, product)
    <2>1. \A p \in Orders : p # o => f[p] = g[p]
      BY <1>6
    <2>2. g[o] = f[o] + Wanted(o, product)
      BY <1>1, <1>2, <1>6
    <2>3. f[o] \in Nat /\ g[o] \in Nat /\ Wanted(o, product) \in Nat
      BY <1>1, <1>3
    <2> HIDE DEF f, g
    <2>4. Total(g) + f[o] = Total(f) + g[o]
      BY <1>3, <2>1, SumChanged
    <2> QED BY <1>4, <2>2, <2>3, <2>4
  <1> QED BY <1>4, <1>5, <1>6, Zenon

(* One shelf changes what is held as much as its own stock.                    *)
LEMMA StockCounted ==
    ASSUME NEW before \in [Instances -> Shelf], NEW after \in [Instances -> Shelf],
           NEW product \in Products
    PROVE  LET units(stock) == Total([i \in Instances |-> stock[i][product].reserved])
           IN  /\ units(before) \in Nat /\ units(after) \in Nat
               /\ \A i \in Instances :
                     /\ before[i][product].reserved \in Nat
                     /\ after[i][product].reserved \in Nat
                     /\ (\A j \in Instances : j # i => after[j] = before[j])
                          => units(after) + before[i][product].reserved
                               = units(before) + after[i][product].reserved
               /\ \A k \in Nat :
                     (\A i \in Instances : before[i][product].reserved <= k)
                        => units(before) <= Cardinality(Instances) * k
  <1> DEFINE f == [i \in Instances |-> before[i][product].reserved]
             g == [i \in Instances |-> after[i][product].reserved]
  <1>1. \A i \in Instances : before[i][product].reserved \in Nat /\ after[i][product].reserved \in Nat
    BY DEF Shelf
  <1>2. f \in [Instances -> Nat] /\ g \in [Instances -> Nat] /\ IsFiniteSet(Instances)
    BY <1>1, GroupAssumption
  <1>3. Total(f) \in Nat /\ Total(g) \in Nat
    BY <1>2, SumIsNat
  <1>4. ASSUME NEW i \in Instances, \A j \in Instances : j # i => after[j] = before[j]
        PROVE  Total(g) + before[i][product].reserved = Total(f) + after[i][product].reserved
    <2>1. \A j \in Instances : j # i => f[j] = g[j]
      BY <1>4
    <2>2. f[i] = before[i][product].reserved /\ g[i] = after[i][product].reserved
      OBVIOUS
    <2> HIDE DEF f, g
    <2>3. Total(g) + f[i] = Total(f) + g[i]
      BY <1>2, <2>1, SumChanged
    <2> QED BY <2>2, <2>3
  <1>5. ASSUME NEW k \in Nat, \A i \in Instances : before[i][product].reserved <= k
        PROVE  Total(f) <= Cardinality(Instances) * k
    <2>1. \A i \in Instances : f[i] <= k
      BY <1>5
    <2> HIDE DEF f
    <2> QED BY <1>2, <2>1, SumBounded
  <1> QED BY <1>1, <1>3, <1>4, <1>5, Zenon

LEMMA SoldIsNat == DeliveryInvariant => \A o \in Orders : Sold(o) \in Nat
  <1>1. ASSUME DeliveryInvariant, NEW o \in Orders
        PROVE  Sold(o) \in Nat
    <2>1. Keyed("inventory.v1", o) \in DOMAIN log /\ LogOK
      BY <1>1, TopicsKeyed, InvariantFacts DEF InventoryTopics
    <2> QED BY <2>1, EventsFinite DEF Sold
  <1> QED BY <1>1

LEMMA PromisesMove ==
    ASSUME DeliveryInvariant, DeliveryInvariant', IsFiniteSet(Orders), NEW product \in Products
    PROVE  /\ Promised(product) \in Nat /\ Promised(product)' \in Nat
           /\ (\A o \in Orders : Sold(o)' = Sold(o)) => Promised(product)' = Promised(product)
           /\ \A o \in Orders :
                 /\ \A p \in Orders : p # o => Sold(p)' = Sold(p)
                 /\ Sold(o)' = Sold(o) + 1
                 => Promised(product)' = Promised(product) + Wanted(o, product)
  <1> DEFINE units(sold) == Total([p \in Orders |-> Wanted(p, product) * sold[p]])
  <1>1. PICK before : before = [o \in Orders |-> Sold(o)]
    OBVIOUS
  <1>2. PICK after : after = [o \in Orders |-> Sold(o)']
    OBVIOUS
  <1>3. (\A o \in Orders : Sold(o) \in Nat)'
    BY SoldIsNat, PTL
  <1>4. before \in [Orders -> Nat] /\ after \in [Orders -> Nat]
    BY <1>1, <1>2, <1>3, SoldIsNat
  <1>5. Promised(product) = units(before)
    <2>1. [o \in Orders |->
              Wanted(o, product) * Cardinality(EventsOf("inventory.v1", o, "InventoryReserved"))]
            = [p \in Orders |-> Wanted(p, product) * before[p]]
      BY <1>1 DEF Sold
    <2>2. Promised(product) = Total([o \in Orders |->
              Wanted(o, product) * Cardinality(EventsOf("inventory.v1", o, "InventoryReserved"))])
      BY Zenon DEF Promised, Total
    <2> QED BY <2>1, <2>2, Zenon
  <1>6. Promised(product)' = units(after)
    <2>1. [o \in Orders |->
              Wanted(o, product) * Cardinality(EventsOf("inventory.v1", o, "InventoryReserved"))']
            = [p \in Orders |-> Wanted(p, product) * after[p]]
      BY <1>2 DEF Sold
    <2>2. Promised(product)' = Total([o \in Orders |->
              Wanted(o, product) * Cardinality(EventsOf("inventory.v1", o, "InventoryReserved"))'])
      BY Zenon DEF Promised, Total, FoldFunction, FoldFunctionOnSet, MapThenFoldSet
    <2> QED BY <2>1, <2>2, Zenon
  <1>7. /\ units(before) \in Nat /\ units(after) \in Nat
        /\ before = after => units(after) = units(before)
        /\ \A o \in Orders :
              /\ \A p \in Orders : p # o => after[p] = before[p]
              /\ after[o] = before[o] + 1
              => units(after) = units(before) + Wanted(o, product)
    BY <1>4, PromisesCounted
  <1> HIDE DEF units
  <1>8. (\A o \in Orders : Sold(o)' = Sold(o)) => before = after
    BY <1>1, <1>2
  <1>9. \A o \in Orders : before[o] = Sold(o) /\ after[o] = Sold(o)'
    BY <1>1, <1>2
  <1> QED BY <1>5, <1>6, <1>7, <1>8, <1>9

LEMMA StockMove ==
    ASSUME inventory \in [Instances -> Shelf], inventory' \in [Instances -> Shelf],
           NEW product \in Products
    PROVE  /\ Held(product) \in Nat /\ Held(product)' \in Nat
           /\ \A i \in Instances :
                 /\ inventory[i][product].reserved \in Nat
                 /\ inventory'[i][product].reserved \in Nat
                 /\ (\A j \in Instances : j # i => inventory'[j] = inventory[j])
                      => Held(product)' + inventory[i][product].reserved
                           = Held(product) + inventory'[i][product].reserved
  <1> DEFINE units(stock) == Total([i \in Instances |-> stock[i][product].reserved])
  <1>1. PICK before : before = inventory
    OBVIOUS
  <1>2. PICK after : after = inventory'
    OBVIOUS
  <1>3. before \in [Instances -> Shelf] /\ after \in [Instances -> Shelf]
    BY <1>1, <1>2
  <1>4. Held(product) = units(before)
    BY <1>1, Zenon DEF Held, Total
  <1>5. Held(product)' = units(after)
    <2>1. Held(product)' = Total([i \in Instances |-> inventory'[i][product].reserved])
      BY Zenon DEF Held, Total, FoldFunction, FoldFunctionOnSet, MapThenFoldSet
    <2> QED BY <1>2, <2>1, Zenon
  <1>6. /\ units(before) \in Nat /\ units(after) \in Nat
        /\ \A i \in Instances :
              /\ before[i][product].reserved \in Nat
              /\ after[i][product].reserved \in Nat
              /\ (\A j \in Instances : j # i => after[j] = before[j])
                   => units(after) + before[i][product].reserved
                        = units(before) + after[i][product].reserved
    BY <1>3, StockCounted
  <1> HIDE DEF units
  <1> QED BY <1>1, <1>2, <1>4, <1>5, <1>6

LEMMA StockBounded ==
    ASSUME inventory \in [Instances -> Shelf], ShelvesBounded, NEW product \in Products
    PROVE  /\ Held(product) \in Nat
           /\ Held(product) <= Cardinality(Instances) * MaxLevel
           /\ \A i \in Instances : /\ inventory[i][product].reserved \in Nat
                                   /\ inventory[i][product].reserved <= MaxLevel
  <1>1. \A i \in Instances : /\ inventory[i][product].reserved \in Nat
                             /\ inventory[i][product].available \in Nat
    BY DEF Shelf
  <1>2. ASSUME NEW i \in Instances
        PROVE  inventory[i][product].reserved <= MaxLevel
    <2>1. inventory[i][product].available + inventory[i][product].reserved <= MaxLevel
      BY DEF ShelvesBounded, MaxLevel
    <2> QED BY <1>1, <2>1, LevelFacts
  <1>3. PICK stock \in [Instances -> Shelf] : stock = inventory
    OBVIOUS
  <1>4. Held(product) = Total([i \in Instances |-> stock[i][product].reserved])
    BY <1>3, Zenon DEF Held, Total
  <1>5. \A i \in Instances : stock[i][product].reserved <= MaxLevel
    BY <1>2, <1>3
  <1>6. /\ Total([i \in Instances |-> stock[i][product].reserved]) \in Nat
        /\ Total([i \in Instances |-> stock[i][product].reserved])
             <= Cardinality(Instances) * MaxLevel
    BY <1>5, LevelFacts, StockCounted
  <1> QED BY <1>1, <1>2, <1>4, <1>6, Zenon

(* A crash is one process that dies, a replay is all of them.                  *)
LEMMA DeathsCounted ==
    ASSUME DeliveryInvariant
    PROVE  /\ DeadProcesses \in Nat /\ Cardinality(Instances) \in Nat
           /\ Fault("crash") => DeadProcesses' = DeadProcesses + 1
           /\ Fault("replay") => DeadProcesses' = DeadProcesses + Cardinality(Instances)
           /\ Fault("rebalance") => DeadProcesses' = DeadProcesses
           /\ faults' = faults => DeadProcesses' = DeadProcesses
           /\ (\A k \in FaultKinds \ {"send"} : faults'[k] = faults[k])
                => DeadProcesses' = DeadProcesses
  <1>1. /\ faults["crash"] \in Nat /\ faults["replay"] \in Nat /\ Cardinality(Instances) \in Nat
        /\ Cardinality(Instances) * faults["replay"] \in Nat
    <2>1. /\ faults["crash"] \in Nat /\ faults["replay"] \in Nat /\ Cardinality(Instances) \in Nat
      BY InvariantFacts, FS_CardinalityType DEF FaultKinds
    <2>2. \A c, r \in Nat : c * r \in Nat
      OBVIOUS
    <2> QED BY <2>1, <2>2
  <1>2. DeadProcesses \in Nat
    BY <1>1 DEF DeadProcesses
  <1>3. ASSUME Fault("crash")
        PROVE  DeadProcesses' = DeadProcesses + 1
    <2>1. faults'["crash"] = faults["crash"] + 1 /\ faults'["replay"] = faults["replay"]
      BY <1>3, FaultCounted, InvariantFacts DEF FaultKinds
    <2> QED BY <1>1, <2>1 DEF DeadProcesses
  <1>4. ASSUME Fault("replay")
        PROVE  DeadProcesses' = DeadProcesses + Cardinality(Instances)
    <2>1. faults'["replay"] = faults["replay"] + 1 /\ faults'["crash"] = faults["crash"]
      BY <1>4, FaultCounted, InvariantFacts DEF FaultKinds
    <2>2. \A c, r \in Nat : c * (r + 1) = c * r + c
      OBVIOUS
    <2> QED BY <1>1, <2>1, <2>2 DEF DeadProcesses
  <1>5. ASSUME Fault("rebalance")
        PROVE  DeadProcesses' = DeadProcesses
    <2>1. faults'["replay"] = faults["replay"] /\ faults'["crash"] = faults["crash"]
      BY <1>5, FaultCounted, InvariantFacts DEF FaultKinds
    <2> QED BY <2>1 DEF DeadProcesses
  <1>6. ASSUME \A k \in FaultKinds \ {"send"} : faults'[k] = faults[k]
        PROVE  DeadProcesses' = DeadProcesses
    <2>1. faults'["replay"] = faults["replay"] /\ faults'["crash"] = faults["crash"]
      BY <1>6 DEF FaultKinds
    <2> QED BY <2>1 DEF DeadProcesses
  <1>7. faults' = faults => DeadProcesses' = DeadProcesses
    BY DEF DeadProcesses
  <1> QED BY <1>1, <1>2, <1>3, <1>4, <1>5, <1>6, <1>7

LEMMA QuietKeepsStock ==
    ASSUME DeliveryInvariant, DeliveryInvariant', StockInvariant, IsFiniteSet(Orders),
           inventory' = inventory, \A o \in Orders : Sold(o)' = Sold(o),
           DeadProcesses' = DeadProcesses
    PROVE  StockInvariant'
  <1>1. inventory \in [Instances -> Shelf] /\ inventory' \in [Instances -> Shelf]
    BY DEF StockInvariant
  <1>2. ShelvesBounded'
    BY DEF StockInvariant, ShelvesBounded
  <1>3. ASSUME NEW product \in Products
        PROVE  Promised(product)' <= Held(product)' + DeadProcesses' * MaxLevel
    <2>1. Promised(product)' = Promised(product)
      BY PromisesMove
    <2>2. Held(product)' = Held(product)
      <3>1. PICK i \in Instances : TRUE
        BY GroupAssumption
      <3>2. /\ Held(product) \in Nat /\ Held(product)' \in Nat
            /\ inventory[i][product].reserved \in Nat
            /\ Held(product)' + inventory[i][product].reserved
                 = Held(product) + inventory[i][product].reserved
        BY <1>1, StockMove
      <3> QED BY <3>2
    <2>3. Promised(product) <= Held(product) + DeadProcesses * MaxLevel
      BY DEF StockInvariant, PromisesHeld, MaxLevel
    <2> QED BY <2>1, <2>2, <2>3
  <1> QED BY <1>1, <1>2, <1>3 DEF StockInvariant, PromisesHeld, MaxLevel

LEMMA ReservationKeepsStock ==
    ASSUME DeliveryInvariant, DeliveryInvariant', StockInvariant, IsFiniteSet(Orders),
           DeadProcesses' = DeadProcesses, NEW i \in Instances, NEW o \in Orders, StockMoves(i, o)
    PROVE  StockInvariant'
  <1>1. CASE inventory' = inventory /\ \A p \in Orders : Sold(p)' = Sold(p)
    BY <1>1, QuietKeepsStock
  <1>2. CASE /\ inventory' = [inventory EXCEPT ![i] = Reservation(inventory[i], ItemsOf[o]).shelf]
             /\ \/ Reservation(inventory[i], ItemsOf[o]).success
                \/ \A p \in Orders : Sold(p)' = Sold(p)
    <2>1. inventory \in [Instances -> Shelf] /\ inventory[i] \in Shelf
      BY DEF StockInvariant
    <2>2. PICK taken : taken = Reservation(inventory[i], ItemsOf[o])
      OBVIOUS
    <2>3. ReservationTaken(inventory[i], taken, o)
      BY <2>1, <2>2, ReservationFacts, Zenon
    <2>4. /\ inventory' = [inventory EXCEPT ![i] = taken.shelf]
          /\ taken.success \/ \A p \in Orders : Sold(p)' = Sold(p)
      BY <1>2, <2>2, Zenon
    <2>5. /\ taken.shelf \in Shelf
          /\ inventory' \in [Instances -> Shelf] /\ inventory'[i] = taken.shelf
          /\ \A j \in Instances : j # i => inventory'[j] = inventory[j]
      <3>1. taken.shelf \in Shelf
        BY <2>3 DEF ReservationTaken, Attempts
      <3> QED BY <2>1, <2>4, <3>1
    <2>6. ASSUME NEW product \in Products
          PROVE  /\ inventory'[i][product].available + inventory'[i][product].reserved
                      = inventory[i][product].available + inventory[i][product].reserved
                 /\ inventory'[i][product].reserved >= inventory[i][product].reserved
                 /\ taken.success => inventory'[i][product].reserved
                                       = inventory[i][product].reserved + Wanted(o, product)
      BY <2>3, <2>5 DEF ReservationTaken
    <2>7. ShelvesBounded'
      <3>1. ASSUME NEW j \in Instances, NEW product \in Products
            PROVE  inventory'[j][product].available + inventory'[j][product].reserved <= MaxLevel
        <4>1. inventory[j][product].available + inventory[j][product].reserved <= MaxLevel
          BY DEF StockInvariant, ShelvesBounded, MaxLevel
        <4> QED BY <2>5, <2>6, <4>1
      <3> QED BY <3>1 DEF ShelvesBounded, MaxLevel
    <2>8. ASSUME NEW product \in Products
          PROVE  Promised(product)' <= Held(product)' + DeadProcesses' * MaxLevel
      <3>1. Promised(product) <= Held(product) + DeadProcesses * MaxLevel
        BY DEF StockInvariant, PromisesHeld, MaxLevel
      <3>2. /\ Held(product) \in Nat /\ Held(product)' \in Nat
            /\ inventory[i][product].reserved \in Nat /\ inventory'[i][product].reserved \in Nat
            /\ Held(product)' + inventory[i][product].reserved
                 = Held(product) + inventory'[i][product].reserved
        BY <2>1, <2>5, StockMove
      <3>3. Promised(product) \in Nat /\ Promised(product)' \in Nat /\ Wanted(o, product) \in Nat
        BY PromisesMove, UnitsWanted
      <3>4. DeadProcesses * MaxLevel \in Nat
        <4>1. DeadProcesses \in Nat /\ MaxLevel \in Nat
          BY DeathsCounted, LevelFacts
        <4>2. \A a, b \in Nat : a * b \in Nat
          OBVIOUS
        <4> QED BY <4>1, <4>2
      <3>5. CASE \A p \in Orders : Sold(p)' = Sold(p)
        <4>1. Promised(product)' = Promised(product)
          BY <3>5, PromisesMove
        <4>2. Held(product)' >= Held(product)
          BY <2>6, <3>2
        <4> QED BY <3>1, <3>2, <3>3, <3>4, <4>1, <4>2
      <3>6. CASE ~ \A p \in Orders : Sold(p)' = Sold(p)
        <4>1. Sold(o)' = Sold(o) + 1 /\ \A p \in Orders : p # o => Sold(p)' = Sold(p)
          <5>1. \A p \in Orders : p # o => Sold(p)' = Sold(p)
            BY DEF StockMoves
          <5>2. Sold(o)' \in {Sold(o), Sold(o) + 1}
            BY DEF StockMoves
          <5> QED BY <3>6, <5>1, <5>2
        <4>2. Promised(product)' = Promised(product) + Wanted(o, product)
          BY <4>1, PromisesMove
        <4>3. Held(product)' = Held(product) + Wanted(o, product)
          BY <2>4, <2>6, <3>2, <3>3, <3>6
        <4> QED BY <3>1, <3>2, <3>3, <3>4, <4>2, <4>3
      <3> QED BY <3>5, <3>6
    <2> QED BY <2>5, <2>7, <2>8 DEF StockInvariant, PromisesHeld, MaxLevel
  <1> QED BY <1>1, <1>2 DEF StockMoves

LEMMA CrashKeepsStock ==
    ASSUME DeliveryInvariant, DeliveryInvariant', StockInvariant, IsFiniteSet(Orders),
           NEW i \in Instances, Crash(i)
    PROVE  StockInvariant'
  <1>1. Fault("crash") /\ UNCHANGED log
    BY DEF Crash, CrashAndRejoin, Rejoin
  <1>2. PICK shelf \in FreshShelf : inventory' = [inventory EXCEPT ![i] = shelf]
    BY DEF Crash
  <1>3. /\ inventory \in [Instances -> Shelf] /\ inventory' \in [Instances -> Shelf]
        /\ inventory'[i] = shelf /\ \A j \in Instances : j # i => inventory'[j] = inventory[j]
    <2>1. inventory \in [Instances -> Shelf] /\ shelf \in Shelf
      BY LevelFacts DEF StockInvariant
    <2> QED BY <1>2, <2>1
  <1>4. ShelvesBounded'
    <2>1. ASSUME NEW j \in Instances, NEW product \in Products
          PROVE  inventory'[j][product].available + inventory'[j][product].reserved <= MaxLevel
      <3>1. inventory[j][product].available + inventory[j][product].reserved <= MaxLevel
        BY DEF StockInvariant, ShelvesBounded, MaxLevel
      <3>2. /\ shelf[product].available <= MaxLevel /\ shelf[product].reserved = 0
            /\ shelf[product].available \in Nat
        BY LevelFacts DEF Shelf
      <3> QED BY <1>3, <3>1, <3>2
    <2> QED BY <2>1 DEF ShelvesBounded, MaxLevel
  <1>5. ASSUME NEW product \in Products
        PROVE  Promised(product)' <= Held(product)' + DeadProcesses' * MaxLevel
    <2>1. Promised(product) <= Held(product) + DeadProcesses * MaxLevel
      BY DEF StockInvariant, PromisesHeld, MaxLevel
    <2>2. Promised(product)' = Promised(product) /\ Promised(product) \in Nat
      <3>1. \A o \in Orders : Sold(o)' = Sold(o)
        BY <1>1 DEF Sold, EventsOf
      <3> QED BY <3>1, PromisesMove
    <2>3. /\ Held(product) \in Nat /\ Held(product)' \in Nat
          /\ inventory[i][product].reserved \in Nat
          /\ Held(product)' + inventory[i][product].reserved = Held(product) + 0
      <3>1. inventory'[i][product].reserved = 0
        BY <1>3, LevelFacts
      <3> QED BY <1>3, <3>1, StockMove
    <2>4. inventory[i][product].reserved <= MaxLevel
      BY StockBounded DEF StockInvariant
    <2>5. /\ DeadProcesses * MaxLevel \in Nat /\ MaxLevel \in Nat
          /\ DeadProcesses' * MaxLevel = DeadProcesses * MaxLevel + MaxLevel
      <3>1. DeadProcesses \in Nat /\ MaxLevel \in Nat /\ DeadProcesses' = DeadProcesses + 1
        BY <1>1, DeathsCounted, LevelFacts
      <3>2. \A a, b \in Nat : a * b \in Nat /\ (a + 1) * b = a * b + b
        OBVIOUS
      <3> QED BY <3>1, <3>2
    <2> QED BY <2>1, <2>2, <2>3, <2>4, <2>5
  <1> QED BY <1>3, <1>4, <1>5 DEF StockInvariant, PromisesHeld, MaxLevel

LEMMA ReplayKeepsStock ==
    ASSUME DeliveryInvariant, DeliveryInvariant', StockInvariant, IsFiniteSet(Orders), ReplayOrders
    PROVE  StockInvariant'
  <1>1. Fault("replay") /\ UNCHANGED log /\ inventory' \in [Instances -> FreshShelf]
    BY DEF ReplayOrders, Replay, Rejoin
  <1>2. inventory \in [Instances -> Shelf] /\ inventory' \in [Instances -> Shelf]
    <2>1. \A j \in Instances : inventory'[j] \in Shelf
      BY <1>1, LevelFacts
    <2> QED BY <1>1, <2>1 DEF StockInvariant
  <1>3. ShelvesBounded'
    <2>1. ASSUME NEW j \in Instances, NEW product \in Products
          PROVE  inventory'[j][product].available + inventory'[j][product].reserved <= MaxLevel
      <3>1. PICK shelf \in FreshShelf : inventory'[j] = shelf
        BY <1>1
      <3>2. /\ shelf[product].available <= MaxLevel /\ shelf[product].reserved = 0
            /\ shelf[product].available \in Nat
        BY LevelFacts DEF Shelf
      <3> QED BY <3>1, <3>2
    <2> QED BY <2>1 DEF ShelvesBounded, MaxLevel
  <1>4. ASSUME NEW product \in Products
        PROVE  Promised(product)' <= Held(product)' + DeadProcesses' * MaxLevel
    <2>1. Promised(product) <= Held(product) + DeadProcesses * MaxLevel
      BY DEF StockInvariant, PromisesHeld, MaxLevel
    <2>2. Promised(product)' = Promised(product) /\ Promised(product) \in Nat
      <3>1. \A o \in Orders : Sold(o)' = Sold(o)
        BY <1>1 DEF Sold, EventsOf
      <3> QED BY <3>1, PromisesMove
    <2>3. Held(product) \in Nat /\ Held(product)' \in Nat
      BY <1>2, StockMove
    <2>4. Held(product) <= Cardinality(Instances) * MaxLevel
      BY StockBounded DEF StockInvariant
    <2>5. /\ DeadProcesses * MaxLevel \in Nat /\ Cardinality(Instances) * MaxLevel \in Nat
          /\ DeadProcesses' * MaxLevel
               = DeadProcesses * MaxLevel + Cardinality(Instances) * MaxLevel
      <3>1. /\ DeadProcesses \in Nat /\ MaxLevel \in Nat /\ Cardinality(Instances) \in Nat
            /\ DeadProcesses' = DeadProcesses + Cardinality(Instances)
        BY <1>1, DeathsCounted, LevelFacts
      <3>2. \A a, b, c \in Nat : a * b \in Nat /\ (a + c) * b = a * b + c * b
        OBVIOUS
      <3> QED BY <3>1, <3>2
    <2> QED BY <2>1, <2>2, <2>3, <2>4, <2>5
  <1> QED BY <1>2, <1>3, <1>4 DEF StockInvariant, PromisesHeld, MaxLevel

LEMMA StockNext ==
    ASSUME IsFiniteSet(Orders), DeliveryInvariant, StockInvariant, [Next]_vars
    PROVE  StockInvariant'
  <1>0. DeliveryInvariant'
    BY InventoryNext
  <1>1. ASSUME UNCHANGED <<log, inventory>>, DeadProcesses' = DeadProcesses
        PROVE  StockInvariant'
    <2>1. \A o \in Orders : Sold(o)' = Sold(o)
      BY <1>1 DEF Sold, EventsOf
    <2> QED BY <1>0, <1>1, <2>1, QuietKeepsStock
  <1>2. ASSUME NEW o \in Orders, CustomerPlaces(o)
        PROVE  StockInvariant'
    <2>1. /\ UNCHANGED faults
          /\ \A p \in Orders, kind \in ReservationKinds :
                EventsOf("inventory.v1", p, kind)' = EventsOf("inventory.v1", p, kind)
      BY <1>2, PlacementKeepsInvariant
    <2>2. \A p \in Orders : Sold(p)' = Sold(p)
      BY <2>1 DEF Sold, ReservationKinds
    <2>3. inventory' = inventory
      BY <1>2 DEF CustomerPlaces
    <2>4. DeadProcesses' = DeadProcesses
      BY <2>1, DeathsCounted
    <2> QED BY <1>0, <2>2, <2>3, <2>4, QuietKeepsStock
  <1>3. ASSUME NEW i \in Instances, Handle(i)
        PROVE  StockInvariant'
    <2>1. UNCHANGED <<log, faults, inventory>>
      BY <1>3 DEF Handle, SkipDuplicate, BeginReservation
    <2> QED BY <1>1, <2>1, DeathsCounted
  <1>4. ASSUME NEW i \in Instances, Commit(i)
        PROVE  StockInvariant'
    <2>1. UNCHANGED <<log, faults, inventory>>
      BY <1>4 DEF Commit, AutoCommit
    <2> QED BY <1>1, <2>1, DeathsCounted
  <1>5. ASSUME NEW i \in Instances, Crash(i)
        PROVE  StockInvariant'
    BY <1>0, <1>5, CrashKeepsStock
  <1>6. CASE Answer
    <2>1. PICK m \in inFlight : \E o \in Orders : AnswerEnds(m, o)
      BY <1>6, AnswerFacts
    <2>2. PICK o \in Orders : AnswerEnds(m, o)
      BY <2>1
    <2>3. /\ StockMoves(m.instance, o) /\ m.instance \in Instances
          /\ \A k \in FaultKinds \ {"send"} : faults'[k] = faults[k]
      BY <2>2, InvariantFacts, GroupFacts DEF AnswerEnds
    <2>4. DeadProcesses' = DeadProcesses
      BY <2>3, DeathsCounted
    <2> QED BY <1>0, <2>3, <2>4, ReservationKeepsStock
  <1>7. CASE GroupRebalances
    <2>1. Fault("rebalance") /\ UNCHANGED <<log, inventory>>
      BY <1>7 DEF GroupRebalances, Rebalance, Rejoin
    <2> QED BY <1>1, <2>1, DeathsCounted
  <1>8. CASE ReplayOrders
    BY <1>0, <1>8, ReplayKeepsStock
  <1>9. CASE UNCHANGED vars
    <2>1. UNCHANGED <<log, faults, inventory>>
      BY <1>9 DEF vars
    <2> QED BY <1>1, <2>1, DeathsCounted
  <1> QED BY <1>2, <1>3, <1>4, <1>5, <1>6, <1>7, <1>8, <1>9 DEF Next, InventoryStep

LEMMA StockInit ==
    ASSUME IsFiniteSet(Orders), Init
    PROVE  StockInvariant
  <1>1. inventory \in [Instances -> FreshShelf] /\ inventory \in [Instances -> Shelf]
    <2>1. inventory \in [Instances -> FreshShelf]
      BY DEF Init
    <2>2. \A j \in Instances : inventory[j] \in Shelf
      BY <2>1, LevelFacts
    <2> QED BY <2>1, <2>2
  <1>2. ShelvesBounded
    <2>1. ASSUME NEW j \in Instances, NEW product \in Products
          PROVE  inventory[j][product].available + inventory[j][product].reserved <= MaxLevel
      <3>1. PICK shelf \in FreshShelf : inventory[j] = shelf
        BY <1>1
      <3>2. /\ shelf[product].available <= MaxLevel /\ shelf[product].reserved = 0
            /\ shelf[product].available \in Nat
        BY LevelFacts DEF Shelf
      <3> QED BY <3>1, <3>2
    <2> QED BY <2>1 DEF ShelvesBounded, MaxLevel
  <1>3. ASSUME NEW product \in Products
        PROVE  Promised(product) <= Held(product) + DeadProcesses * MaxLevel
    <2>1. DeliveryInvariant
      BY InventoryInit
    <2>2. \A o \in Orders : Sold(o) = 0
      <3>1. ASSUME NEW o \in Orders
            PROVE  EventsOf("inventory.v1", o, "InventoryReserved") = {}
        <4>1. log[<<"inventory.v1", PartitionOf[o]>>] = <<>>
          BY DEF Init, TopicsInit, InventoryTopics
        <4> QED BY <4>1 DEF EventsOf
      <3> QED BY <3>1, FS_EmptySet DEF Sold
    <2>3. PICK none \in [Orders -> Nat] : none = [o \in Orders |-> 0]
      OBVIOUS
    <2>4. Promised(product) = Total([p \in Orders |-> 0])
      <3>1. \A p \in Orders : Wanted(p, product) * 0 = 0
        BY UnitsWanted
      <3>2. [o \in Orders |->
                Wanted(o, product) * Cardinality(EventsOf("inventory.v1", o, "InventoryReserved"))]
              = [p \in Orders |-> 0]
        BY <2>2, <3>1 DEF Sold
      <3>3. Promised(product) = Total([o \in Orders |->
                Wanted(o, product) * Cardinality(EventsOf("inventory.v1", o, "InventoryReserved"))])
        BY Zenon DEF Promised, Total
      <3> QED BY <3>2, <3>3, Zenon
    <2>5. Promised(product) <= 0 /\ Promised(product) \in Nat
      <3>1. \A p \in Orders : none[p] <= 0
        BY <2>3
      <3>2. Total(none) \in Nat /\ Total(none) <= Cardinality(Orders) * 0
        BY <3>1, SumIsNat, SumBounded
      <3>3. Cardinality(Orders) \in Nat
        BY FS_CardinalityType
      <3> QED BY <2>3, <2>4, <3>2, <3>3
    <2>6. Held(product) \in Nat
      BY <1>1, <1>2, StockBounded
    <2>7. DeadProcesses * MaxLevel \in Nat
      <3>1. DeadProcesses \in Nat /\ MaxLevel \in Nat
        BY <2>1, DeathsCounted, LevelFacts
      <3>2. \A a, b \in Nat : a * b \in Nat
        OBVIOUS
      <3> QED BY <3>1, <3>2
    <2> QED BY <2>5, <2>6, <2>7
  <1> QED BY <1>1, <1>2, <1>3 DEF StockInvariant, PromisesHeld, MaxLevel

(* For any finite number of orders: the promises of a product are held on the  *)
(* shelves, but for what died with a process, and a shelf holds at most what a *)
(* start puts there. So nothing is sold twice by one process, whatever is      *)
(* redelivered, fails or crashes (processInventoryReservation, CanReserve).    *)
THEOREM InvariantHolds ==
    ASSUME IsFiniteSet(Orders)
    PROVE  Spec => []InventoryInvariant
  <1>1. Init => DeliveryInvariant /\ StockInvariant
    BY InventoryInit, StockInit
  <1>2. DeliveryInvariant /\ StockInvariant /\ [Next]_vars
           => DeliveryInvariant' /\ StockInvariant'
    BY InventoryNext, StockNext
  <1>3. DeliveryInvariant /\ StockInvariant => InventoryInvariant
    <2>1. ASSUME DeliveryInvariant, StockInvariant
          PROVE  InventoryInvariant
      <3>1. TypeOK
        BY <2>1 DEF TypeOK, DeliveryInvariant, StockInvariant
      <3>2. ASSUME NEW product \in Products
            PROVE  Promised(product) <= (Cardinality(Instances) + DeadProcesses) * MaxLevel
        <4>1. Promised(product) <= Held(product) + DeadProcesses * MaxLevel
          BY <2>1 DEF StockInvariant, PromisesHeld, MaxLevel
        <4>2. Held(product) \in Nat /\ Held(product) <= Cardinality(Instances) * MaxLevel
          BY <2>1, StockBounded DEF StockInvariant
        <4>3. /\ DeadProcesses * MaxLevel \in Nat /\ Cardinality(Instances) * MaxLevel \in Nat
              /\ (Cardinality(Instances) + DeadProcesses) * MaxLevel
                   = Cardinality(Instances) * MaxLevel + DeadProcesses * MaxLevel
          <5>1. DeadProcesses \in Nat /\ MaxLevel \in Nat /\ Cardinality(Instances) \in Nat
            BY <2>1, DeathsCounted, LevelFacts
          <5>2. \A a, b, c \in Nat : a * b \in Nat /\ (c + a) * b = c * b + a * b
            OBVIOUS
          <5> QED BY <5>1, <5>2
        <4>4. Promised(product) \in Nat
          <5>1. DeliveryInvariant => \A o \in Orders : Sold(o) \in Nat
            BY SoldIsNat
          <5>2. PICK sold : sold = [o \in Orders |-> Sold(o)]
            OBVIOUS
          <5>3. sold \in [Orders -> Nat]
            BY <2>1, <5>1, <5>2
          <5>4. [o \in Orders |-> Wanted(o, product)
                    * Cardinality(EventsOf("inventory.v1", o, "InventoryReserved"))]
                  = [p \in Orders |-> Wanted(p, product) * sold[p]]
            BY <5>2 DEF Sold
          <5>5. Promised(product) = Total([o \in Orders |-> Wanted(o, product)
                    * Cardinality(EventsOf("inventory.v1", o, "InventoryReserved"))])
            BY Zenon DEF Promised, Total
          <5>6. Total([p \in Orders |-> Wanted(p, product) * sold[p]]) \in Nat
            BY <5>3, PromisesCounted
          <5> QED BY <5>4, <5>5, <5>6, Zenon
        <4> QED BY <4>1, <4>2, <4>3, <4>4
      <3>3. SoldFromStock
        BY <3>2 DEF SoldFromStock, MaxLevel
      <3> QED BY <2>1, <3>1, <3>3 DEF InventoryInvariant, StockInvariant
    <2> QED BY <2>1
  <1> QED BY <1>1, <1>2, <1>3, PTL DEF Spec

(* Every unit a customer was promised is held in some stock, as long as no     *)
(* process died: an order is never answered with a reservation of part of its  *)
(* items (processInventoryReservation and its two publishers).                 *)
THEOREM StockIsPromisedOnce ==
    ASSUME IsFiniteSet(Orders)
    PROVE  Spec => []PromisesBacked
  <1>1. InventoryInvariant => PromisesBacked
    <2>1. ASSUME InventoryInvariant, DeadProcesses = 0, NEW product \in Products
          PROVE  Promised(product) <= Held(product)
      <3>1. Promised(product) <= Held(product) + 0 * MaxLevel
        BY <2>1 DEF InventoryInvariant, PromisesHeld, MaxLevel
      <3>2. 0 * MaxLevel = 0
        BY LevelFacts
      <3>3. Held(product) \in Nat
        BY <2>1, StockBounded DEF InventoryInvariant, TypeOK
      <3> QED BY <3>1, <3>2, <3>3
    <2> QED BY <2>1 DEF PromisesBacked
  <1> QED BY <1>1, InvariantHolds, PTL

(* What the orders of a set want, if all of them are reserved, is held.        *)
LEMMA ReservedAreHeld ==
    ASSUME IsFiniteSet(Orders), InventoryInvariant, PromisesBacked, DeadProcesses = 0,
           NEW product \in Products, NEW S \in SUBSET Orders,
           \A o \in S : Logged("inventory.v1", o, "InventoryReserved"),
           NEW wanted, wanted = [o \in Orders |-> IF o \in S THEN Wanted(o, product) ELSE 0]
    PROVE  Total(wanted) <= Held(product)
  <1>0. DeliveryInvariant /\ ShelvesBounded /\ inventory \in [Instances -> Shelf]
    BY DEF InventoryInvariant, DeliveryInvariant, TypeOK
  <1>1. PICK promised : promised = [o \in Orders |-> Wanted(o, product)
              * Cardinality(EventsOf("inventory.v1", o, "InventoryReserved"))]
    OBVIOUS
  <1>2. Total(promised) <= Held(product)
    <2>1. Promised(product) = Total(promised)
      BY <1>1, Zenon DEF Promised, Total
    <2> QED BY <2>1 DEF PromisesBacked
  <1>3. ASSUME NEW o \in Orders
        PROVE  /\ wanted[o] \in Nat /\ promised[o] \in Nat
               /\ wanted[o] <= promised[o]
    <2>1. Wanted(o, product) \in Nat
      BY UnitsWanted
    <2>2. PICK sold \in Nat : /\ sold = Cardinality(EventsOf("inventory.v1", o, "InventoryReserved"))
                              /\ o \in S => sold # 0
      <3>1. Keyed("inventory.v1", o) \in DOMAIN log /\ LogOK
        BY <1>0, TopicsKeyed, InvariantFacts DEF InventoryTopics
      <3> QED BY <3>1, EventsFinite
    <2>3. \A w, n \in Nat : w * n \in Nat /\ (n # 0 => w <= w * n) /\ 0 <= w * n
      OBVIOUS
    <2> QED BY <1>1, <2>1, <2>2, <2>3
  <1>4. wanted \in [Orders -> Nat] /\ promised \in [Orders -> Nat]
    BY <1>1, <1>3
  <1>5. Total(wanted) <= Total(promised) /\ Total(wanted) \in Nat /\ Total(promised) \in Nat
    BY <1>3, <1>4, SumGrows, SumIsNat
  <1>6. Held(product) \in Int
    BY <1>0, StockBounded
  <1> QED BY <1>2, <1>5, <1>6
=============================================================================
