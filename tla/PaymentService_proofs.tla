------------------------ MODULE PaymentService_proofs ------------------------
(* Theorems about PaymentService, for every set of orders, partitions and      *)
(* instances, every choice of results and every bound on the faults.           *)
EXTENDS PaymentService, ConsumerGroup_proofs

USE TopicsAssumption, GroupAssumption, PaymentAssumption

LEMMA InvariantFacts ==
    ASSUME PaymentInvariant
    PROVE  /\ GroupOK(Subscription) /\ LogOK
           /\ DOMAIN log = PaymentTopics \X Partitions
           /\ faults \in [FaultKinds -> Nat]
           /\ processed \in [Instances -> SUBSET (Subscription \X Nat)]
           /\ ProcessedWasAnswered /\ OrdersInPlace /\ ProcessedInLog
           /\ InFlightUnmarked /\ DeliveredWasAnswered
  <1>1. log \in [PaymentTopics \X Partitions -> Seq(Event)] /\ faults \in [FaultKinds -> Nat]
    BY DEF PaymentInvariant, TypeOK, TopicsType
  <1>2. LogOK /\ DOMAIN log = PaymentTopics \X Partitions
    BY <1>1 DEF LogOK
  <1>3. Subscription \subseteq DOMAIN log
    BY <1>2 DEF Subscription, PaymentTopics
  <1>4. GroupOK(Subscription)
    BY <1>2, <1>3 DEF PaymentInvariant, TypeOK, GroupOK
  <1> QED BY <1>1, <1>2, <1>4 DEF PaymentInvariant, TypeOK

LEMMA InvariantFrom ==
    ASSUME PaymentInvariant, LogGrows, GroupOK(Subscription)', faults' \in [FaultKinds -> Nat],
           processed' \in [Instances -> SUBSET (Subscription \X Nat)],
           ProcessedWasAnswered', OrdersInPlace', ProcessedInLog',
           InFlightUnmarked', DeliveredWasAnswered'
    PROVE  PaymentInvariant'
  <1>1. log' \in [PaymentTopics \X Partitions -> Seq(Event)]
    BY InvariantFacts DEF LogGrows
  <1>2. TypeOK'
    BY <1>1 DEF TypeOK, TopicsType, GroupOK
  <1> QED BY <1>2 DEF PaymentInvariant

LEMMA TopicsKeyed ==
    ASSUME PaymentInvariant, NEW topic \in PaymentTopics, NEW o \in Orders
    PROVE  Keyed(topic, o) \in DOMAIN log
  BY InvariantFacts DEF Keyed

LEMMA AnsweredStays ==
    ASSUME PaymentInvariant, LogGrows, NEW o \in Orders, Answered(o)
    PROVE  Answered(o)'
  <1>1. Keyed("payments.v1", o) \in DOMAIN log
    BY TopicsKeyed DEF PaymentTopics
  <1> QED BY <1>1, EventsStay, InvariantFacts DEF Answered

(* The order an offset stands for does not change.                             *)
LEMMA OrderAt ==
    ASSUME PaymentInvariant, LogGrows, NEW tp \in Subscription, NEW n \in DOMAIN log[tp]
    PROVE  /\ log[tp][n].order \in Orders
           /\ n \in DOMAIN log'[tp] /\ log'[tp][n] = log[tp][n]
  <1>1. tp \in DOMAIN log /\ LogOK
    BY InvariantFacts, GroupFacts
  <1>2. log[tp][n] \in Event /\ n \in 1..Len(log[tp]) /\ Len(log[tp]) \in Nat
    BY <1>1, LogFacts
  <1>3. DOMAIN log'[tp] = 1..Len(log'[tp]) /\ Len(log[tp]) <= Len(log'[tp]) /\ Len(log'[tp]) \in Nat
        /\ log'[tp][n] = log[tp][n]
    BY <1>1, <1>2, GrownFacts DEF LogGrows
  <1> QED BY <1>2, <1>3 DEF Event

LEMMA EntryAt ==
    ASSUME PaymentInvariant, LogGrows, NEW i \in Instances, NEW entry \in processed[i]
    PROVE  /\ entry[1] \in Subscription /\ entry[2] \in Nat /\ entry = <<entry[1], entry[2]>>
           /\ entry[2] + 1 \in DOMAIN log[entry[1]]
           /\ log[entry[1]][entry[2] + 1].order \in Orders
           /\ log'[entry[1]][entry[2] + 1] = log[entry[1]][entry[2] + 1]
           /\ entry[2] < Len(log'[entry[1]])
  <1>1. entry[1] \in Subscription /\ entry[2] \in Nat /\ entry = <<entry[1], entry[2]>>
    BY InvariantFacts
  <1>2. entry[2] < Len(log[entry[1]])
    BY InvariantFacts DEF ProcessedInLog
  <1>3. entry[1] \in DOMAIN log /\ LogOK
    BY <1>1, InvariantFacts, GroupFacts
  <1>4. entry[2] + 1 \in DOMAIN log[entry[1]] /\ Len(log[entry[1]]) \in Nat
    BY <1>1, <1>2, <1>3, LogFacts
  <1>5. Len(log[entry[1]]) <= Len(log'[entry[1]]) /\ Len(log'[entry[1]]) \in Nat
    BY <1>3, GrownFacts DEF LogGrows
  <1> QED BY <1>1, <1>2, <1>4, <1>5, OrderAt

(* A cache that only forgets still holds offsets of answered orders.           *)
LEMMA MemoryKept ==
    ASSUME PaymentInvariant, LogGrows, \A i \in Instances : processed'[i] \subseteq processed[i]
    PROVE  ProcessedWasAnswered' /\ ProcessedInLog'
  <1>1. ASSUME NEW i \in Instances, NEW entry \in processed'[i]
        PROVE  /\ Answered(log[entry[1]][entry[2] + 1].order)'
               /\ entry[2] < Len(log'[entry[1]])
    <2>1. entry \in processed[i]
      BY <1>1
    <2>2. PICK o \in Orders : o = log[entry[1]][entry[2] + 1].order
      BY <2>1, EntryAt
    <2>3. Answered(o)
      BY <2>1, <2>2, InvariantFacts DEF ProcessedWasAnswered
    <2>4. Answered(o)'
      BY <2>3, AnsweredStays
    <2>5. o = log'[entry[1]][entry[2] + 1].order
      BY <2>1, <2>2, EntryAt
    <2> QED BY <2>1, <2>4, <2>5, EntryAt
  <1> QED BY <1>1 DEF ProcessedWasAnswered, ProcessedInLog

LEMMA OrdersKept ==
    ASSUME PaymentInvariant, \A tp \in Subscription : log'[tp] = log[tp]
    PROVE  OrdersInPlace'
  BY InvariantFacts DEF OrdersInPlace

(* What was delivered or committed before the step was answered before it;     *)
(* what it delivers or commits beyond that must be answered after it.          *)
LEMMA DeliveredFrom ==
    ASSUME PaymentInvariant, LogGrows, faults'["send"] = 0 => faults["send"] = 0,
           faults["send"] = 0 /\ InitialCommitted = 0 =>
             \A tp \in Subscription :
               /\ group.committed[tp] # NoOffset => group'.committed[tp] # NoOffset
               /\ \A n \in DOMAIN log'[tp] :
                     n <= group'.position[tp] \/ n <= group'.committed[tp] =>
                       /\ n \in DOMAIN log[tp]
                       /\ \/ n <= group.position[tp] \/ n <= group.committed[tp]
                          \/ faults'["send"] > 0
                          \/ \E o \in Orders : o = log[tp][n].order /\ Answered(o)'
    PROVE  DeliveredWasAnswered'
  <1> SUFFICES ASSUME faults'["send"] = 0, InitialCommitted = 0, NEW tp \in Subscription
               PROVE  /\ group'.committed[tp] # NoOffset
                      /\ \A n \in DOMAIN log'[tp] :
                           n <= group'.position[tp] \/ n <= group'.committed[tp] =>
                             Answered(log[tp][n].order)'
    BY DEF DeliveredWasAnswered
  <1>1. group'.committed[tp] # NoOffset
    BY InvariantFacts DEF DeliveredWasAnswered
  <1>2. ASSUME NEW n \in DOMAIN log'[tp],
               n <= group'.position[tp] \/ n <= group'.committed[tp]
        PROVE  Answered(log[tp][n].order)'
    <2>1. n \in DOMAIN log[tp]
      BY <1>2
    <2>2. PICK o \in Orders : o = log[tp][n].order
      BY <2>1, OrderAt
    <2>3. o = log'[tp][n].order
      BY <2>1, <2>2, OrderAt
    <2>4. n <= group.position[tp] \/ n <= group.committed[tp] => Answered(o)
      BY <2>1, <2>2, InvariantFacts DEF DeliveredWasAnswered
    <2>5. Answered(o)'
      BY <1>2, <2>2, <2>4, AnsweredStays
    <2> QED BY <2>3, <2>5
  <1> QED BY <1>1, <1>2

(* Every order is placed on an event of its own at the end of its partition.   *)
LEMMA PlacementKeepsInvariant ==
    ASSUME PaymentInvariant, NEW o \in Orders, CustomerPlaces(o)
    PROVE  /\ PaymentInvariant' /\ LogGrows /\ UNCHANGED <<faults, processed>>
           /\ \A p \in Orders, kind \in PaymentKinds :
                EventsOf("payments.v1", p, kind)' = EventsOf("payments.v1", p, kind)
  <1> DEFINE tp0 == Keyed("orders.v1", o)
             last == Len(log[tp0]) + 1
  <1>1. /\ Send("orders.v1", o, "OrderPlaced") /\ ~Placed(o)
        /\ UNCHANGED <<faults, group, inFlight, processed>>
    BY DEF CustomerPlaces, PlaceOrder
  <1>2. "OrderPlaced" \in EventKinds /\ PaymentKinds \subseteq EventKinds
    BY DEF EventKinds, PaymentKinds, AnswerKinds
  <1>3. tp0 \in DOMAIN log /\ tp0 \in Subscription
    BY TopicsKeyed DEF PaymentTopics, Keyed, Subscription
  <1>4. /\ LogGrows
        /\ \A tp \in DOMAIN log \ {tp0} : log'[tp] = log[tp]
        /\ DOMAIN log'[tp0] = DOMAIN log[tp0] \cup {last}
        /\ log'[tp0][last] = [order |-> o, kind |-> "OrderPlaced"]
    BY <1>1, <1>2, <1>3, SendAppends, InvariantFacts
  <1>5. DOMAIN log[tp0] = 1..Len(log[tp0]) /\ Len(log[tp0]) \in Nat
    BY <1>3, LogFacts, InvariantFacts
  <1>6. tp0[2] = PartitionOf[o]
    BY DEF Keyed
  <1>7. \A n \in DOMAIN log[tp0] : log[tp0][n].order # o
    <2>1. SUFFICES ASSUME NEW n \in DOMAIN log[tp0], log[tp0][n].order = o
                   PROVE  FALSE
      OBVIOUS
    <2>2. log[tp0][n] \in Event /\ log[tp0][n].kind = "OrderPlaced"
      BY <1>3, <1>5, LogFacts, InvariantFacts DEF OrdersInPlace
    <2>3. log[tp0][n] = [order |-> o, kind |-> "OrderPlaced"]
      BY <2>1, <2>2 DEF Event
    <2> QED BY <1>1, <2>3 DEF Placed, Logged, EventsOf, Keyed
  <1>h. HIDE DEF tp0, last
  <1>8. GroupOK(Subscription)'
    BY <1>1, <1>4, GroupKept, InvariantFacts
  <1>9. ProcessedWasAnswered' /\ ProcessedInLog'
    BY <1>1, <1>4, MemoryKept
  <1>10. \A tp \in Subscription : \A n \in DOMAIN log[tp] :
           n \in DOMAIN log'[tp] /\ log'[tp][n] = log[tp][n]
    BY <1>4, OrderAt
  <1>11. OrdersInPlace'
    <2>1. ASSUME NEW tp \in Subscription, tp # tp0
          PROVE  log'[tp] = log[tp]
      BY <1>4, <2>1, InvariantFacts, GroupFacts
    <2>2. ASSUME NEW n \in DOMAIN log'[tp0]
          PROVE  /\ tp0[2] = PartitionOf[log'[tp0][n].order]
                 /\ log'[tp0][n].kind = "OrderPlaced"
                 /\ \A k \in DOMAIN log'[tp0] : log'[tp0][k].order = log'[tp0][n].order => k = n
      <3>1. \A k \in DOMAIN log[tp0] : log'[tp0][k] = log[tp0][k]
        BY <1>3, <1>10
      <3>2. CASE n = last
        BY <3>1, <3>2, <1>4, <1>6, <1>7
      <3>3. CASE n \in DOMAIN log[tp0]
        BY <3>1, <3>3, <1>3, <1>4, <1>7, InvariantFacts DEF OrdersInPlace
      <3> QED BY <3>2, <3>3, <1>4
    <2>3. ASSUME NEW tp \in Subscription, NEW n \in DOMAIN log'[tp]
          PROVE  /\ tp[2] = PartitionOf[log'[tp][n].order]
                 /\ log'[tp][n].kind = "OrderPlaced"
                 /\ \A k \in DOMAIN log'[tp] : log'[tp][k].order = log'[tp][n].order => k = n
      <3>1. CASE tp = tp0
        BY <2>2, <3>1
      <3>2. CASE tp # tp0
        BY <2>1, <3>2, InvariantFacts DEF OrdersInPlace
      <3> QED BY <3>1, <3>2
    <2> QED BY <2>3 DEF OrdersInPlace
  <1>12. InFlightUnmarked'
    BY <1>1, InvariantFacts DEF InFlightUnmarked
  <1>13. DeliveredWasAnswered'
    <2>1. ASSUME NEW tp \in Subscription, NEW n \in DOMAIN log'[tp],
                 n <= group.position[tp] \/ n <= group.committed[tp]
          PROVE  n \in DOMAIN log[tp]
      <3>1. /\ group.position[tp] \in Nat /\ group.position[tp] <= Len(log[tp])
            /\ group.committed[tp] \in Int /\ group.committed[tp] <= Len(log[tp])
            /\ tp \in DOMAIN log
        BY InvariantFacts, GroupFacts
      <3>2. /\ DOMAIN log[tp] = 1..Len(log[tp]) /\ Len(log[tp]) \in Nat
            /\ DOMAIN log'[tp] = 1..Len(log'[tp]) /\ Len(log'[tp]) \in Nat
        BY <3>1, <1>4, LogFacts, GrownFacts, InvariantFacts
      <3> QED BY <2>1, <3>1, <3>2
    <2> QED BY <1>1, <1>4, <2>1, DeliveredFrom
  <1>14. PaymentInvariant'
    BY <1>1, <1>4, <1>8, <1>9, <1>11, <1>12, <1>13, InvariantFrom, InvariantFacts
  <1>15. ASSUME NEW p \in Orders, NEW kind \in PaymentKinds
         PROVE  EventsOf("payments.v1", p, kind)' = EventsOf("payments.v1", p, kind)
    <2>1. Keyed("payments.v1", p) \in DOMAIN log /\ Keyed("payments.v1", p) # tp0
      BY TopicsKeyed DEF Keyed, PaymentTopics, tp0
    <2> QED BY <1>4, <2>1 DEF EventsOf, Keyed
  <1> QED BY <1>1, <1>4, <1>14, <1>15

(* A step that leaves topics and memory alone.                                 *)
LEMMA QuietStep ==
    ASSUME PaymentInvariant, UNCHANGED log,
           \A i \in Instances : processed'[i] \subseteq processed[i]
    PROVE  LogGrows /\ OrdersInPlace' /\ ProcessedWasAnswered' /\ ProcessedInLog'
  BY SameLogGrows, OrdersKept, MemoryKept, InvariantFacts

LEMMA SkipKeepsInvariant ==
    ASSUME PaymentInvariant, NEW i \in Instances, NEW tp \in Subscription, SkipDuplicate(i, tp)
    PROVE  PaymentInvariant'
  <1>1. /\ Deliverable(i, tp) /\ FinishAtOnce(tp) /\ UNCHANGED <<log, faults, processed>>
        /\ <<tp, group.position[tp]>> \in processed[i]
    BY DEF SkipDuplicate, IsDuplicate
  <1>2. LogGrows /\ OrdersInPlace' /\ ProcessedWasAnswered' /\ ProcessedInLog'
    BY <1>1, QuietStep
  <1>3. /\ GroupOK(Subscription)' /\ inFlight' = inFlight
        /\ group'.committed = group.committed
        /\ group'.position = [group.position EXCEPT ![tp] = @ + 1]
    BY <1>1, GroupFinishAtOnce, InvariantFacts
  <1>4. InFlightUnmarked'
    BY <1>1, <1>3, InvariantFacts DEF InFlightUnmarked
  <1>5. group.position[tp] + 1 \in DOMAIN log[tp]
    BY <1>1, DeliveredEvent, InvariantFacts
  <1>6. PICK o \in Orders : o = log[tp][group.position[tp] + 1].order
    BY <1>2, <1>5, OrderAt
  <1>7. Answered(o)'
    <2>1. Answered(log[tp][group.position[tp] + 1].order)
      BY <1>1, InvariantFacts DEF ProcessedWasAnswered
    <2> QED BY <1>2, <1>6, <2>1, AnsweredStays
  <1>8. DeliveredWasAnswered'
    <2>1. ASSUME NEW t \in Subscription, NEW n \in DOMAIN log[t],
                 n <= group'.position[t], ~(n <= group.position[t])
          PROVE  t = tp /\ n = group.position[tp] + 1
      <3>1. n \in Nat /\ group.position \in [Subscription -> Nat]
        BY LogFacts, InvariantFacts, GroupFacts DEF GroupRecord
      <3> QED BY <1>3, <2>1, <3>1
    <2> QED BY <1>1, <1>2, <1>3, <1>6, <1>7, <2>1, DeliveredFrom
  <1> QED BY <1>1, <1>2, <1>3, <1>4, <1>8, InvariantFrom, InvariantFacts

LEMMA BeginKeepsInvariant ==
    ASSUME PaymentInvariant, NEW i \in Instances, NEW tp \in Subscription, BeginPayment(i, tp)
    PROVE  PaymentInvariant'
  <1>1. /\ Deliverable(i, tp) /\ BeginHandling(i, tp) /\ UNCHANGED <<log, faults, processed>>
        /\ <<tp, group.position[tp]>> \notin processed[i]
    BY DEF BeginPayment, IsDuplicate
  <1>2. LogGrows /\ OrdersInPlace' /\ ProcessedWasAnswered' /\ ProcessedInLog'
    BY <1>1, QuietStep
  <1>3. /\ GroupOK(Subscription)' /\ group' = group
        /\ inFlight' = inFlight \cup
             {[instance |-> i, tp |-> tp, offset |-> group.position[tp], live |-> TRUE]}
    BY <1>1, GroupBeginHandling, InvariantFacts
  <1>4. InFlightUnmarked'
    <2>1. ASSUME NEW n \in inFlight'
          PROVE  <<n.tp, n.offset>> \notin processed[n.instance]
      <3>1. CASE n \in inFlight
        BY <3>1, InvariantFacts DEF InFlightUnmarked
      <3>2. CASE n = [instance |-> i, tp |-> tp, offset |-> group.position[tp], live |-> TRUE]
        <4>1. n.instance = i /\ n.tp = tp /\ n.offset = group.position[tp]
          BY <3>2
        <4> QED BY <1>1, <4>1
      <3> QED BY <1>3, <3>1, <3>2
    <2> QED BY <1>1, <2>1 DEF InFlightUnmarked
  <1>5. DeliveredWasAnswered'
    <2>1. \A t \in Subscription :
            /\ group.position[t] \in Nat /\ group.position[t] <= Len(log[t])
            /\ group.committed[t] \in Int /\ group.committed[t] <= Len(log[t])
      BY InvariantFacts, GroupFacts
    <2> QED BY <1>1, <1>2, <1>3, <2>1, DeliveredFrom
  <1> QED BY <1>1, <1>2, <1>3, <1>4, <1>5, InvariantFrom, InvariantFacts

(* The answer's send settles: with the offset marked if it was acknowledged,   *)
(* and with a fault counted if it was not.                                     *)
LEMMA AnswerFacts ==
    ASSUME PaymentInvariant, NEW m \in inFlight, NEW kind \in ResultsOf[EventOf(m).order],
           AnswerOrder(m, kind) \/ AnswerFails(m, kind)
    PROVE  \E o \in Orders :
             /\ o = EventOf(m).order /\ kind \in PaymentKinds
             /\ Send("payments.v1", o, kind) \/ (UNCHANGED log /\ faults'["send"] = faults["send"] + 1)
             /\ faults' \in [FaultKinds -> Nat]
             /\ \A k \in FaultKinds \ {"send"} : faults'[k] = faults[k]
             /\ FinishHandling(m)
             /\ \/ /\ faults' = faults /\ Send("payments.v1", o, kind)
                   /\ processed' = [processed EXCEPT ![m.instance] = @ \cup {<<m.tp, m.offset>>}]
                \/ faults'["send"] = faults["send"] + 1 /\ processed' = processed
  <1>1. PICK o \in Orders : o = EventOf(m).order
    BY HandledEvent, InvariantFacts DEF Event
  <1>2. kind \in PaymentKinds
    BY <1>1
  <1>3. "send" \in FaultKinds
    BY DEF FaultKinds
  <1>4. CASE AnswerOrder(m, kind)
    BY <1>1, <1>2, <1>4, InvariantFacts DEF AnswerOrder
  <1>5. CASE AnswerFails(m, kind)
    <2>1. /\ faults' \in [FaultKinds -> Nat] /\ faults'["send"] = faults["send"] + 1
          /\ \A k \in FaultKinds \ {"send"} : faults'[k] = faults[k]
      BY <1>3, <1>5, FaultCounted, InvariantFacts DEF AnswerFails
    <2> QED BY <1>1, <1>2, <1>5, <2>1 DEF AnswerFails, SendUnacknowledged
  <1> QED BY <1>4, <1>5

LEMMA AnswerKeepsInvariant ==
    ASSUME PaymentInvariant, Answer
    PROVE  PaymentInvariant'
  <1>1. PICK m \in inFlight : \E kind \in ResultsOf[EventOf(m).order] :
          AnswerOrder(m, kind) \/ AnswerFails(m, kind)
    BY DEF Answer
  <1>2. PICK kind \in ResultsOf[EventOf(m).order] : AnswerOrder(m, kind) \/ AnswerFails(m, kind)
    BY <1>1
  <1>3. PICK o \in Orders :
          /\ o = EventOf(m).order /\ kind \in PaymentKinds
          /\ Send("payments.v1", o, kind) \/ (UNCHANGED log /\ faults'["send"] = faults["send"] + 1)
          /\ faults' \in [FaultKinds -> Nat]
          /\ FinishHandling(m)
          /\ \/ /\ faults' = faults /\ Send("payments.v1", o, kind)
                /\ processed' = [processed EXCEPT ![m.instance] = @ \cup {<<m.tp, m.offset>>}]
             \/ faults'["send"] = faults["send"] + 1 /\ processed' = processed
    BY <1>2, AnswerFacts
  <1>4. Keyed("payments.v1", o) \in DOMAIN log /\ kind \in EventKinds
    BY <1>3, TopicsKeyed DEF PaymentTopics, PaymentKinds, EventKinds, AnswerKinds
  <1>5. /\ LogGrows
        /\ \A tp \in DOMAIN log \ {Keyed("payments.v1", o)} : log'[tp] = log[tp]
    <2>1. CASE Send("payments.v1", o, kind)
      BY <1>4, <2>1, SendAppends, InvariantFacts
    <2>2. CASE UNCHANGED log
      BY <2>2, SameLogGrows, InvariantFacts
    <2> QED BY <1>3, <2>1, <2>2
  <1>6. \A tp \in Subscription : log'[tp] = log[tp]
    BY <1>5, InvariantFacts, GroupFacts DEF Subscription, Keyed
  <1>7. /\ GroupOK(Subscription)' /\ inFlight' = inFlight \ {m}
        /\ group'.committed = group.committed
        /\ group'.position = IF m.live THEN [group.position EXCEPT ![m.tp] = @ + 1]
                                       ELSE group.position
    BY <1>3, <1>5, GroupFinishHandling, InvariantFacts
  <1>8. Send("payments.v1", o, kind) => Answered(o)'
    <2>1. ASSUME Send("payments.v1", o, kind)
          PROVE  Len(log[Keyed("payments.v1", o)]) + 1 \in EventsOf("payments.v1", o, kind)'
      BY <1>4, <2>1, EventsSent, InvariantFacts
    <2> QED BY <1>3, <2>1 DEF Answered, Logged
  <1>9. /\ m.instance \in Instances /\ m.tp \in Subscription /\ m.offset \in Nat
        /\ m.offset + 1 \in DOMAIN log[m.tp] /\ EventOf(m) = log[m.tp][m.offset + 1]
        /\ m.offset < Len(log[m.tp]) /\ m.live => group.position[m.tp] = m.offset
        /\ \A n \in inFlight : n.instance = m.instance => n = m
    BY InvariantFacts, GroupFacts, HandledEvent
  <1>10. processed' \in [Instances -> SUBSET (Subscription \X Nat)]
    <2>1. processed[m.instance] \cup {<<m.tp, m.offset>>} \in SUBSET (Subscription \X Nat)
      BY <1>9, InvariantFacts
    <2> QED BY <1>3, <2>1, InvariantFacts
  <1>11. \A i \in Instances : \A entry \in processed'[i] :
           entry \in processed[i] \/ (i = m.instance /\ entry = <<m.tp, m.offset>> /\ Answered(o)')
    BY <1>3, <1>8, <1>9, InvariantFacts
  <1>12. ProcessedWasAnswered' /\ ProcessedInLog'
    <2>1. ASSUME NEW i \in Instances, NEW entry \in processed'[i]
          PROVE  /\ Answered(log[entry[1]][entry[2] + 1].order)'
                 /\ entry[2] < Len(log'[entry[1]])
      <3>1. CASE entry \in processed[i]
        <4>1. PICK p \in Orders : p = log[entry[1]][entry[2] + 1].order
          BY <1>5, <3>1, EntryAt
        <4>2. Answered(p)
          BY <3>1, <4>1, InvariantFacts DEF ProcessedWasAnswered
        <4>3. Answered(p)'
          BY <1>5, <4>2, AnsweredStays
        <4>4. p = log'[entry[1]][entry[2] + 1].order
          BY <1>5, <3>1, <4>1, EntryAt
        <4> QED BY <1>5, <3>1, <4>3, <4>4, EntryAt
      <3>2. CASE entry = <<m.tp, m.offset>> /\ Answered(o)'
        <4>1. o = log'[m.tp][m.offset + 1].order
          BY <1>3, <1>6, <1>9
        <4>2. m.offset < Len(log'[m.tp])
          BY <1>6, <1>9
        <4> QED BY <3>2, <4>1, <4>2
      <3> QED BY <1>11, <3>1, <3>2
    <2> QED BY <2>1 DEF ProcessedWasAnswered, ProcessedInLog
  <1>13. OrdersInPlace'
    BY <1>6, OrdersKept
  <1>14. InFlightUnmarked'
    <2>1. ASSUME NEW n \in inFlight'
          PROVE  <<n.tp, n.offset>> \notin processed'[n.instance]
      <3>1. n \in inFlight /\ n.instance \in Instances /\ n.instance # m.instance
        BY <1>7, <1>9, InvariantFacts, GroupFacts
      <3>2. processed'[n.instance] = processed[n.instance]
        BY <1>3, <3>1, InvariantFacts
      <3> QED BY <3>1, <3>2, InvariantFacts DEF InFlightUnmarked
    <2> QED BY <2>1 DEF InFlightUnmarked
  <1>15. DeliveredWasAnswered'
    <2>1. ASSUME NEW t \in Subscription, NEW n \in DOMAIN log[t],
                 n <= group'.position[t], ~(n <= group.position[t])
          PROVE  t = m.tp /\ n = m.offset + 1
      <3>1. n \in Nat /\ group.position \in [Subscription -> Nat]
        BY LogFacts, InvariantFacts, GroupFacts DEF GroupRecord
      <3> QED BY <1>7, <1>9, <2>1, <3>1
    <2>2. faults["send"] \in Nat /\ faults'["send"] \in Nat
      BY <1>3, InvariantFacts DEF FaultKinds
    <2>3. faults'["send"] = 0 => faults["send"] = 0 /\ Answered(o)'
      BY <1>3, <1>8, <2>2
    <2>4. ASSUME NEW tp \in Subscription, NEW n \in DOMAIN log'[tp],
                 n <= group'.position[tp] \/ n <= group'.committed[tp]
          PROVE  /\ n \in DOMAIN log[tp]
                 /\ \/ n <= group.position[tp] \/ n <= group.committed[tp]
                    \/ faults'["send"] > 0
                    \/ \E p \in Orders : p = log[tp][n].order /\ Answered(p)'
      <3>1. n \in DOMAIN log[tp]
        BY <1>6, <2>4
      <3>2. CASE n <= group'.position[tp] /\ ~(n <= group.position[tp])
        <4>1. tp = m.tp /\ n = m.offset + 1
          BY <3>1, <3>2, <2>1
        <4> QED BY <1>3, <1>9, <2>2, <2>3, <3>1, <4>1
      <3> QED BY <1>7, <2>4, <3>1, <3>2
    <2> QED BY <1>5, <1>7, <2>3, <2>4, DeliveredFrom
  <1> QED BY <1>3, <1>5, <1>7, <1>10, <1>12, <1>13, <1>14, <1>15, InvariantFrom

LEMMA CommitKeepsInvariant ==
    ASSUME PaymentInvariant, NEW i \in Instances, Commit(i)
    PROVE  PaymentInvariant'
  <1>1. AutoCommit(i) /\ UNCHANGED processed
    BY DEF Commit
  <1>2. /\ GroupOK(Subscription)' /\ UNCHANGED <<log, faults, inFlight>>
        /\ group'.position = group.position
        /\ \A tp \in Subscription :
              group'.committed[tp] \in {group.committed[tp], group.position[tp]}
    BY <1>1, GroupAutoCommit, InvariantFacts
  <1>3. LogGrows /\ OrdersInPlace' /\ ProcessedWasAnswered' /\ ProcessedInLog'
    BY <1>1, <1>2, QuietStep
  <1>4. InFlightUnmarked'
    BY <1>1, <1>2, InvariantFacts DEF InFlightUnmarked
  <1>5. DeliveredWasAnswered'
    <2>1. \A tp \in Subscription : group.position[tp] \in Nat
      BY InvariantFacts, GroupFacts
    <2> QED BY <1>2, <1>3, <2>1, DeliveredFrom DEF NoOffset
  <1> QED BY <1>1, <1>2, <1>3, <1>4, <1>5, InvariantFrom, InvariantFacts

(* The members rejoin, with the memory they have left.                         *)
LEMMA RejoinKeepsInvariant ==
    ASSUME PaymentInvariant, NEW kind \in {"rebalance", "crash", "replay"}, Fault(kind),
           NEW survivors, NEW committed,
           committed \in {group.committed, ResetToEarliest(group.committed)},
           Rejoin(survivors, committed),
           processed' \in [Instances -> SUBSET (Subscription \X Nat)],
           \A i \in Instances : processed'[i] \subseteq processed[i]
    PROVE  PaymentInvariant'
  <1>0. kind \in FaultKinds /\ "send" \in FaultKinds \ {kind}
    BY DEF FaultKinds
  <1>1. /\ GroupOK(Subscription)' /\ UNCHANGED log
        /\ faults' \in [FaultKinds -> Nat] /\ faults'["send"] = faults["send"]
        /\ \A m \in inFlight' : \E n \in inFlight :
              m.instance = n.instance /\ m.tp = n.tp /\ m.offset = n.offset
        /\ \A tp \in Subscription : group.committed[tp] # NoOffset =>
             /\ group'.committed[tp] # NoOffset
             /\ group'.committed[tp] <= group.committed[tp]
             /\ group'.position[tp] <= group.committed[tp]
    BY <1>0, GroupRejoins, InvariantFacts
  <1>2. LogGrows /\ OrdersInPlace' /\ ProcessedWasAnswered' /\ ProcessedInLog'
    BY <1>1, QuietStep
  <1>3. InFlightUnmarked'
    <2>1. ASSUME NEW m \in inFlight'
          PROVE  <<m.tp, m.offset>> \notin processed'[m.instance]
      <3>1. PICK n \in inFlight : m.instance = n.instance /\ m.tp = n.tp /\ m.offset = n.offset
        BY <1>1
      <3>2. <<n.tp, n.offset>> \notin processed[n.instance] /\ n.instance \in Instances
        BY InvariantFacts, GroupFacts DEF InFlightUnmarked
      <3> QED BY <3>1, <3>2
    <2> QED BY <2>1 DEF InFlightUnmarked
  <1>4. DeliveredWasAnswered'
    <2>1. ASSUME faults["send"] = 0, InitialCommitted = 0, NEW tp \in Subscription
          PROVE  /\ group'.committed[tp] # NoOffset
                 /\ \A n \in DOMAIN log'[tp] :
                      n <= group'.position[tp] \/ n <= group'.committed[tp] =>
                        n \in DOMAIN log[tp] /\ n <= group.committed[tp]
      <3>1. group.committed[tp] # NoOffset
        BY <2>1, InvariantFacts DEF DeliveredWasAnswered
      <3>2. /\ group'.position[tp] \in Nat /\ group'.committed[tp] \in Int
            /\ group.committed[tp] \in Int
        BY <1>1, GroupFacts, InvariantFacts DEF GroupOK, GroupType, NoOffset
      <3>3. \A n \in DOMAIN log[tp] : n \in Nat
        BY LogFacts, InvariantFacts, GroupFacts
      <3> QED BY <1>1, <3>1, <3>2, <3>3
    <2> QED BY <1>1, <1>2, <2>1, DeliveredFrom
  <1> QED BY <1>1, <1>2, <1>3, <1>4, InvariantFrom

LEMMA PaymentInit ==
    ASSUME Init
    PROVE  PaymentInvariant
  <1>1. Subscription \subseteq PaymentTopics \X Partitions
    BY DEF Subscription, PaymentTopics
  <1>2. /\ GroupOK(Subscription) /\ faults \in [FaultKinds -> Nat]
        /\ DOMAIN log = PaymentTopics \X Partitions
        /\ \A tp \in DOMAIN log : DOMAIN log[tp] = {} /\ Len(log[tp]) = 0
        /\ \A tp \in Subscription : group.committed[tp] = InitialCommitted
        /\ inFlight = {}
    BY <1>1, GroupStarts DEF Init
  <1>3. \A tp \in Subscription : DOMAIN log[tp] = {}
    BY <1>1, <1>2
  <1>4. TypeOK
    BY <1>2 DEF TypeOK, TopicsType, GroupOK, LogOK, Init
  <1>5. ProcessedWasAnswered /\ ProcessedInLog
    BY DEF Init, ProcessedWasAnswered, ProcessedInLog
  <1>6. OrdersInPlace /\ InFlightUnmarked /\ DeliveredWasAnswered
    BY <1>2, <1>3 DEF OrdersInPlace, InFlightUnmarked, DeliveredWasAnswered, NoOffset
  <1> QED BY <1>4, <1>5, <1>6 DEF PaymentInvariant

LEMMA PaymentStutter ==
    ASSUME PaymentInvariant, UNCHANGED vars
    PROVE  PaymentInvariant'
  <1>1. UNCHANGED <<log, faults, group, inFlight, processed>>
    BY DEF vars
  <1>2. LogGrows /\ OrdersInPlace' /\ ProcessedWasAnswered' /\ ProcessedInLog'
    BY <1>1, QuietStep
  <1>3. GroupOK(Subscription)'
    BY <1>1, <1>2, GroupKept, InvariantFacts
  <1>4. InFlightUnmarked'
    BY <1>1, InvariantFacts DEF InFlightUnmarked
  <1>5. DeliveredWasAnswered'
    BY <1>1, <1>2, DeliveredFrom
  <1> QED BY <1>1, <1>2, <1>3, <1>4, <1>5, InvariantFrom, InvariantFacts

(* Every step keeps the invariant.                                             *)
LEMMA PaymentNext ==
    ASSUME PaymentInvariant, [Next]_vars
    PROVE  PaymentInvariant'
  <1>1. ASSUME NEW o \in Orders, CustomerPlaces(o)
        PROVE  PaymentInvariant'
    BY <1>1, PlacementKeepsInvariant
  <1>2. ASSUME NEW i \in Instances, Handle(i)
        PROVE  PaymentInvariant'
    BY <1>2, SkipKeepsInvariant, BeginKeepsInvariant DEF Handle
  <1>3. ASSUME NEW i \in Instances, Commit(i)
        PROVE  PaymentInvariant'
    BY <1>3, CommitKeepsInvariant
  <1>4. ASSUME NEW i \in Instances, Crash(i)
        PROVE  PaymentInvariant'
    <2>1. /\ Fault("crash") /\ Rejoin(Instances \ {i}, group.committed)
          /\ processed' = [processed EXCEPT ![i] = {}]
      BY <1>4 DEF Crash, CrashAndRejoin
    <2>2. /\ processed' \in [Instances -> SUBSET (Subscription \X Nat)]
          /\ \A j \in Instances : processed'[j] \subseteq processed[j]
      BY <2>1, InvariantFacts
    <2> QED BY <2>1, <2>2, RejoinKeepsInvariant
  <1>5. CASE Answer
    BY <1>5, AnswerKeepsInvariant
  <1>6. CASE GroupRebalances
    <2>1. Fault("rebalance") /\ Rejoin(Instances, group.committed) /\ processed' = processed
      BY <1>6 DEF GroupRebalances, Rebalance
    <2> QED BY <2>1, InvariantFacts, RejoinKeepsInvariant
  <1>7. CASE ReplayOrders
    <2>1. /\ Fault("replay") /\ Rejoin({}, ResetToEarliest(group.committed))
          /\ processed' = [i \in Instances |-> {}]
      BY <1>7 DEF ReplayOrders, Replay
    <2>2. /\ processed' \in [Instances -> SUBSET (Subscription \X Nat)]
          /\ \A j \in Instances : processed'[j] \subseteq processed[j]
      BY <2>1
    <2> QED BY <2>1, <2>2, RejoinKeepsInvariant
  <1>8. CASE UNCHANGED vars
    BY <1>8, PaymentStutter
  <1> QED BY <1>1, <1>2, <1>3, <1>4, <1>5, <1>6, <1>7, <1>8 DEF Next, PaymentStep

(* Under every fault: what an instance takes for a duplicate was answered, an  *)
(* order is on its topic once, and until a send is rejected everything that    *)
(* was delivered or committed was answered (handleOrderPlaced, isDuplicate,    *)
(* markProcessed).                                                             *)
THEOREM InvariantHolds == Spec => []PaymentInvariant
  <1>1. Init => PaymentInvariant
    BY PaymentInit
  <1>2. PaymentInvariant /\ [Next]_vars => PaymentInvariant'
    BY PaymentNext
  <1> QED BY <1>1, <1>2, PTL DEF Spec

(* A service whose group has committed before loses no order: an offset is     *)
(* committed only when its order was answered, through any number of           *)
(* rebalances, crashes and replays, unless a send was rejected (the swallowed  *)
(* error of handleOrderPlaced is the only way to lose one).                    *)
THEOREM NoOrderLost ==
    ASSUME InitialCommitted = 0
    PROVE  Spec => []CommittedWasAnswered
  <1>1. PaymentInvariant => CommittedWasAnswered
    <2>1. ASSUME PaymentInvariant, faults["send"] = 0, NEW tp \in Subscription,
                 NEW n \in 1..Len(log[tp]), n <= group.committed[tp]
          PROVE  Answered(log[tp][n].order)
      <3>1. n \in DOMAIN log[tp]
        BY <2>1, LogFacts, InvariantFacts, GroupFacts
      <3> QED BY <2>1, <3>1, InvariantFacts DEF DeliveredWasAnswered
    <2> QED BY <2>1 DEF CommittedWasAnswered
  <1> QED BY <1>1, InvariantHolds, PTL

-----------------------------------------------------------------------------
(* How often an order is charged                                               *)

LEMMA MemoryFacts ==
    ASSUME PaymentInvariant, NEW o \in Orders
    PROVE  /\ IsFiniteSet(Remembering(o)) /\ Cardinality(Remembering(o)) \in Nat
           /\ Cardinality(Instances) \in Nat
           /\ Cardinality(Remembering(o)) <= Cardinality(Instances)
           /\ DeadProcesses \in Nat /\ faults["send"] \in Nat
           /\ Payments(o) \in Nat
  <1>1. Remembering(o) \subseteq Instances
    BY DEF Remembering
  <1>2. /\ IsFiniteSet(Remembering(o)) /\ Cardinality(Remembering(o)) \in Nat
        /\ Cardinality(Instances) \in Nat
        /\ Cardinality(Remembering(o)) <= Cardinality(Instances)
    BY <1>1, FS_Subset, FS_CardinalityType
  <1>3. faults["crash"] \in Nat /\ faults["replay"] \in Nat /\ faults["send"] \in Nat
    BY InvariantFacts DEF FaultKinds
  <1>4. Keyed("payments.v1", o) \in DOMAIN log /\ LogOK
    BY TopicsKeyed, InvariantFacts DEF PaymentTopics
  <1>5. \A kind \in PaymentKinds : Cardinality(EventsOf("payments.v1", o, kind)) \in Nat
    BY <1>4, EventsFinite
  <1>6. Payments(o) \in Nat
    BY <1>5 DEF Payments, PaymentKinds
  <1>7. DeadProcesses \in Nat
    BY <1>2, <1>3 DEF DeadProcesses
  <1> QED BY <1>2, <1>3, <1>6, <1>7

(* A process that keeps its cache keeps remembering.                           *)
LEMMA StillRemembering ==
    ASSUME PaymentInvariant, LogGrows, NEW o \in Orders, NEW i \in Instances
    PROVE  /\ i \in Remembering(o) /\ processed[i] \subseteq processed'[i] => i \in Remembering(o)'
           /\ i \in Remembering(o)' /\ processed'[i] \subseteq processed[i] => i \in Remembering(o)
  BY EntryAt DEF Remembering

LEMMA RememberingKept ==
    ASSUME PaymentInvariant, LogGrows, processed' = processed, NEW o \in Orders
    PROVE  Remembering(o)' = Remembering(o)
  <1>1. Remembering(o) \subseteq Instances /\ Remembering(o)' \subseteq Instances
    BY DEF Remembering
  <1> QED BY <1>1, StillRemembering

LEMMA PaymentsSent ==
    ASSUME PaymentInvariant, NEW o \in Orders, NEW kind \in PaymentKinds,
           Send("payments.v1", o, kind), NEW p \in Orders
    PROVE  Payments(p)' = Payments(p) + (IF p = o THEN 1 ELSE 0)
  <1>1. PaymentKinds \subseteq EventKinds
    BY DEF PaymentKinds, EventKinds, AnswerKinds
  <1>2. /\ Keyed("payments.v1", o) \in DOMAIN log /\ Keyed("payments.v1", p) \in DOMAIN log
        /\ LogOK
    BY TopicsKeyed, InvariantFacts DEF PaymentTopics
  <1>3. \A k \in PaymentKinds :
          Cardinality(EventsOf("payments.v1", p, k)') =
            Cardinality(EventsOf("payments.v1", p, k)) + (IF p = o /\ k = kind THEN 1 ELSE 0)
    BY <1>1, <1>2, EventsCounted
  <1>4. \A k \in PaymentKinds : Cardinality(EventsOf("payments.v1", p, k)) \in Nat
    BY <1>2, EventsFinite
  <1> QED BY <1>3, <1>4 DEF Payments, PaymentKinds

(* The process that answers an order does not remember it: its cache would     *)
(* hold the one offset of the order, the offset it is working on.              *)
LEMMA AnsweringForgot ==
    ASSUME PaymentInvariant, NEW m \in inFlight, NEW o \in Orders, o = EventOf(m).order
    PROVE  m.instance \notin Remembering(o)
  <1>1. SUFFICES ASSUME NEW entry \in processed[m.instance],
                        log[entry[1]][entry[2] + 1].order = o
                 PROVE  FALSE
    BY DEF Remembering
  <1>2. /\ m.instance \in Instances /\ m.tp \in Subscription /\ m.offset \in Nat
        /\ m.offset + 1 \in DOMAIN log[m.tp] /\ EventOf(m) = log[m.tp][m.offset + 1]
    BY InvariantFacts, GroupFacts, HandledEvent
  <1>3. entry[1] \in Subscription /\ entry[2] \in Nat /\ entry = <<entry[1], entry[2]>>
        /\ entry[2] + 1 \in DOMAIN log[entry[1]]
    <2>1. entry[1] \in Subscription /\ entry[2] \in Nat /\ entry = <<entry[1], entry[2]>>
          /\ entry[2] < Len(log[entry[1]])
      BY <1>2, InvariantFacts DEF ProcessedInLog
    <2> QED BY <2>1, LogFacts, InvariantFacts, GroupFacts
  <1>4. entry[1][2] = PartitionOf[o] /\ m.tp[2] = PartitionOf[o]
    BY <1>1, <1>2, <1>3, InvariantFacts DEF OrdersInPlace
  <1>5. entry[1] = m.tp
    BY <1>2, <1>3, <1>4 DEF Subscription
  <1>6. entry[2] + 1 = m.offset + 1
    BY <1>1, <1>2, <1>3, <1>5, InvariantFacts DEF OrdersInPlace
  <1>7. entry = <<m.tp, m.offset>>
    BY <1>2, <1>3, <1>5, <1>6
  <1> QED BY <1>7, InvariantFacts DEF InFlightUnmarked

LEMMA AnswerCharges ==
    ASSUME PaymentInvariant, ChargedOncePerProcess, Answer
    PROVE  ChargedOncePerProcess'
  <1>1. PICK m \in inFlight : \E kind \in ResultsOf[EventOf(m).order] :
          AnswerOrder(m, kind) \/ AnswerFails(m, kind)
    BY DEF Answer
  <1>2. PICK kind \in ResultsOf[EventOf(m).order] : AnswerOrder(m, kind) \/ AnswerFails(m, kind)
    BY <1>1
  <1>3. PICK o \in Orders :
          /\ o = EventOf(m).order /\ kind \in PaymentKinds
          /\ Send("payments.v1", o, kind) \/ (UNCHANGED log /\ faults'["send"] = faults["send"] + 1)
          /\ \A k \in FaultKinds \ {"send"} : faults'[k] = faults[k]
          /\ \/ /\ faults' = faults /\ Send("payments.v1", o, kind)
                /\ processed' = [processed EXCEPT ![m.instance] = @ \cup {<<m.tp, m.offset>>}]
             \/ faults'["send"] = faults["send"] + 1 /\ processed' = processed
    BY <1>2, AnswerFacts
  <1>4. Keyed("payments.v1", o) \in DOMAIN log /\ kind \in EventKinds
    BY <1>3, TopicsKeyed DEF PaymentTopics, PaymentKinds, EventKinds, AnswerKinds
  <1>5. LogGrows
    BY <1>3, <1>4, SendAppends, SameLogGrows, InvariantFacts
  <1>6. DeadProcesses' = DeadProcesses
    BY <1>3 DEF DeadProcesses, FaultKinds
  <1>7. ASSUME NEW p \in Orders
        PROVE  Payments(p)' <= Cardinality(Remembering(p))' + DeadProcesses' + faults'["send"]
    <2>1. /\ Payments(p) <= Cardinality(Remembering(p)) + DeadProcesses + faults["send"]
          /\ Cardinality(Remembering(p)) \in Nat /\ IsFiniteSet(Remembering(p))
          /\ Payments(p) \in Nat /\ DeadProcesses \in Nat /\ faults["send"] \in Nat
      BY MemoryFacts DEF ChargedOncePerProcess
    <2>2. /\ Send("payments.v1", o, kind) => Payments(p)' = Payments(p) + (IF p = o THEN 1 ELSE 0)
          /\ UNCHANGED log => Payments(p)' = Payments(p)
      BY <1>3, PaymentsSent DEF Payments, EventsOf
    <2>3. CASE faults'["send"] = faults["send"] + 1 /\ processed' = processed
      <3>1. Remembering(p)' = Remembering(p)
        BY <1>5, <2>3, RememberingKept
      <3> QED BY <1>3, <1>6, <2>1, <2>2, <2>3, <3>1
    <2>4. CASE /\ faults' = faults /\ Send("payments.v1", o, kind)
               /\ processed' = [processed EXCEPT ![m.instance] = @ \cup {<<m.tp, m.offset>>}]
      <3>1. m.instance \in Instances
        BY InvariantFacts, GroupFacts
      <3>2. \A i \in Instances : processed[i] \subseteq processed'[i]
        BY <2>4, InvariantFacts
      <3>3. /\ Remembering(p) \subseteq Remembering(p)'
            /\ IsFiniteSet(Remembering(p)') /\ Cardinality(Remembering(p)') \in Nat
        <4>1. Remembering(p) \subseteq Instances /\ Remembering(p)' \subseteq Instances
          BY DEF Remembering
        <4>2. Remembering(p) \subseteq Remembering(p)'
          BY <1>5, <3>2, <4>1, StillRemembering
        <4> QED BY <4>1, <4>2, FS_Subset, FS_CardinalityType
      <3>4. CASE p # o
        <4>1. Cardinality(Remembering(p)) <= Cardinality(Remembering(p)')
          BY <3>3, FS_Subset
        <4> QED BY <1>6, <2>1, <2>2, <2>4, <3>3, <3>4, <4>1
      <3>5. CASE p = o
        <4>1. m.instance \in Remembering(p)'
          <5>1. <<m.tp, m.offset>> \in processed'[m.instance]
            BY <2>4, <3>1, InvariantFacts
          <5>2. log'[m.tp][m.offset + 1].order = o
            <6>1. /\ m.tp \in Subscription /\ m.offset + 1 \in DOMAIN log[m.tp]
                  /\ EventOf(m) = log[m.tp][m.offset + 1]
              BY InvariantFacts, GroupFacts, HandledEvent
            <6> QED BY <1>3, <1>5, <6>1, OrderAt
          <5> QED BY <3>1, <3>5, <5>1, <5>2 DEF Remembering
        <4>2. m.instance \notin Remembering(p)
          BY <1>3, <3>5, AnsweringForgot
        <4>3. Remembering(p) \cup {m.instance} \subseteq Remembering(p)'
          BY <3>3, <4>1
        <4>4. /\ IsFiniteSet(Remembering(p) \cup {m.instance})
              /\ Cardinality(Remembering(p) \cup {m.instance}) = Cardinality(Remembering(p)) + 1
          BY <2>1, <4>2, FS_AddElement
        <4>5. Cardinality(Remembering(p) \cup {m.instance}) <= Cardinality(Remembering(p)')
          BY <3>3, <4>3, FS_Subset
        <4> QED BY <1>6, <2>1, <2>2, <2>4, <3>3, <3>5, <4>4, <4>5
      <3> QED BY <3>4, <3>5
    <2> QED BY <1>3, <2>3, <2>4
  <1> QED BY <1>7 DEF ChargedOncePerProcess

(* A step that sends no answer charges nobody; what it may cost is memory.     *)
LEMMA NoCharge ==
    ASSUME PaymentInvariant, ChargedOncePerProcess, faults' \in [FaultKinds -> Nat],
           faults'["send"] = faults["send"],
           \A o \in Orders :
             /\ Payments(o)' = Payments(o)
             /\ Cardinality(Remembering(o)) + DeadProcesses
                  <= Cardinality(Remembering(o))' + DeadProcesses'
    PROVE  ChargedOncePerProcess'
  <1>1. ASSUME NEW o \in Orders
        PROVE  Payments(o)' <= Cardinality(Remembering(o))' + DeadProcesses' + faults'["send"]
    <2>1. /\ Payments(o) \in Nat /\ Cardinality(Remembering(o)) \in Nat
          /\ DeadProcesses \in Nat /\ faults["send"] \in Nat
      BY MemoryFacts
    <2>2. Cardinality(Remembering(o))' \in Nat
      <3>1. IsFiniteSet(Remembering(o)') /\ Remembering(o)' \subseteq Instances
        BY FS_Subset DEF Remembering
      <3> QED BY <3>1, FS_CardinalityType
    <2>3. DeadProcesses' \in Nat
      <3>1. faults'["crash"] \in Nat /\ faults'["replay"] \in Nat /\ Cardinality(Instances) \in Nat
        BY FS_CardinalityType DEF FaultKinds
      <3> QED BY <3>1 DEF DeadProcesses
    <2> QED BY <2>1, <2>2, <2>3 DEF ChargedOncePerProcess
  <1> QED BY <1>1 DEF ChargedOncePerProcess

LEMMA ChargedNext ==
    ASSUME PaymentInvariant, ChargedOncePerProcess, [Next]_vars
    PROVE  ChargedOncePerProcess'
  <1>1. ASSUME UNCHANGED log, processed' = processed, faults' \in [FaultKinds -> Nat],
               \A k \in {"send", "crash", "replay"} : faults'[k] = faults[k]
        PROVE  ChargedOncePerProcess'
    <2>1. LogGrows
      BY <1>1, SameLogGrows, InvariantFacts
    <2>2. DeadProcesses' = DeadProcesses
      BY <1>1 DEF DeadProcesses
    <2>3. ASSUME NEW o \in Orders
          PROVE  /\ Payments(o)' = Payments(o)
                 /\ Cardinality(Remembering(o)) + DeadProcesses
                      <= Cardinality(Remembering(o))' + DeadProcesses'
      <3>1. Payments(o)' = Payments(o)
        BY <1>1 DEF Payments, EventsOf
      <3>2. Remembering(o)' = Remembering(o)
        BY <1>1, <2>1, RememberingKept
      <3>3. Cardinality(Remembering(o)) \in Nat /\ DeadProcesses \in Nat
        BY MemoryFacts
      <3> QED BY <2>2, <3>1, <3>2, <3>3
    <2> QED BY <1>1, <2>3, NoCharge
  <1>2. ASSUME NEW o \in Orders, CustomerPlaces(o)
        PROVE  ChargedOncePerProcess'
    <2>1. /\ LogGrows /\ faults' = faults /\ processed' = processed
          /\ \A p \in Orders, kind \in PaymentKinds :
                EventsOf("payments.v1", p, kind)' = EventsOf("payments.v1", p, kind)
      BY <1>2, PlacementKeepsInvariant
    <2>2. ASSUME NEW p \in Orders
          PROVE  /\ Payments(p)' = Payments(p)
                 /\ Cardinality(Remembering(p)) + DeadProcesses
                      <= Cardinality(Remembering(p))' + DeadProcesses'
      <3>1. Payments(p)' = Payments(p)
        BY <2>1 DEF Payments, PaymentKinds
      <3>2. Remembering(p)' = Remembering(p)
        BY <2>1, RememberingKept
      <3>3. Cardinality(Remembering(p)) \in Nat /\ DeadProcesses \in Nat /\ DeadProcesses' = DeadProcesses
        BY <2>1, MemoryFacts DEF DeadProcesses
      <3> QED BY <3>1, <3>2, <3>3
    <2> QED BY <2>1, <2>2, NoCharge, InvariantFacts
  <1>3. ASSUME NEW i \in Instances, Handle(i)
        PROVE  ChargedOncePerProcess'
    <2>1. UNCHANGED <<log, faults, processed>>
      BY <1>3 DEF Handle, SkipDuplicate, BeginPayment
    <2> QED BY <1>1, <2>1, InvariantFacts
  <1>4. ASSUME NEW i \in Instances, Commit(i)
        PROVE  ChargedOncePerProcess'
    <2>1. UNCHANGED <<log, faults, processed>>
      BY <1>4 DEF Commit, AutoCommit
    <2> QED BY <1>1, <2>1, InvariantFacts
  <1>5. ASSUME NEW i \in Instances, Crash(i)
        PROVE  ChargedOncePerProcess'
    <2>1. /\ Fault("crash") /\ UNCHANGED log /\ processed' = [processed EXCEPT ![i] = {}]
      BY <1>5 DEF Crash, CrashAndRejoin, Rejoin
    <2>2. /\ faults' \in [FaultKinds -> Nat] /\ faults'["crash"] = faults["crash"] + 1
          /\ faults'["send"] = faults["send"] /\ faults'["replay"] = faults["replay"]
      BY <2>1, FaultCounted, InvariantFacts DEF FaultKinds
    <2>3. LogGrows
      BY <2>1, SameLogGrows, InvariantFacts
    <2>4. DeadProcesses' = DeadProcesses + 1
      <3>1. faults["crash"] \in Nat /\ Cardinality(Instances) * faults["replay"] \in Nat
        BY InvariantFacts, FS_CardinalityType DEF FaultKinds
      <3> QED BY <2>2, <3>1 DEF DeadProcesses
    <2>5. ASSUME NEW o \in Orders
          PROVE  /\ Payments(o)' = Payments(o)
                 /\ Cardinality(Remembering(o)) + DeadProcesses
                      <= Cardinality(Remembering(o))' + DeadProcesses'
      <3>1. Payments(o)' = Payments(o)
        BY <2>1 DEF Payments, EventsOf
      <3>2. Remembering(o) \subseteq Remembering(o)' \cup {i}
        <4>1. ASSUME NEW j \in Remembering(o), j # i
              PROVE  j \in Remembering(o)'
          <5>1. j \in Instances /\ processed'[j] = processed[j]
            BY <2>1, <4>1, InvariantFacts DEF Remembering
          <5> QED BY <2>3, <5>1, StillRemembering
        <4> QED BY <4>1
      <3>3. /\ IsFiniteSet(Remembering(o)') /\ Cardinality(Remembering(o)') \in Nat
        <4>1. Remembering(o)' \subseteq Instances
          BY DEF Remembering
        <4> QED BY <4>1, FS_Subset, FS_CardinalityType
      <3>4. /\ Cardinality(Remembering(o)' \cup {i}) <= Cardinality(Remembering(o)') + 1
            /\ IsFiniteSet(Remembering(o)' \cup {i})
            /\ Cardinality(Remembering(o)' \cup {i}) \in Nat
        BY <3>3, OneMoreElement
      <3>5. Cardinality(Remembering(o)) <= Cardinality(Remembering(o)' \cup {i})
        BY <3>2, <3>4, FS_Subset
      <3>6. Cardinality(Remembering(o)) \in Nat /\ DeadProcesses \in Nat
        BY MemoryFacts
      <3> QED BY <2>4, <3>1, <3>3, <3>4, <3>5, <3>6
    <2> QED BY <2>2, <2>5, NoCharge
  <1>6. CASE Answer
    BY <1>6, AnswerCharges
  <1>7. CASE GroupRebalances
    <2>1. Fault("rebalance") /\ UNCHANGED log /\ processed' = processed
      BY <1>7 DEF GroupRebalances, Rebalance, Rejoin
    <2>2. /\ faults' \in [FaultKinds -> Nat]
          /\ \A k \in {"send", "crash", "replay"} : faults'[k] = faults[k]
      BY <2>1, FaultCounted, InvariantFacts DEF FaultKinds
    <2> QED BY <1>1, <2>1, <2>2
  <1>8. CASE ReplayOrders
    <2>1. /\ Fault("replay") /\ UNCHANGED log /\ processed' = [i \in Instances |-> {}]
      BY <1>8 DEF ReplayOrders, Replay, Rejoin
    <2>2. /\ faults' \in [FaultKinds -> Nat] /\ faults'["replay"] = faults["replay"] + 1
          /\ faults'["send"] = faults["send"] /\ faults'["crash"] = faults["crash"]
      BY <2>1, FaultCounted, InvariantFacts DEF FaultKinds
    <2>3. DeadProcesses' = DeadProcesses + Cardinality(Instances)
      <3>1. faults["crash"] \in Nat /\ faults["replay"] \in Nat /\ Cardinality(Instances) \in Nat
        BY InvariantFacts, FS_CardinalityType DEF FaultKinds
      <3>2. \A c, r \in Nat : c * (r + 1) = c * r + c /\ c * r \in Nat
        OBVIOUS
      <3> QED BY <2>2, <3>1, <3>2 DEF DeadProcesses
    <2>4. ASSUME NEW o \in Orders
          PROVE  /\ Payments(o)' = Payments(o)
                 /\ Cardinality(Remembering(o)) + DeadProcesses
                      <= Cardinality(Remembering(o))' + DeadProcesses'
      <3>1. Payments(o)' = Payments(o)
        BY <2>1 DEF Payments, EventsOf
      <3>2. Remembering(o)' = {}
        BY <2>1 DEF Remembering
      <3>3. Cardinality(Remembering(o)') = 0
        BY <3>2, FS_EmptySet
      <3> QED BY <2>3, <3>1, <3>3, MemoryFacts
    <2> QED BY <2>2, <2>4, NoCharge
  <1>9. CASE UNCHANGED vars
    BY <1>1, <1>9, InvariantFacts DEF vars
  <1> QED BY <1>2, <1>3, <1>4, <1>5, <1>6, <1>7, <1>8, <1>9 DEF Next, PaymentStep

(* Nothing is charged at the start.                                           *)
LEMMA ChargedInit ==
    ASSUME Init
    PROVE  ChargedOncePerProcess
  <1>1. PaymentInvariant
    BY PaymentInit
  <1>2. ASSUME NEW o \in Orders
        PROVE  Payments(o) = 0
    <2>1. DOMAIN log[<<"payments.v1", PartitionOf[o]>>] = {}
      <3>1. log[<<"payments.v1", PartitionOf[o]>>] = <<>>
        BY DEF Init, TopicsInit, PaymentTopics
      <3> QED BY <3>1
    <2>2. \A kind \in PaymentKinds : EventsOf("payments.v1", o, kind) = {}
      BY <2>1 DEF EventsOf
    <2>3. /\ Cardinality(EventsOf("payments.v1", o, "PaymentAuthorized")) = 0
          /\ Cardinality(EventsOf("payments.v1", o, "PaymentDeclined")) = 0
      BY <2>2, FS_EmptySet DEF PaymentKinds
    <2> QED BY <2>3 DEF Payments
  <1> QED BY <1>1, <1>2, MemoryFacts DEF ChargedOncePerProcess

(* Rebalances and redeliveries never charge an order twice: there is at most   *)
(* one charge for every process that remembers it, every process that died     *)
(* and every rejected send (isDuplicate before, markProcessed after the send). *)
THEOREM ChargesBounded == Spec => []ChargedOncePerProcess
  <1>1. Init => PaymentInvariant /\ ChargedOncePerProcess
    BY PaymentInit, ChargedInit
  <1>2. PaymentInvariant /\ ChargedOncePerProcess /\ [Next]_vars
           => PaymentInvariant' /\ ChargedOncePerProcess'
    BY PaymentNext, ChargedNext
  <1> QED BY <1>1, <1>2, PTL DEF Spec
=============================================================================
