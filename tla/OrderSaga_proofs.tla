-------------------------- MODULE OrderSaga_proofs --------------------------
(* Theorems about OrderSaga, for every set of orders, partitions and           *)
(* instances and every bound on answers and faults.                            *)
EXTENDS OrderSaga, ConsumerGroup_proofs

USE TopicsAssumption, GroupAssumption, SagaAssumption

TPs == SagaTopics \X Partitions

EntriesType == orderStates \in [Instances -> [Orders -> OrderState]]

LEMMA InvariantFacts ==
    ASSUME SagaInvariant
    PROVE  /\ DOMAIN log = TPs /\ Subscription \subseteq TPs /\ LogOK
           /\ faults \in [FaultKinds -> Nat]
           /\ GroupOK(Subscription) /\ EntriesType
           /\ StatusJoinsAnswers /\ AnswersInPlace /\ OrdersInPlace /\ PlacedOnce
           /\ EntriesJustified /\ TrackedBehind /\ InFlightJustified /\ OutcomeJustified
  <1>1. log \in [TPs -> Seq(Event)]
    BY DEF SagaInvariant, TypeOK, TopicsType, TPs
  <1>2. Subscription \subseteq TPs
    BY DEF Subscription, TPs, SagaTopics
  <1>3. LogOK /\ DOMAIN log = TPs
    BY <1>1 DEF LogOK
  <1> QED BY <1>2, <1>3 DEF SagaInvariant, TypeOK, TopicsType, GroupOK, EntriesType

LEMMA InvariantFrom ==
    ASSUME LogGrows, DOMAIN log = TPs, faults' \in [FaultKinds -> Nat],
           GroupOK(Subscription)', EntriesType',
           StatusJoinsAnswers', AnswersInPlace', OrdersInPlace', PlacedOnce',
           EntriesJustified', TrackedBehind', InFlightJustified', OutcomeJustified'
    PROVE  SagaInvariant'
  <1>1. TopicsType(SagaTopics)'
    BY DEF LogGrows, TopicsType, TPs
  <1> QED BY <1>1 DEF SagaInvariant, TypeOK, GroupOK, EntriesType

LEMMA KeyedInLog ==
    ASSUME NEW topic \in SagaTopics, NEW o \in Orders
    PROVE  Keyed(topic, o) \in TPs
  BY DEF Keyed, TPs

LEMMA SubscribedKey ==
    ASSUME NEW o \in Orders
    PROVE  Keyed("orders.v1", o) \in Subscription
  BY DEF Keyed, Subscription

LEMMA KindsAndTopics ==
    /\ AnswerKinds \subseteq EventKinds /\ "OrderPlaced" \in EventKinds \ AnswerKinds
    /\ "orders.v1" \in SagaTopics
    /\ \A k \in AnswerKinds :
          /\ AnswerTopic(k) \in SagaTopics /\ OutcomeTopic(k) \in SagaTopics
          /\ AnswerTopic(k) \in {"payments.v1", "inventory.v1"}
          /\ OutcomeTopic(k) \in {"orders.completed.v1", "orders.cancelled.v1"}
          /\ OutcomeKind(k) \in EventKinds \ AnswerKinds
          /\ OutcomeKind(k) # "OrderPlaced"
          /\ OutcomeKind(k) = "OrderCompleted" <=> OutcomeTopic(k) = "orders.completed.v1"
          /\ OutcomeKind(k) = "OrderCancelled" <=> OutcomeTopic(k) = "orders.cancelled.v1"
          /\ OutcomeKind(k) = "OrderCancelled" <=> k \in {"PaymentDeclined", "InventoryRejected"}
  BY DEF AnswerTopic, OutcomeTopic, OutcomeKind, SagaTopics, AnswerKinds, EventKinds

(* What has been said of an order, or announced, stays said.                   *)
LEMMA LoggedStays ==
    ASSUME LogOK, LogGrows, DOMAIN log = TPs
    PROVE  \A topic \in SagaTopics, o \in Orders : \A kind :
              Logged(topic, o, kind) => Logged(topic, o, kind)'
  BY EventsStay, KeyedInLog

LEMMA LoggedSent ==
    ASSUME LogOK, DOMAIN log = TPs, NEW topic \in SagaTopics, NEW o \in Orders,
           NEW kind \in EventKinds, Send(topic, o, kind)
    PROVE  /\ LogGrows
           /\ Logged(topic, o, kind)'
           /\ \A t \in SagaTopics, p \in Orders : \A k :
                Logged(t, p, k)' => Logged(t, p, k) \/ (t = topic /\ p = o /\ k = kind)
           /\ \A t \in SagaTopics, p \in Orders : \A k :
                ~(t = topic /\ p = o /\ k = kind) => EventsOf(t, p, k)' = EventsOf(t, p, k)
  <1>1. Keyed(topic, o) \in DOMAIN log
    BY KeyedInLog
  <1>2. LogGrows
    BY <1>1, SendAppends
  <1>3. ASSUME NEW t \in SagaTopics, NEW p \in Orders, NEW k
        PROVE  EventsOf(t, p, k)' =
                 IF t = topic /\ p = o /\ k = kind
                 THEN EventsOf(t, p, k) \cup {Len(log[Keyed(topic, o)]) + 1}
                 ELSE EventsOf(t, p, k)
    BY <1>1, KeyedInLog, EventsSent
  <1> QED BY <1>2, <1>3 DEF Logged

-----------------------------------------------------------------------------
(* What a step does to the orders. The operations of the group that move no    *)
(* entry are one kind of step; so are a rebalance, a crash and a replay, which *)
(* differ in the instances whose Map is lost.                                  *)

Forward ==
    /\ \A tp \in Subscription : group'.position[tp] >= group.position[tp]
    /\ \A kind \in FaultKinds \ {"send"} : faults'[kind] = faults[kind]

PlaceStep(o) ==
    /\ Send("orders.v1", o, "OrderPlaced") /\ ~Placed(o)
    /\ UNCHANGED <<faults, inFlight, orderStates>>

AnswerStep(o, k) ==
    /\ Send(AnswerTopic(k), o, k) /\ Placed(o)
    /\ UNCHANGED <<faults, inFlight, orderStates>>

QuietStep == UNCHANGED <<log, faults, inFlight, orderStates>>

TrackStep(i, o) ==
    LET tp == Keyed("orders.v1", o)
    IN  /\ group.position[tp] + 1 \in EventsOf("orders.v1", o, "OrderPlaced")
        /\ group'.position[tp] = group.position[tp] + 1
        /\ orderStates' = [orderStates EXCEPT ![i][o] = NewOrder]
        /\ UNCHANGED <<log, faults, inFlight>>

ApplyStep(i, o, k) ==
    LET st == orderStates[i][o]
    IN  /\ Tracked(i, o) /\ Logged(AnswerTopic(k), o, k)
        /\ orderStates' = [orderStates EXCEPT ![i][o] = Applied(st, k)]
        /\ IF Publishes(st, k)
           THEN \E m : /\ m.instance = i /\ EventOf(m) = [order |-> o, kind |-> k]
                       /\ inFlight' = inFlight \cup {m}
           ELSE inFlight' = inFlight
        /\ UNCHANGED <<log, faults>>

PublishStep(m, o, k) ==
    /\ EventOf(m) = [order |-> o, kind |-> k]
    /\ \/ Send(OutcomeTopic(k), o, OutcomeKind(k)) /\ UNCHANGED faults
       \/ /\ Send(OutcomeTopic(k), o, OutcomeKind(k)) \/ UNCHANGED log
          /\ faults'["send"] > 0
    /\ inFlight' = inFlight \ {m}
    /\ UNCHANGED orderStates

RegroupStep(lost) ==
    /\ \A m \in inFlight' : \E n \in inFlight :
          m.instance = n.instance /\ m.tp = n.tp /\ m.offset = n.offset
    /\ \A n \in inFlight : n.instance \notin lost => \E m \in inFlight' :
          m.instance = n.instance /\ m.tp = n.tp /\ m.offset = n.offset
    /\ orderStates' = [i \in Instances |-> [o \in Orders |->
                          IF i \in lost THEN Untracked ELSE orderStates[i][o]]]
    /\ Regrouped' /\ faults'["send"] = faults["send"]
    /\ UNCHANGED log

OrderStep ==
    \/ /\ Forward
       /\ \/ QuietStep
          \/ \E o \in Orders :
                \/ PlaceStep(o)
                \/ \E k \in AnswerKinds :
                      \/ AnswerStep(o, k)
                      \/ \E i \in Instances : ApplyStep(i, o, k)
                      \/ \E m \in inFlight : PublishStep(m, o, k)
                \/ \E i \in Instances : TrackStep(i, o)
    \/ \E lost \in SUBSET Instances : RegroupStep(lost)

StepOK ==
    /\ LogGrows /\ GroupOK(Subscription)' /\ faults' \in [FaultKinds -> Nat]
    /\ OrderStep

(* A position that moves by one event moves forward.                           *)
LEMMA StepsForward ==
    ASSUME GroupOK(Subscription), UNCHANGED faults,
           \/ group'.position = group.position
           \/ \E tp \in Subscription : group'.position = [group.position EXCEPT ![tp] = @ + 1]
    PROVE  Forward
  <1>1. group.position \in [Subscription -> Nat]
    BY GroupFacts DEF GroupRecord
  <1>2. ASSUME NEW tp \in Subscription
        PROVE  group'.position[tp] >= group.position[tp]
    <2>1. group.position[tp] \in Nat
      BY <1>1
    <2>2. CASE group'.position = group.position
      BY <2>1, <2>2
    <2>3. ASSUME NEW t \in Subscription, group'.position = [group.position EXCEPT ![t] = @ + 1]
          PROVE  group'.position[tp] >= group.position[tp]
      <3>1. CASE t = tp
        BY <1>1, <2>1, <2>3, <3>1
      <3>2. CASE t # tp
        BY <1>1, <2>1, <2>3, <3>2
      <3> QED BY <3>1, <3>2
    <2> QED BY <2>1, <2>2, <2>3
  <1> QED BY <1>2 DEF Forward

LEMMA EnvironmentSteps ==
    ASSUME SagaInvariant, Environment
    PROVE  StepOK
  <1>1. PICK topic \in SagaTopics, o \in Orders, kind \in EventKinds :
          /\ Send(topic, o, kind)
          /\ PlaceStep(o) \/ \E k \in AnswerKinds : AnswerStep(o, k)
          /\ UNCHANGED <<faults, group, inFlight, orderStates>>
    <2>1. ASSUME NEW o \in Orders, CustomerPlaces(o)
          PROVE  /\ Send("orders.v1", o, "OrderPlaced") /\ PlaceStep(o)
                 /\ UNCHANGED <<faults, group, inFlight, orderStates>>
      BY <2>1 DEF CustomerPlaces, PlaceOrder, PlaceStep
    <2>2. ASSUME NEW o \in Orders, NEW kind \in AnswerKinds, UpstreamAnswers(o, kind)
          PROVE  /\ Send(AnswerTopic(kind), o, kind) /\ AnswerStep(o, kind)
                 /\ UNCHANGED <<faults, group, inFlight, orderStates>>
      BY <2>2 DEF UpstreamAnswers, AnswerStep
    <2> QED BY <2>1, <2>2, KindsAndTopics DEF Environment
  <1>2. LogGrows
    BY <1>1, LoggedSent, InvariantFacts
  <1>3. GroupOK(Subscription)'
    BY <1>1, <1>2, GroupKept, InvariantFacts
  <1>4. Forward
    BY <1>1, StepsForward, InvariantFacts
  <1> QED BY <1>1, <1>2, <1>3, <1>4, InvariantFacts DEF StepOK, OrderStep

(* The order and the kind of the event a service looks at.                     *)
LEMMA EventAbout ==
    ASSUME SagaInvariant, NEW tp \in Subscription, NEW n \in DOMAIN log[tp]
    PROVE  \E o \in Orders, k \in EventKinds :
              /\ log[tp][n] = [order |-> o, kind |-> k]
              /\ k \in AnswerKinds => Logged(AnswerTopic(k), o, k)
              /\ k = "OrderPlaced" =>
                    tp = Keyed("orders.v1", o) /\ n \in EventsOf("orders.v1", o, "OrderPlaced")
  <1>1. tp \in DOMAIN log /\ log[tp][n] \in Event
    BY LogFacts, InvariantFacts
  <1>2. PICK o \in Orders, k \in EventKinds : log[tp][n] = [order |-> o, kind |-> k]
    BY <1>1 DEF Event
  <1>3. k \in AnswerKinds => tp = <<AnswerTopic(k), PartitionOf[o]>>
    BY <1>1, <1>2, InvariantFacts DEF AnswersInPlace
  <1>4. k = "OrderPlaced" => tp = <<"orders.v1", PartitionOf[o]>>
    BY <1>1, <1>2, InvariantFacts DEF OrdersInPlace
  <1> QED BY <1>2, <1>3, <1>4 DEF Logged, EventsOf, Keyed

LEMMA HandleOrderPlacedSteps ==
    ASSUME SagaInvariant, NEW i \in Instances, NEW tp \in Subscription,
           HandleOrderPlaced(i, tp)
    PROVE  StepOK
  <1>1. /\ UNCHANGED <<log, faults>> /\ Deliverable(i, tp) /\ FinishAtOnce(tp)
        /\ NextEvent(tp).kind = "OrderPlaced"
        /\ orderStates' = [orderStates EXCEPT ![i][NextEvent(tp).order] = NewOrder]
    BY DEF HandleOrderPlaced
  <1>2. /\ GroupOK(Subscription)' /\ UNCHANGED inFlight
        /\ group'.position = [group.position EXCEPT ![tp] = @ + 1]
    BY <1>1, GroupFinishAtOnce, InvariantFacts
  <1>3. /\ group.position[tp] + 1 \in DOMAIN log[tp]
        /\ NextEvent(tp) = log[tp][group.position[tp] + 1]
    BY <1>1, DeliveredEvent, InvariantFacts
  <1>4. PICK o \in Orders, k \in EventKinds :
          /\ NextEvent(tp) = [order |-> o, kind |-> k]
          /\ k = "OrderPlaced" =>
                /\ tp = Keyed("orders.v1", o)
                /\ group.position[tp] + 1 \in EventsOf("orders.v1", o, "OrderPlaced")
    BY <1>3, EventAbout
  <1>5. k = "OrderPlaced" /\ NextEvent(tp).order = o
    BY <1>1, <1>4
  <1>6. group.position \in [Subscription -> Nat]
    BY GroupFacts, InvariantFacts DEF GroupRecord
  <1>7. group'.position[tp] = group.position[tp] + 1
    BY <1>2, <1>6
  <1>8. TrackStep(i, o)
    BY <1>1, <1>2, <1>4, <1>5, <1>7 DEF TrackStep
  <1>9. Forward /\ LogGrows
    BY <1>1, <1>2, StepsForward, SameLogGrows, InvariantFacts
  <1> QED BY <1>1, <1>2, <1>8, <1>9, InvariantFacts DEF StepOK, OrderStep

LEMMA DropAnswerSteps ==
    ASSUME SagaInvariant, NEW i \in Instances, NEW tp \in Subscription, DropAnswer(i, tp)
    PROVE  StepOK
  <1>1. /\ UNCHANGED <<log, faults, orderStates>>
        /\ Deliverable(i, tp) /\ FinishAtOnce(tp)
    BY DEF DropAnswer
  <1>2. /\ GroupOK(Subscription)' /\ UNCHANGED inFlight
        /\ group'.position = [group.position EXCEPT ![tp] = @ + 1]
    BY <1>1, GroupFinishAtOnce, InvariantFacts
  <1>3. Forward /\ LogGrows
    BY <1>1, <1>2, StepsForward, SameLogGrows, InvariantFacts
  <1> QED BY <1>1, <1>2, <1>3, InvariantFacts DEF StepOK, OrderStep, QuietStep

(* handlePaymentEvent and handleInventoryEvent up to the awaited send.         *)
LEMMA HandleAnswerSteps ==
    ASSUME SagaInvariant, NEW i \in Instances, NEW tp \in Subscription, HandleAnswer(i, tp)
    PROVE  StepOK
  <1>1. /\ UNCHANGED <<log, faults>> /\ Deliverable(i, tp)
        /\ NextEvent(tp).kind \in AnswerKinds
    BY DEF HandleAnswer
  <1>2. /\ group.position[tp] + 1 \in DOMAIN log[tp]
        /\ NextEvent(tp) = log[tp][group.position[tp] + 1]
    BY <1>1, DeliveredEvent, InvariantFacts
  <1>3. PICK o \in Orders, k \in EventKinds :
          /\ NextEvent(tp) = [order |-> o, kind |-> k]
          /\ k \in AnswerKinds => Logged(AnswerTopic(k), o, k)
    BY <1>2, EventAbout
  <1>4. k \in AnswerKinds
    BY <1>1, <1>3
  <1>5. /\ Tracked(i, o)
        /\ orderStates' = [orderStates EXCEPT ![i][o] = Applied(orderStates[i][o], k)]
        /\ IF Publishes(orderStates[i][o], k) THEN BeginHandling(i, tp) ELSE FinishAtOnce(tp)
    BY <1>3 DEF HandleAnswer
  <1>6. CASE Publishes(orderStates[i][o], k)
    <2> DEFINE m == [instance |-> i, tp |-> tp, offset |-> group.position[tp], live |-> TRUE]
    <2>1. /\ GroupOK(Subscription)' /\ group' = group
          /\ inFlight' = inFlight \cup {m}
      BY <1>1, <1>5, <1>6, GroupBeginHandling, InvariantFacts
    <2>2. m.instance = i /\ EventOf(m) = [order |-> o, kind |-> k]
      BY <1>2, <1>3 DEF EventOf
    <2>3. ApplyStep(i, o, k)
      BY <1>1, <1>3, <1>4, <1>5, <1>6, <2>1, <2>2 DEF ApplyStep
    <2>4. Forward /\ LogGrows
      BY <1>1, <2>1, StepsForward, SameLogGrows, InvariantFacts
    <2> QED BY <1>1, <1>4, <2>1, <2>3, <2>4, InvariantFacts DEF StepOK, OrderStep
  <1>7. CASE ~Publishes(orderStates[i][o], k)
    <2>1. /\ GroupOK(Subscription)' /\ UNCHANGED inFlight
          /\ group'.position = [group.position EXCEPT ![tp] = @ + 1]
      BY <1>1, <1>5, <1>7, GroupFinishAtOnce, InvariantFacts
    <2>2. ApplyStep(i, o, k)
      BY <1>1, <1>3, <1>4, <1>5, <1>7, <2>1 DEF ApplyStep
    <2>3. Forward /\ LogGrows
      BY <1>1, <2>1, StepsForward, SameLogGrows, InvariantFacts
    <2> QED BY <1>1, <1>4, <2>1, <2>2, <2>3, InvariantFacts DEF StepOK, OrderStep
  <1> QED BY <1>6, <1>7

(* The awaited send settles, acknowledged or not.                              *)
LEMMA PublishSteps ==
    ASSUME SagaInvariant, Publish
    PROVE  StepOK
  <1>1. PICK m \in inFlight : PublishOutcome(m) \/ PublishOutcomeFails(m)
    BY DEF Publish
  <1>2. EventOf(m) \in Event /\ EventOf(m).kind \in AnswerKinds
    BY HandledEvent, InvariantFacts DEF InFlightJustified
  <1>3. PICK o \in Orders, k \in AnswerKinds : EventOf(m) = [order |-> o, kind |-> k]
    BY <1>2 DEF Event
  <1>4. /\ FinishHandling(m) /\ UNCHANGED orderStates
        /\ \/ Send(OutcomeTopic(k), o, OutcomeKind(k)) /\ UNCHANGED faults
           \/ /\ Send(OutcomeTopic(k), o, OutcomeKind(k)) \/ UNCHANGED log
              /\ Fault("send")
    BY <1>1, <1>3 DEF PublishOutcome, PublishOutcomeFails, SendUnacknowledged
  <1>5. LogGrows
    BY <1>4, LoggedSent, SameLogGrows, KindsAndTopics, InvariantFacts
  <1>6. /\ GroupOK(Subscription)' /\ inFlight' = inFlight \ {m}
        /\ group'.position = IF m.live THEN [group.position EXCEPT ![m.tp] = @ + 1]
                                       ELSE group.position
    BY <1>4, <1>5, GroupFinishHandling, InvariantFacts
  <1>7. /\ faults' \in [FaultKinds -> Nat]
        /\ \A kind \in FaultKinds \ {"send"} : faults'[kind] = faults[kind]
        /\ faults' = faults \/ faults'["send"] > 0
    <2>1. CASE Fault("send")
      <3>1. "send" \in FaultKinds /\ faults["send"] \in Nat
        BY InvariantFacts DEF FaultKinds
      <3> QED BY <2>1, <3>1, FaultCounted, InvariantFacts
    <2>2. CASE UNCHANGED faults
      BY <2>2, InvariantFacts
    <2> QED BY <1>4, <2>1, <2>2
  <1>8. Forward
    <2>1. group.position \in [Subscription -> Nat] /\ m.tp \in Subscription
      BY GroupFacts, InvariantFacts DEF GroupRecord
    <2>2. \A tp \in Subscription : group'.position[tp] >= group.position[tp]
      BY <1>6, <2>1
    <2> QED BY <1>7, <2>2 DEF Forward
  <1>9. PublishStep(m, o, k)
    <2>1. Fault("send") => faults'["send"] > 0
      BY FaultCounted, InvariantFacts DEF FaultKinds
    <2> QED BY <1>3, <1>4, <1>6, <2>1 DEF PublishStep
  <1> QED BY <1>5, <1>6, <1>7, <1>8, <1>9 DEF StepOK, OrderStep

LEMMA CommitSteps ==
    ASSUME SagaInvariant, NEW i \in Instances, Commit(i)
    PROVE  StepOK
  <1>1. /\ GroupOK(Subscription)' /\ QuietStep
        /\ group'.position = group.position
    BY GroupAutoCommit, InvariantFacts DEF Commit, QuietStep
  <1>2. UNCHANGED <<log, faults>>
    BY <1>1 DEF QuietStep
  <1>3. Forward /\ LogGrows
    BY <1>1, <1>2, StepsForward, SameLogGrows, InvariantFacts
  <1> QED BY <1>1, <1>2, <1>3, InvariantFacts DEF StepOK, OrderStep

LEMMA StutterSteps ==
    ASSUME SagaInvariant, UNCHANGED vars
    PROVE  StepOK
  <1>1. QuietStep /\ UNCHANGED <<log, faults, group, inFlight>>
    BY DEF vars, QuietStep
  <1>2. LogGrows
    BY <1>1, SameLogGrows, InvariantFacts
  <1>3. GroupOK(Subscription)' /\ Forward
    BY <1>1, <1>2, GroupKept, StepsForward, InvariantFacts
  <1> QED BY <1>1, <1>2, <1>3, InvariantFacts DEF StepOK, OrderStep

LEMMA RegroupSteps ==
    ASSUME SagaInvariant,
           GroupRebalances \/ ReplayOrders \/ \E i \in Instances : Crash(i)
    PROVE  StepOK
  <1>1. PICK kind \in FaultKinds \ {"send"}, lost \in SUBSET Instances,
             committed \in {group.committed, ResetToEarliest(group.committed)} :
          /\ Fault(kind) /\ Rejoin(Instances \ lost, committed)
          /\ orderStates' = [i \in Instances |-> [o \in Orders |->
                                IF i \in lost THEN Untracked ELSE orderStates[i][o]]]
    <2>1. orderStates = [i \in Instances |-> [o \in Orders |-> orderStates[i][o]]]
      BY InvariantFacts DEF EntriesType
    <2>2. CASE GroupRebalances
      <3>1. /\ Fault("rebalance") /\ Rejoin(Instances \ {}, group.committed)
            /\ orderStates' = [i \in Instances |-> [o \in Orders |->
                                 IF i \in {} THEN Untracked ELSE orderStates[i][o]]]
        BY <2>1, <2>2 DEF GroupRebalances, Rebalance
      <3>2. "rebalance" \in FaultKinds \ {"send"} /\ {} \in SUBSET Instances
        BY DEF FaultKinds
      <3> QED BY <3>1, <3>2
    <2>3. CASE ReplayOrders
      <3>1. /\ Fault("replay")
            /\ Rejoin(Instances \ Instances, ResetToEarliest(group.committed))
            /\ orderStates' = [i \in Instances |-> [o \in Orders |->
                                 IF i \in Instances THEN Untracked ELSE orderStates[i][o]]]
        <4>1. Instances \ Instances = {}
          OBVIOUS
        <4> QED BY <2>3, <4>1 DEF ReplayOrders, Replay
      <3>2. "replay" \in FaultKinds \ {"send"} /\ Instances \in SUBSET Instances
        BY DEF FaultKinds
      <3> QED BY <3>1, <3>2
    <2>4. ASSUME NEW j \in Instances, Crash(j)
          PROVE  /\ Fault("crash") /\ Rejoin(Instances \ {j}, group.committed)
                 /\ orderStates' = [i \in Instances |-> [o \in Orders |->
                                      IF i \in {j} THEN Untracked ELSE orderStates[i][o]]]
      <3>1. orderStates' = [orderStates EXCEPT ![j] = [o \in Orders |-> Untracked]]
        BY <2>4 DEF Crash
      <3>2. \A i \in Instances : orderStates'[i] = [o \in Orders |->
                IF i \in {j} THEN Untracked ELSE orderStates[i][o]]
        BY <2>1, <3>1
      <3>3. orderStates' = [i \in Instances |-> orderStates'[i]]
        BY <2>1, <3>1
      <3> QED BY <2>4, <3>2, <3>3 DEF Crash, CrashAndRejoin
    <2>5. "crash" \in FaultKinds \ {"send"} /\ \A j \in Instances : {j} \in SUBSET Instances
      BY DEF FaultKinds
    <2> QED BY <2>2, <2>3, <2>4, <2>5
  <1>2. /\ GroupOK(Subscription)' /\ UNCHANGED log
        /\ faults' \in [FaultKinds -> Nat] /\ faults'[kind] = faults[kind] + 1
        /\ \A k \in FaultKinds \ {kind} : faults'[k] = faults[k]
        /\ \A m \in inFlight' : \E n \in inFlight :
             /\ n.instance \in Instances \ lost
             /\ m.instance = n.instance /\ m.tp = n.tp /\ m.offset = n.offset
        /\ \A n \in inFlight : n.instance \in Instances \ lost => \E m \in inFlight' :
             m.instance = n.instance /\ m.tp = n.tp /\ m.offset = n.offset
    BY <1>1, GroupRejoins, InvariantFacts
  <1>3. Regrouped'
    <2>1. /\ faults["rebalance"] \in Nat /\ faults["crash"] \in Nat /\ faults["replay"] \in Nat
          /\ faults'["rebalance"] \in Nat /\ faults'["crash"] \in Nat /\ faults'["replay"] \in Nat
      BY <1>2, InvariantFacts DEF FaultKinds
    <2>2. kind \in {"rebalance", "crash", "replay"}
      BY <1>1 DEF FaultKinds
    <2> QED BY <1>2, <2>1, <2>2 DEF Regrouped
  <1>4. faults'["send"] = faults["send"]
    BY <1>1, <1>2 DEF FaultKinds
  <1>5. \A n \in inFlight : n.instance \in Instances
    BY GroupFacts, InvariantFacts
  <1>6. RegroupStep(lost)
    BY <1>1, <1>2, <1>3, <1>4, <1>5 DEF RegroupStep
  <1>7. LogGrows
    BY <1>2, SameLogGrows, InvariantFacts
  <1> QED BY <1>1, <1>2, <1>6, <1>7 DEF StepOK, OrderStep

(* There is never an order for checkAndFixStuckOrders to fix: it does nothing. *)
LEMMA NothingToFix ==
    ASSUME SagaInvariant, NEW i \in Instances, FixStuckOrders(i)
    PROVE  UNCHANGED vars
  <1>1. StuckOrders(i) = {}
    BY InvariantFacts DEF StuckOrders, Stuck, StatusJoinsAnswers
  <1>2. orderStates' = orderStates
    <2>1. orderStates' = [orderStates EXCEPT ![i] = [o \in Orders |-> orderStates[i][o]]]
      BY <1>1 DEF FixStuckOrders
    <2> QED BY <2>1, InvariantFacts DEF EntriesType
  <1>3. log' = log
    <2> DEFINE Completions(p) == {[order |-> o, kind |-> "OrderCompleted"] :
                                     o \in {s \in StuckOrders(i) : PartitionOf[s] = p}}
    <2>1. log' = [tp \in DOMAIN log |->
              IF tp[1] = "orders.completed.v1"
              THEN log[tp] \o SetToSeq(Completions(tp[2])) ELSE log[tp]]
      BY DEF FixStuckOrders
    <2>2. \A p : Completions(p) = {}
      BY <1>1
    <2>h. HIDE DEF Completions
    <2>3. SetToSeq({}) = <<>>
      <3>1. Cardinality({}) = 0
        BY FS_EmptySet
      <3>2. \E f \in [1..0 -> {}] : IsInjective(f)
        <4>1. <<>> \in [1..0 -> {}]
          OBVIOUS
        <4>2. IsInjective(<<>>)
          BY DEF IsInjective
        <4> QED BY <4>1, <4>2
      <3>3. SetToSeq({}) \in [1..0 -> {}]
        BY <3>1, <3>2 DEF SetToSeq
      <3> QED BY <3>3
    <2>4. \A tp \in DOMAIN log : log[tp] \o <<>> = log[tp]
      BY InvariantFacts, LogFacts, ConcatEmptySeq
    <2>5. log' = [tp \in DOMAIN log |-> log[tp]]
      BY <2>1, <2>2, <2>3, <2>4
    <2> QED BY <2>5, InvariantFacts DEF LogOK
  <1> QED BY <1>2, <1>3 DEF FixStuckOrders, vars

(* Every step of the saga and of its environment is one of these.              *)
LEMMA NextSteps ==
    ASSUME SagaInvariant, [Next]_vars
    PROVE  StepOK
  <1>1. ASSUME NEW i \in Instances, Handle(i)
        PROVE  StepOK
    BY <1>1, HandleOrderPlacedSteps, DropAnswerSteps, HandleAnswerSteps DEF Handle
  <1>2. ASSUME NEW i \in Instances, FixStuckOrders(i)
        PROVE  StepOK
    BY <1>2, NothingToFix, StutterSteps
  <1> QED BY <1>1, <1>2, EnvironmentSteps, CommitSteps, RegroupSteps, PublishSteps,
             StutterSteps DEF Next, SagaStep

-----------------------------------------------------------------------------
(* What each part of the invariant needs of a step.                            *)

(* A send whose event is where its kind belongs keeps the events in place.     *)
LEMMA PlacesSent ==
    ASSUME SagaInvariant, NEW topic \in SagaTopics, NEW o \in Orders, NEW kind \in EventKinds,
           kind \in AnswerKinds => topic = AnswerTopic(kind),
           kind = "OrderPlaced" => topic = "orders.v1",
           Send(topic, o, kind)
    PROVE  AnswersInPlace' /\ OrdersInPlace'
  <1> DEFINE tp0 == Keyed(topic, o)
             last == Len(log[tp0]) + 1
  <1>1. /\ LogGrows /\ DOMAIN log' = DOMAIN log
        /\ \A tp \in DOMAIN log \ {tp0} : log'[tp] = log[tp]
        /\ DOMAIN log'[tp0] = DOMAIN log[tp0] \cup {last}
        /\ log'[tp0][last] = [order |-> o, kind |-> kind]
    BY KeyedInLog, SendAppends, GrownFacts, InvariantFacts
  <1>2. tp0 = <<topic, PartitionOf[o]>>
    BY DEF Keyed
  <1>h. HIDE DEF tp0, last
  <1>3. ASSUME NEW tp \in DOMAIN log, NEW n \in DOMAIN log'[tp]
        PROVE  \/ n \in DOMAIN log[tp] /\ log'[tp][n] = log[tp][n]
               \/ tp = tp0 /\ log'[tp][n] = [order |-> o, kind |-> kind]
    <2>1. \A k \in DOMAIN log[tp] : log'[tp][k] = log[tp][k]
      BY <1>1, EventAt, InvariantFacts
    <2> QED BY <1>1, <2>1
  <1>4. AnswersInPlace'
    BY <1>1, <1>2, <1>3, InvariantFacts DEF AnswersInPlace, AnswerTopic
  <1>5. OrdersInPlace'
    BY <1>1, <1>2, <1>3, InvariantFacts DEF OrdersInPlace
  <1> QED BY <1>4, <1>5

(* A step that leaves the log alone keeps what the log decides.                *)
LEMMA SameLog ==
    ASSUME SagaInvariant, UNCHANGED log
    PROVE  /\ AnswersInPlace' /\ OrdersInPlace' /\ PlacedOnce' /\ OutcomeJustified'
           /\ \A t, p, k : EventsOf(t, p, k)' = EventsOf(t, p, k)
           /\ \A t, p, k : Logged(t, p, k)' <=> Logged(t, p, k)
  <1>1. AnswersInPlace' /\ OrdersInPlace'
    BY InvariantFacts DEF AnswersInPlace, OrdersInPlace, AnswerTopic
  <1>2. \A t, p, k : EventsOf(t, p, k)' = EventsOf(t, p, k)
    BY DEF EventsOf
  <1>3. \A t, p, k : Logged(t, p, k)' <=> Logged(t, p, k)
    BY <1>2 DEF Logged
  <1> QED BY <1>1, <1>2, <1>3, InvariantFacts DEF PlacedOnce, OutcomeJustified

(* What an entry may say of an order.                                          *)
Joined(st) ==
    /\ st.status = "COMPLETED" => Ready(st)
    /\ Ready(st) => st.status # "PENDING"
    /\ st.status = "PENDING" => st.payment # "DECLINED" /\ st.inventory # "REJECTED"

Justified(st, o) ==
    /\ st # Untracked => st.status # "NONE" /\ Placed(o)
    /\ st.payment = "AUTHORIZED" => Logged("payments.v1", o, "PaymentAuthorized")
    /\ st.inventory = "RESERVED" => Logged("inventory.v1", o, "InventoryReserved")
    /\ st.status = "CANCELLED" =>
          Logged("payments.v1", o, "PaymentDeclined") \/
          Logged("inventory.v1", o, "InventoryRejected")

LEMMA EntryFacts ==
    ASSUME SagaInvariant
    PROVE  \A i \in Instances, o \in Orders :
              /\ orderStates[i][o] \in OrderState
              /\ Joined(orderStates[i][o]) /\ Justified(orderStates[i][o], o)
  BY InvariantFacts
     DEF EntriesType, StatusJoinsAnswers, EntriesJustified, Joined, Justified, Tracked

(* Every entry a step leaves is one the log justified before it.               *)
LEMMA EntriesKept ==
    ASSUME SagaInvariant, LogGrows,
           \A i \in Instances, o \in Orders :
              Joined(orderStates'[i][o]) /\ Justified(orderStates'[i][o], o)
    PROVE  StatusJoinsAnswers' /\ EntriesJustified'
  <1>1. ASSUME NEW i \in Instances, NEW o \in Orders
        PROVE  /\ Joined(orderStates[i][o])'
               /\ Justified(orderStates[i][o], o)'
    <2>1. PICK st : st = orderStates'[i][o]
      OBVIOUS
    <2>2. Joined(st) /\ Justified(st, o)
      BY <2>1
    <2>3. \A topic \in SagaTopics : \A kind : Logged(topic, o, kind) => Logged(topic, o, kind)'
      BY LoggedStays, InvariantFacts
    <2>4. Justified(st, o)'
      BY <2>2, <2>3 DEF Justified, Placed, SagaTopics
    <2> QED BY <2>1, <2>2, <2>4 DEF Joined, Justified, Ready
  <1> QED BY <1>1 DEF StatusJoinsAnswers, EntriesJustified, Joined, Justified, Tracked

(* A handler that awaits its send stays entitled to it.                        *)
Entitled(o, k) ==
    /\ k \in AnswerKinds
    /\ Logged(AnswerTopic(k), o, k)
    /\ OutcomeKind(k) = "OrderCompleted" =>
          Logged("payments.v1", o, "PaymentAuthorized") /\
          Logged("inventory.v1", o, "InventoryReserved")

LEMMA InFlightFacts ==
    ASSUME SagaInvariant, NEW m \in inFlight
    PROVE  \E o \in Orders, k \in AnswerKinds :
              EventOf(m) = [order |-> o, kind |-> k] /\ Entitled(o, k)
  <1>1. EventOf(m) \in Event
    BY HandledEvent, InvariantFacts
  <1>2. PICK o \in Orders, k \in EventKinds : EventOf(m) = [order |-> o, kind |-> k]
    BY <1>1 DEF Event
  <1>3. Entitled(o, k)
    BY <1>2, InvariantFacts DEF InFlightJustified, Entitled
  <1> QED BY <1>2, <1>3 DEF Entitled

LEMMA EntitledStays ==
    ASSUME SagaInvariant, LogGrows, NEW o \in Orders, NEW k, Entitled(o, k)
    PROVE  Entitled(o, k)'
  <1>1. \A topic \in SagaTopics : \A kind : Logged(topic, o, kind) => Logged(topic, o, kind)'
    BY LoggedStays, InvariantFacts
  <1>2. AnswerTopic(k) \in SagaTopics
    BY KindsAndTopics DEF Entitled
  <1> QED BY <1>1, <1>2 DEF Entitled, SagaTopics

LEMMA EventStays ==
    ASSUME SagaInvariant, LogGrows, NEW m \in inFlight
    PROVE  EventOf(m)' = EventOf(m)
  <1>1. m.tp \in DOMAIN log /\ m.offset + 1 \in DOMAIN log[m.tp]
    BY HandledEvent, GroupFacts, InvariantFacts
  <1>2. log'[m.tp][m.offset + 1] = log[m.tp][m.offset + 1]
    BY <1>1, EventAt, InvariantFacts
  <1> QED BY <1>2 DEF EventOf

LEMMA InFlightKept ==
    ASSUME SagaInvariant, LogGrows,
           \A m \in inFlight' :
              \/ \E n \in inFlight : m.tp = n.tp /\ m.offset = n.offset
              \/ \E o \in Orders, k \in AnswerKinds :
                    EventOf(m)' = [order |-> o, kind |-> k] /\ Entitled(o, k)
    PROVE  InFlightJustified'
  <1>1. ASSUME NEW m \in inFlight'
        PROVE  \E o \in Orders, k \in AnswerKinds :
                  EventOf(m)' = [order |-> o, kind |-> k] /\ Entitled(o, k)
    <2>1. ASSUME NEW n \in inFlight, m.tp = n.tp, m.offset = n.offset
          PROVE  \E o \in Orders, k \in AnswerKinds :
                    EventOf(m)' = [order |-> o, kind |-> k] /\ Entitled(o, k)
      <3>1. EventOf(m)' = EventOf(n)
        BY <2>1, EventStays DEF EventOf
      <3> QED BY <3>1, InFlightFacts
    <2> QED BY <2>1
  <1>2. ASSUME NEW m \in inFlight'
        PROVE  \E o \in Orders, k \in AnswerKinds :
                  EventOf(m)' = [order |-> o, kind |-> k] /\ Entitled(o, k)'
    BY <1>1, <1>2, EntitledStays
  <1>3. ASSUME NEW m \in inFlight'
        PROVE  \E o \in Orders, k \in AnswerKinds :
                  /\ EventOf(m)' = [order |-> o, kind |-> k]
                  /\ Logged(AnswerTopic(k), o, k)'
                  /\ OutcomeKind(k) = "OrderCompleted" =>
                        Logged("payments.v1", o, "PaymentAuthorized")' /\
                        Logged("inventory.v1", o, "InventoryReserved")'
    BY <1>2, <1>3 DEF Entitled
  <1> QED BY <1>3 DEF InFlightJustified

LEMMA OutcomesKept ==
    ASSUME SagaInvariant, LogGrows,
           \A o \in Orders :
             /\ Logged("orders.completed.v1", o, "OrderCompleted")' =>
                  \/ Logged("orders.completed.v1", o, "OrderCompleted")
                  \/ /\ Logged("payments.v1", o, "PaymentAuthorized")
                     /\ Logged("inventory.v1", o, "InventoryReserved")
             /\ Logged("orders.cancelled.v1", o, "OrderCancelled")' =>
                  \/ Logged("orders.cancelled.v1", o, "OrderCancelled")
                  \/ Logged("payments.v1", o, "PaymentDeclined")
                  \/ Logged("inventory.v1", o, "InventoryRejected")
    PROVE  OutcomeJustified'
  <1>1. \A topic \in SagaTopics, o \in Orders : \A kind :
           Logged(topic, o, kind) => Logged(topic, o, kind)'
    BY LoggedStays, InvariantFacts
  <1> QED BY <1>1, InvariantFacts DEF OutcomeJustified, SagaTopics

(* The environment's sends leave the outcome topics as they were.              *)
LEMMA OutcomesAfterInput ==
    ASSUME SagaInvariant, NEW topic \in {"orders.v1", "payments.v1", "inventory.v1"},
           NEW o \in Orders, NEW kind \in EventKinds, Send(topic, o, kind)
    PROVE  OutcomeJustified'
  <1>1. topic \in SagaTopics /\ {"orders.completed.v1", "orders.cancelled.v1"} \subseteq SagaTopics
    BY DEF SagaTopics
  <1>2. /\ LogGrows
        /\ \A t \in SagaTopics, p \in Orders : \A k :
             Logged(t, p, k)' => Logged(t, p, k) \/ (t = topic /\ p = o /\ k = kind)
    BY <1>1, LoggedSent, InvariantFacts
  <1> QED BY <1>1, <1>2, OutcomesKept

(* No order comes into being behind the group's back.                          *)
LEMMA BehindKept ==
    ASSUME SagaInvariant, faults' \in [FaultKinds -> Nat], GroupOK(Subscription)', Forward,
           \A i \in Instances, o \in Orders :
              \/ /\ Tracked(i, o)' => Tracked(i, o)
                 /\ \/ ~Tracked(i, o)
                    \/ EventsOf("orders.v1", o, "OrderPlaced")' =
                           EventsOf("orders.v1", o, "OrderPlaced")
              \/ \A n \in EventsOf("orders.v1", o, "OrderPlaced")' :
                    n <= group'.position[Keyed("orders.v1", o)]
    PROVE  TrackedBehind'
  <1> SUFFICES ASSUME ~Regrouped', NEW i \in Instances, NEW o \in Orders, Tracked(i, o)',
                      NEW n \in EventsOf("orders.v1", o, "OrderPlaced")'
               PROVE  n <= group'.position[Keyed("orders.v1", o)]
    BY DEF TrackedBehind, Keyed
  <1>1. ~Regrouped
    <2>1. /\ faults'["rebalance"] = faults["rebalance"] /\ faults'["crash"] = faults["crash"]
          /\ faults'["replay"] = faults["replay"]
      BY DEF Forward, FaultKinds
    <2> QED BY <2>1 DEF Regrouped
  <1>2. CASE /\ Tracked(i, o)
             /\ EventsOf("orders.v1", o, "OrderPlaced")' = EventsOf("orders.v1", o, "OrderPlaced")
    <2> DEFINE tp == Keyed("orders.v1", o)
    <2>1. n \in EventsOf("orders.v1", o, "OrderPlaced")
      BY <1>2
    <2>2. n <= group.position[tp]
      BY <1>1, <1>2, <2>1, InvariantFacts DEF TrackedBehind, Keyed
    <2>3. tp \in Subscription /\ tp \in DOMAIN log
      BY SubscribedKey, InvariantFacts
    <2>4. group.position[tp] \in Nat /\ group'.position[tp] >= group.position[tp]
      BY <2>3, GroupFacts, InvariantFacts DEF Forward
    <2>5. n \in Nat
      BY <2>1, <2>3, LogFacts, InvariantFacts DEF EventsOf, Keyed
    <2>6. group'.position \in [Subscription -> Nat]
      BY DEF GroupOK, GroupType
    <2> QED BY <2>2, <2>3, <2>4, <2>5, <2>6
  <1> QED BY <1>2

-----------------------------------------------------------------------------
(* The invariant, one lemma per kind of step.                                  *)

LEMMA FrameKeepsInvariant ==
    ASSUME SagaInvariant, StepOK, UNCHANGED orderStates,
           AnswersInPlace', OrdersInPlace', PlacedOnce', InFlightJustified', OutcomeJustified',
           TrackedBehind'
    PROVE  SagaInvariant'
  <1>1. EntriesType'
    BY InvariantFacts DEF EntriesType
  <1>2. StatusJoinsAnswers' /\ EntriesJustified'
    BY EntryFacts, EntriesKept DEF StepOK
  <1> QED BY <1>1, <1>2, InvariantFrom, InvariantFacts DEF StepOK

LEMMA QuietKeepsInvariant ==
    ASSUME SagaInvariant, StepOK, Forward, QuietStep
    PROVE  SagaInvariant'
  <1>1. UNCHANGED <<log, faults, inFlight, orderStates>>
    BY DEF QuietStep
  <1>2. InFlightJustified'
    BY <1>1, InFlightKept DEF StepOK
  <1>3. TrackedBehind'
    BY <1>1, SameLog, BehindKept DEF StepOK, Tracked
  <1> QED BY <1>1, <1>2, <1>3, SameLog, FrameKeepsInvariant

(* A send of the environment: the outcome topics are as they were.             *)
LEMMA PlaceKeepsInvariant ==
    ASSUME SagaInvariant, StepOK, Forward, NEW o \in Orders, PlaceStep(o)
    PROVE  SagaInvariant'
  <1>1. /\ Send("orders.v1", o, "OrderPlaced") /\ ~Placed(o)
        /\ UNCHANGED <<inFlight, orderStates>>
    BY DEF PlaceStep
  <1>2. AnswersInPlace' /\ OrdersInPlace'
    BY <1>1, PlacesSent, KindsAndTopics
  <1> DEFINE last == Len(log[Keyed("orders.v1", o)]) + 1
  <1>3. \A p \in Orders : EventsOf("orders.v1", p, "OrderPlaced")' =
           IF p = o THEN EventsOf("orders.v1", o, "OrderPlaced") \cup {last}
                    ELSE EventsOf("orders.v1", p, "OrderPlaced")
    BY <1>1, EventsSent, KeyedInLog, KindsAndTopics, InvariantFacts
  <1>4. EventsOf("orders.v1", o, "OrderPlaced") = {}
    BY <1>1 DEF Placed, Logged
  <1>h. HIDE DEF last
  <1>5. PlacedOnce'
    <2>1. ASSUME NEW p \in Orders
          PROVE  (\A m, n \in EventsOf("orders.v1", p, "OrderPlaced") : m = n)'
      <3>1. CASE p = o
        BY <1>3, <1>4, <3>1
      <3>2. CASE p # o
        BY <1>3, <3>2, InvariantFacts DEF PlacedOnce
      <3> QED BY <3>1, <3>2
    <2> QED BY <2>1 DEF PlacedOnce
  <1>6. InFlightJustified'
    BY <1>1, InFlightKept DEF StepOK
  <1>7. OutcomeJustified'
    BY <1>1, OutcomesAfterInput, KindsAndTopics DEF StepOK
  <1>8. TrackedBehind'
    <2>1. \A i \in Instances : ~Tracked(i, o)
      BY <1>1, EntryFacts DEF Justified, Tracked
    <2>2. \A i \in Instances, p \in Orders : Tracked(i, p)' <=> Tracked(i, p)
      BY <1>1 DEF Tracked
    <2> QED BY <1>3, <2>1, <2>2, BehindKept DEF StepOK
  <1> QED BY <1>1, <1>2, <1>5, <1>6, <1>7, <1>8, FrameKeepsInvariant

LEMMA AnswerKeepsInvariant ==
    ASSUME SagaInvariant, StepOK, Forward, NEW o \in Orders, NEW k \in AnswerKinds,
           AnswerStep(o, k)
    PROVE  SagaInvariant'
  <1>1. /\ Send(AnswerTopic(k), o, k)
        /\ UNCHANGED <<inFlight, orderStates>>
    BY DEF AnswerStep
  <1>2. AnswersInPlace' /\ OrdersInPlace'
    BY <1>1, PlacesSent, KindsAndTopics
  <1>3. \A p \in Orders : EventsOf("orders.v1", p, "OrderPlaced")' =
                             EventsOf("orders.v1", p, "OrderPlaced")
    BY <1>1, LoggedSent, KindsAndTopics, InvariantFacts
  <1>4. PlacedOnce'
    BY <1>3, InvariantFacts DEF PlacedOnce
  <1>5. InFlightJustified'
    BY <1>1, InFlightKept DEF StepOK
  <1>6. OutcomeJustified'
    BY <1>1, OutcomesAfterInput, KindsAndTopics DEF StepOK
  <1>7. TrackedBehind'
    <2>1. \A i \in Instances, p \in Orders : Tracked(i, p)' <=> Tracked(i, p)
      BY <1>1 DEF Tracked
    <2> QED BY <1>3, <2>1, BehindKept DEF StepOK
  <1> QED BY <1>1, <1>2, <1>4, <1>5, <1>6, <1>7, FrameKeepsInvariant

LEMMA TrackKeepsInvariant ==
    ASSUME SagaInvariant, StepOK, Forward, NEW i \in Instances, NEW o \in Orders,
           TrackStep(i, o)
    PROVE  SagaInvariant'
  <1> DEFINE tp == Keyed("orders.v1", o)
  <1>1. /\ group.position[tp] + 1 \in EventsOf("orders.v1", o, "OrderPlaced")
        /\ group'.position[tp] = group.position[tp] + 1
        /\ orderStates' = [orderStates EXCEPT ![i][o] = NewOrder]
        /\ UNCHANGED <<log, faults, inFlight>>
    BY DEF TrackStep
  <1>2. \A j \in Instances, p \in Orders : orderStates'[j][p] =
           IF j = i /\ p = o THEN NewOrder ELSE orderStates[j][p]
    BY <1>1, InvariantFacts DEF EntriesType
  <1>3. EntriesType'
    <2>1. NewOrder \in OrderState
      BY DEF NewOrder, OrderState
    <2> QED BY <1>1, <2>1, InvariantFacts DEF EntriesType
  <1>4. Joined(NewOrder) /\ Justified(NewOrder, o)
    BY <1>1 DEF Joined, Justified, NewOrder, Ready, Placed, Logged
  <1>5. StatusJoinsAnswers' /\ EntriesJustified'
    BY <1>2, <1>4, EntryFacts, EntriesKept DEF StepOK
  <1>6. InFlightJustified'
    BY <1>1, InFlightKept DEF StepOK
  <1>7. TrackedBehind'
    <2>1. \A n \in EventsOf("orders.v1", o, "OrderPlaced")' : n <= group'.position[tp]
      <3>1. \A n \in EventsOf("orders.v1", o, "OrderPlaced") : n = group.position[tp] + 1
        BY <1>1, InvariantFacts DEF PlacedOnce
      <3>2. group.position[tp] \in Nat
        BY SubscribedKey, GroupFacts, InvariantFacts
      <3> QED BY <1>1, <3>1, <3>2, SameLog
    <2>2. \A j \in Instances, p \in Orders : p # o => (Tracked(j, p)' <=> Tracked(j, p))
      BY <1>2 DEF Tracked
    <2>3. \A p \in Orders : EventsOf("orders.v1", p, "OrderPlaced")' =
                               EventsOf("orders.v1", p, "OrderPlaced")
      BY <1>1, SameLog
    <2> QED BY <2>1, <2>2, <2>3, BehindKept DEF StepOK
  <1> QED BY <1>1, <1>3, <1>5, <1>6, <1>7, SameLog, InvariantFrom, InvariantFacts DEF StepOK

(* One answer, applied to an entry on which answers and status already agree.  *)
LEMMA AppliedFacts ==
    ASSUME NEW st \in OrderState, NEW k \in AnswerKinds, Joined(st)
    PROVE  LET new == Applied(st, k)
           IN  /\ new \in OrderState /\ Joined(new)
               /\ new.payment = "AUTHORIZED" =>
                     st.payment = "AUTHORIZED" \/ k = "PaymentAuthorized"
               /\ new.inventory = "RESERVED" =>
                     st.inventory = "RESERVED" \/ k = "InventoryReserved"
               /\ new.status = st.status \/ new.status \in {"COMPLETED", "CANCELLED"}
               /\ new.status = "COMPLETED" =>
                     Ready(new) /\ (st.status = "COMPLETED" \/ Publishes(st, k))
               /\ new.status = "CANCELLED" =>
                     \/ st.status = "CANCELLED"
                     \/ Publishes(st, k) /\ k \in {"PaymentDeclined", "InventoryRejected"}
               /\ new.status = "COMPLETED" /\ st.status # "COMPLETED" =>
                     k \in {"PaymentAuthorized", "InventoryReserved"}
               /\ Publishes(st, k) =>
                     k \in {"PaymentDeclined", "InventoryRejected"} \/ Ready(new)
  <1>1. CASE k = "PaymentAuthorized"
    BY <1>1 DEF Applied, Authorized, Ready, OrderState, Joined, Publishes
  <1>2. CASE k = "PaymentDeclined"
    BY <1>2 DEF Applied, Declined, Ready, OrderState, Joined, Publishes
  <1>3. CASE k = "InventoryReserved"
    BY <1>3 DEF Applied, Reserved, Ready, OrderState, Joined, Publishes
  <1>4. CASE k = "InventoryRejected"
    BY <1>4 DEF Applied, Rejected, Ready, OrderState, Joined, Publishes
  <1> QED BY <1>1, <1>2, <1>3, <1>4 DEF AnswerKinds

LEMMA AppliedJustified ==
    ASSUME SagaInvariant, NEW i \in Instances, NEW o \in Orders, NEW k \in AnswerKinds,
           Tracked(i, o), Logged(AnswerTopic(k), o, k)
    PROVE  LET new == Applied(orderStates[i][o], k)
           IN  /\ Justified(new, o)
               /\ Publishes(orderStates[i][o], k) => Entitled(o, k)
  <1>1. PICK st : st = orderStates[i][o]
    OBVIOUS
  <1>2. st \in OrderState /\ Joined(st) /\ Justified(st, o) /\ st # Untracked
    BY <1>1, EntryFacts DEF Tracked
  <1>3. PICK new : new = Applied(st, k)
    OBVIOUS
  <1>4. /\ new.payment = "AUTHORIZED" => st.payment = "AUTHORIZED" \/ k = "PaymentAuthorized"
        /\ new.inventory = "RESERVED" => st.inventory = "RESERVED" \/ k = "InventoryReserved"
        /\ new.status = st.status \/ new.status \in {"COMPLETED", "CANCELLED"}
        /\ new.status = "CANCELLED" =>
              st.status = "CANCELLED" \/ k \in {"PaymentDeclined", "InventoryRejected"}
        /\ Publishes(st, k) => k \in {"PaymentDeclined", "InventoryRejected"} \/ Ready(new)
    BY <1>2, <1>3, AppliedFacts
  <1>5. /\ new.payment = "AUTHORIZED" => Logged("payments.v1", o, "PaymentAuthorized")
        /\ new.inventory = "RESERVED" => Logged("inventory.v1", o, "InventoryReserved")
    BY <1>2, <1>4 DEF Justified, AnswerTopic
  <1>6. new.status = "CANCELLED" =>
           Logged("payments.v1", o, "PaymentDeclined") \/ Logged("inventory.v1", o, "InventoryRejected")
    BY <1>2, <1>4 DEF Justified, AnswerTopic
  <1>7. Justified(new, o)
    BY <1>2, <1>4, <1>5, <1>6 DEF Justified
  <1>8. Publishes(st, k) => Entitled(o, k)
    BY <1>4, <1>5 DEF Entitled, OutcomeKind, Ready
  <1> QED BY <1>1, <1>3, <1>7, <1>8

LEMMA ApplyKeepsInvariant ==
    ASSUME SagaInvariant, StepOK, Forward, NEW i \in Instances, NEW o \in Orders,
           NEW k \in AnswerKinds, ApplyStep(i, o, k)
    PROVE  SagaInvariant'
  <1>1. PICK new : new = Applied(orderStates[i][o], k)
    OBVIOUS
  <1>2. /\ Tracked(i, o) /\ Logged(AnswerTopic(k), o, k)
        /\ orderStates' = [orderStates EXCEPT ![i][o] = new]
        /\ UNCHANGED <<log, faults>>
    BY <1>1 DEF ApplyStep
  <1>3. /\ new \in OrderState /\ Joined(new) /\ Justified(new, o)
        /\ Publishes(orderStates[i][o], k) => Entitled(o, k)
    BY <1>1, <1>2, EntryFacts, AppliedFacts, AppliedJustified
  <1>4. \A j \in Instances, p \in Orders : orderStates'[j][p] =
           IF j = i /\ p = o THEN new ELSE orderStates[j][p]
    BY <1>2, InvariantFacts DEF EntriesType
  <1>5. EntriesType'
    BY <1>2, <1>3, InvariantFacts DEF EntriesType
  <1>6. StatusJoinsAnswers' /\ EntriesJustified'
    BY <1>3, <1>4, EntryFacts, EntriesKept DEF StepOK
  <1>7. InFlightJustified'
    <2>1. CASE Publishes(orderStates[i][o], k)
      <3>1. PICK m : /\ EventOf(m) = [order |-> o, kind |-> k]
                     /\ inFlight' = inFlight \cup {m}
        BY <2>1 DEF ApplyStep
      <3>2. EventOf(m)' = [order |-> o, kind |-> k] /\ Entitled(o, k)
        BY <1>2, <1>3, <2>1, <3>1 DEF EventOf
      <3> QED BY <3>1, <3>2, InFlightKept DEF StepOK
    <2>2. CASE ~Publishes(orderStates[i][o], k)
      <3>1. inFlight' = inFlight
        BY <2>2 DEF ApplyStep
      <3> QED BY <3>1, InFlightKept DEF StepOK
    <2> QED BY <2>1, <2>2
  <1>8. TrackedBehind'
    <2>1. \A j \in Instances, p \in Orders : Tracked(j, p)' => Tracked(j, p)
      BY <1>2, <1>4 DEF Tracked
    <2> QED BY <1>2, <2>1, SameLog, BehindKept DEF StepOK
  <1> QED BY <1>2, <1>5, <1>6, <1>7, <1>8, SameLog, InvariantFrom, InvariantFacts DEF StepOK

(* The awaited send settles: an outcome is announced, at most.                 *)
LEMMA PublishKeepsInvariant ==
    ASSUME SagaInvariant, StepOK, Forward, NEW m \in inFlight, NEW o \in Orders,
           NEW k \in AnswerKinds, PublishStep(m, o, k)
    PROVE  SagaInvariant'
  <1>1. /\ EventOf(m) = [order |-> o, kind |-> k] /\ inFlight' = inFlight \ {m}
        /\ Send(OutcomeTopic(k), o, OutcomeKind(k)) \/ UNCHANGED log
        /\ UNCHANGED orderStates
    BY DEF PublishStep
  <1>2. Entitled(o, k)
    BY <1>1, InFlightFacts
  <1>3. InFlightJustified'
    BY <1>1, InFlightKept DEF StepOK
  <1>4. CASE Send(OutcomeTopic(k), o, OutcomeKind(k))
    <2>1. AnswersInPlace' /\ OrdersInPlace'
      BY <1>4, PlacesSent, KindsAndTopics
    <2>2. \A p \in Orders : EventsOf("orders.v1", p, "OrderPlaced")' =
                               EventsOf("orders.v1", p, "OrderPlaced")
      BY <1>4, LoggedSent, KindsAndTopics, InvariantFacts
    <2>3. PlacedOnce'
      BY <2>2, InvariantFacts DEF PlacedOnce
    <2>4. OutcomeJustified'
      <3>1. \A t \in SagaTopics, p \in Orders : \A kk :
               Logged(t, p, kk)' => Logged(t, p, kk) \/ (p = o /\ kk = OutcomeKind(k))
        BY <1>4, LoggedSent, KindsAndTopics, InvariantFacts
      <3>2. OutcomeKind(k) = "OrderCompleted" =>
               Logged("payments.v1", o, "PaymentAuthorized") /\ Logged("inventory.v1", o, "InventoryReserved")
        BY <1>2 DEF Entitled
      <3>3. OutcomeKind(k) = "OrderCancelled" =>
               Logged("payments.v1", o, "PaymentDeclined") \/ Logged("inventory.v1", o, "InventoryRejected")
        BY <1>2, KindsAndTopics DEF Entitled, AnswerTopic
      <3>4. {"orders.completed.v1", "orders.cancelled.v1"} \subseteq SagaTopics
        BY DEF SagaTopics
      <3> QED BY <3>1, <3>2, <3>3, <3>4, OutcomesKept DEF StepOK
    <2>5. TrackedBehind'
      <3>1. \A i \in Instances, p \in Orders : Tracked(i, p)' <=> Tracked(i, p)
        BY <1>1 DEF Tracked
      <3> QED BY <2>2, <3>1, BehindKept DEF StepOK
    <2> QED BY <1>1, <1>3, <2>1, <2>3, <2>4, <2>5, FrameKeepsInvariant
  <1>5. CASE UNCHANGED log
    <2>1. TrackedBehind'
      <3>1. \A i \in Instances, p \in Orders : Tracked(i, p)' <=> Tracked(i, p)
        BY <1>1 DEF Tracked
      <3> QED BY <1>5, <3>1, SameLog, BehindKept DEF StepOK
    <2> QED BY <1>1, <1>3, <1>5, <2>1, SameLog, FrameKeepsInvariant
  <1> QED BY <1>1, <1>4, <1>5

LEMMA RegroupKeepsInvariant ==
    ASSUME SagaInvariant, StepOK, NEW lost, RegroupStep(lost)
    PROVE  SagaInvariant'
  <1>1. /\ UNCHANGED log /\ Regrouped'
        /\ \A m \in inFlight' : \E n \in inFlight : m.tp = n.tp /\ m.offset = n.offset
        /\ orderStates' = [i \in Instances |-> [o \in Orders |->
                              IF i \in lost THEN Untracked ELSE orderStates[i][o]]]
    BY DEF RegroupStep
  <1>2. \A i \in Instances, o \in Orders :
           orderStates'[i][o] = Untracked \/ orderStates'[i][o] = orderStates[i][o]
    BY <1>1
  <1>3. EntriesType'
    <2>1. Untracked \in OrderState
      BY DEF Untracked, OrderState
    <2> QED BY <1>1, <2>1, InvariantFacts DEF EntriesType
  <1>4. \A o \in Orders : Joined(Untracked) /\ Justified(Untracked, o)
    BY DEF Joined, Justified, Untracked, Ready
  <1>5. StatusJoinsAnswers' /\ EntriesJustified'
    BY <1>2, <1>4, EntryFacts, EntriesKept DEF StepOK
  <1>6. InFlightJustified'
    BY <1>1, InFlightKept DEF StepOK
  <1>7. TrackedBehind'
    BY <1>1 DEF TrackedBehind
  <1> QED BY <1>1, <1>3, <1>5, <1>6, <1>7, SameLog, InvariantFrom, InvariantFacts DEF StepOK

LEMMA InitInvariant == Init => SagaInvariant
  <1> SUFFICES ASSUME Init
               PROVE  SagaInvariant
    OBVIOUS
  <1> DEFINE topics == SagaTopics
  <1>1. Subscription \subseteq topics \X Partitions
    BY DEF Subscription, SagaTopics
  <1>2. /\ TopicsInit(topics) /\ GroupInit(Subscription)
        /\ orderStates = [i \in Instances |-> [o \in Orders |-> Untracked]]
    BY DEF Init
  <1>h. HIDE DEF topics
  <1>3. /\ GroupOK(Subscription) /\ faults \in [FaultKinds -> Nat]
        /\ DOMAIN log = topics \X Partitions
        /\ \A tp \in DOMAIN log : DOMAIN log[tp] = {}
        /\ inFlight = {}
    BY <1>1, <1>2, GroupStarts
  <1>4. DOMAIN log = TPs
    BY <1>3 DEF topics, TPs
  <1>5. \A topic \in SagaTopics, o \in Orders : \A kind : EventsOf(topic, o, kind) = {}
    BY <1>3, <1>4 DEF EventsOf, TPs
  <1>6. EntriesType
    <2>1. Untracked \in OrderState
      BY DEF Untracked, OrderState
    <2> QED BY <1>2, <2>1 DEF EntriesType
  <1>7. StatusJoinsAnswers /\ EntriesJustified /\ TrackedBehind
    BY <1>2 DEF StatusJoinsAnswers, EntriesJustified, TrackedBehind, Tracked, Untracked, Ready
  <1>8. AnswersInPlace /\ OrdersInPlace /\ InFlightJustified
    BY <1>3 DEF AnswersInPlace, OrdersInPlace, InFlightJustified
  <1>9. PlacedOnce /\ OutcomeJustified
    BY <1>5 DEF PlacedOnce, OutcomeJustified, Logged, SagaTopics
  <1>10. TopicsType(SagaTopics)
    BY <1>3, <1>4 DEF TopicsType, GroupOK, LogOK, TPs
  <1> QED BY <1>3, <1>6, <1>7, <1>8, <1>9, <1>10
          DEF SagaInvariant, TypeOK, GroupOK, EntriesType

LEMMA NextKeepsInvariant == SagaInvariant /\ [Next]_vars => SagaInvariant'
  <1> SUFFICES ASSUME SagaInvariant, StepOK
               PROVE  SagaInvariant'
    BY NextSteps
  <1> QED BY QuietKeepsInvariant, PlaceKeepsInvariant, AnswerKeepsInvariant,
             TrackKeepsInvariant, ApplyKeepsInvariant, PublishKeepsInvariant,
             RegroupKeepsInvariant DEF StepOK, OrderStep

(* The strengthened invariant holds in every reachable state: the consumer     *)
(* group, the entries, the handlers in flight and the published outcomes agree *)
(* with what the upstream services said (OrderSagaService).                    *)
THEOREM InvariantHolds == Spec => []SagaInvariant
  BY InitInvariant, NextKeepsInvariant, PTL DEF Spec

(* Every variable keeps its type and every position stays within its log.      *)
THEOREM TypeCorrect == Spec => []TypeOK
  <1>1. SagaInvariant => TypeOK
    BY DEF SagaInvariant
  <1> QED BY <1>1, InvariantHolds, PTL

(* An entry's status is the join of the two answers it recorded, so the orders *)
(* checkAndFixStuckOrders looks for do not exist.                              *)
THEOREM StatusCorrect == Spec => []StatusJoinsAnswers
  <1>1. SagaInvariant => StatusJoinsAnswers
    BY DEF SagaInvariant
  <1> QED BY <1>1, InvariantHolds, PTL

(* No outcome is announced that the upstream services did not justify.         *)
THEOREM OutcomeCorrect == Spec => []OutcomeJustified
  <1>1. SagaInvariant => OutcomeJustified
    BY DEF SagaInvariant
  <1> QED BY <1>1, InvariantHolds, PTL

(* An order is not announced both completed and cancelled unless a service     *)
(* contradicted itself about it.                                               *)
THEOREM OutcomeIsExclusive == Spec => []OutcomeExclusive
  <1>1. SagaInvariant => OutcomeExclusive
    BY DEF SagaInvariant, OutcomeJustified, OutcomeExclusive, SelfContradicted
  <1> QED BY <1>1, InvariantHolds, PTL
-----------------------------------------------------------------------------
(* A decision is published, or about to be.                                    *)

LEMMA PendingStays ==
    ASSUME SagaInvariant, LogGrows, NEW i \in Instances, NEW o \in Orders,
           NEW topic \in SagaTopics, NEW kind,
           PublishedOrPending(i, o, topic, kind),
           \A n \in inFlight :
              n.instance = i /\ EventOf(n).order = o /\ OutcomeKind(EventOf(n).kind) = kind =>
                 \/ Logged(topic, o, kind)'
                 \/ \E m \in inFlight' : m.instance = i /\ m.tp = n.tp /\ m.offset = n.offset
    PROVE  PublishedOrPending(i, o, topic, kind)'
  <1>1. CASE Logged(topic, o, kind)
    BY <1>1, LoggedStays, InvariantFacts DEF PublishedOrPending
  <1>2. ASSUME NEW n \in inFlight, n.instance = i, EventOf(n).order = o,
               OutcomeKind(EventOf(n).kind) = kind,
               NEW m \in inFlight', m.instance = i, m.tp = n.tp, m.offset = n.offset
        PROVE  PublishedOrPending(i, o, topic, kind)'
    <2>1. EventOf(m)' = EventOf(n)
      BY <1>2, EventStays DEF EventOf
    <2>2. EventOf(m)'.order = o /\ (OutcomeKind(EventOf(m).kind) = kind)'
      BY <1>2, <2>1 DEF OutcomeKind
    <2> QED BY <1>2, <2>2 DEF PublishedOrPending
  <1> QED BY <1>1, <1>2 DEF PublishedOrPending

(* How an entry comes to a decision: by the step, or it was there before.      *)
Owed(i, o) ==
    /\ orderStates[i][o].status = "COMPLETED" =>
          PublishedOrPending(i, o, "orders.completed.v1", "OrderCompleted")
    /\ orderStates[i][o].status = "CANCELLED" =>
          PublishedOrPending(i, o, "orders.cancelled.v1", "OrderCancelled")

LEMMA OwedStays ==
    ASSUME SagaInvariant, LogGrows, NEW i \in Instances, NEW o \in Orders, Owed(i, o),
           orderStates'[i][o].status \in {orderStates[i][o].status, "NONE", "PENDING"},
           \A n \in inFlight : n.instance = i =>
              \/ \E m \in inFlight' : m.instance = i /\ m.tp = n.tp /\ m.offset = n.offset
              \/ \E k : /\ EventOf(n).kind = k
                        /\ EventOf(n).order = o => Logged(OutcomeTopic(k), o, OutcomeKind(k))'
    PROVE  Owed(i, o)'
  <1>1. ASSUME NEW n \in inFlight, n.instance = i,
               NEW topic, NEW kind,
               <<topic, kind>> \in {<<"orders.completed.v1", "OrderCompleted">>,
                                    <<"orders.cancelled.v1", "OrderCancelled">>},
               EventOf(n).order = o, OutcomeKind(EventOf(n).kind) = kind
        PROVE  \/ Logged(topic, o, kind)'
               \/ \E m \in inFlight' : m.instance = i /\ m.tp = n.tp /\ m.offset = n.offset
    <2>1. PICK k \in AnswerKinds : EventOf(n).kind = k
      BY InFlightFacts
    <2>2. OutcomeKind(k) = kind /\ OutcomeTopic(k) = topic
      BY <1>1, <2>1 DEF OutcomeKind, OutcomeTopic
    <2> QED BY <1>1, <2>1, <2>2
  <1>2. "orders.completed.v1" \in SagaTopics /\ "orders.cancelled.v1" \in SagaTopics
    BY DEF SagaTopics
  <1>3. orderStates'[i][o].status = "COMPLETED" =>
           PublishedOrPending(i, o, "orders.completed.v1", "OrderCompleted")'
    BY <1>1, <1>2, PendingStays DEF Owed
  <1>4. orderStates'[i][o].status = "CANCELLED" =>
           PublishedOrPending(i, o, "orders.cancelled.v1", "OrderCancelled")'
    BY <1>1, <1>2, PendingStays DEF Owed
  <1> QED BY <1>3, <1>4 DEF Owed

LEMMA ApplyKeepsOwed ==
    ASSUME SagaInvariant, StepOK, NEW i \in Instances, NEW o \in Orders,
           NEW k \in AnswerKinds, ApplyStep(i, o, k),
           NEW j \in Instances, NEW p \in Orders, Owed(j, p)
    PROVE  Owed(j, p)'
  <1>1. PICK new : new = Applied(orderStates[i][o], k)
    OBVIOUS
  <1>2. /\ orderStates' = [orderStates EXCEPT ![i][o] = new] /\ UNCHANGED log
        /\ inFlight \subseteq inFlight'
    BY <1>1 DEF ApplyStep
  <1>3. orderStates'[j][p] = IF j = i /\ p = o THEN new ELSE orderStates[j][p]
    BY <1>2, InvariantFacts DEF EntriesType
  <1>4. /\ new.status = "COMPLETED" =>
              /\ Ready(new)
              /\ orderStates[i][o].status = "COMPLETED" \/
                    (Publishes(orderStates[i][o], k) /\ k \in {"PaymentAuthorized", "InventoryReserved"})
        /\ new.status = "CANCELLED" =>
              \/ orderStates[i][o].status = "CANCELLED"
              \/ Publishes(orderStates[i][o], k) /\ k \in {"PaymentDeclined", "InventoryRejected"}
    BY <1>1, EntryFacts, AppliedFacts
  <1>5. CASE orderStates'[j][p].status = orderStates[j][p].status
    BY <1>2, <1>5, OwedStays DEF StepOK
  <1>6. CASE orderStates'[j][p].status # orderStates[j][p].status
    <2>1. j = i /\ p = o /\ orderStates'[j][p] = new
      BY <1>3, <1>6
    <2>2. CASE new.status \in {"COMPLETED", "CANCELLED"}
      <3>1. PICK m : /\ m.instance = i /\ EventOf(m) = [order |-> o, kind |-> k]
                     /\ m \in inFlight'
        BY <1>4, <1>6, <2>1, <2>2 DEF ApplyStep
      <3>2. m.instance = i /\ EventOf(m)' = [order |-> o, kind |-> k]
        BY <1>2, <3>1 DEF EventOf
      <3>3. \A topic : PublishedOrPending(i, o, topic, OutcomeKind(k))'
        BY <3>1, <3>2 DEF PublishedOrPending
      <3>4. /\ new.status = "COMPLETED" => OutcomeKind(k) = "OrderCompleted"
            /\ new.status = "CANCELLED" => OutcomeKind(k) = "OrderCancelled"
        BY <1>4, <1>6, <2>1 DEF OutcomeKind
      <3> QED BY <2>1, <3>3, <3>4 DEF Owed
    <2>3. CASE new.status \notin {"COMPLETED", "CANCELLED"}
      BY <2>1, <2>3 DEF Owed
    <2> QED BY <2>2, <2>3
  <1> QED BY <1>5, <1>6

LEMMA PublishKeepsOwed ==
    ASSUME SagaInvariant, StepOK, NEW m \in inFlight, NEW o \in Orders,
           NEW k \in AnswerKinds, PublishStep(m, o, k), faults'["send"] = 0,
           NEW j \in Instances, NEW p \in Orders, Owed(j, p)
    PROVE  Owed(j, p)'
  <1>1. /\ EventOf(m) = [order |-> o, kind |-> k]
        /\ Send(OutcomeTopic(k), o, OutcomeKind(k))
        /\ inFlight' = inFlight \ {m} /\ UNCHANGED orderStates
    BY DEF PublishStep
  <1>2. Logged(OutcomeTopic(k), o, OutcomeKind(k))'
    BY <1>1, LoggedSent, KindsAndTopics, InvariantFacts
  <1>3. EventOf(m).kind = k /\ EventOf(m).order = o
    BY <1>1
  <1> QED BY <1>1, <1>2, <1>3, OwedStays DEF StepOK

LEMMA DecisionStaysPublished ==
    ASSUME SagaInvariant, StepOK, DecisionIsPublished
    PROVE  DecisionIsPublished'
  <1> SUFFICES ASSUME faults'["send"] = 0, NEW j \in Instances, NEW p \in Orders
               PROVE  Owed(j, p)'
    BY DEF DecisionIsPublished, Owed
  <1>1. "send" \in FaultKinds
    BY DEF FaultKinds
  <1>2. CASE faults["send"] = 0
    <2>1. Owed(j, p)
      BY <1>2 DEF DecisionIsPublished, Owed
    <2>2. ASSUME UNCHANGED <<inFlight, orderStates>>
          PROVE  Owed(j, p)'
      BY <2>1, <2>2, OwedStays DEF StepOK
    <2>3. ASSUME NEW i \in Instances, NEW o \in Orders, TrackStep(i, o)
          PROVE  Owed(j, p)'
      <3>1. UNCHANGED inFlight /\ orderStates' = [orderStates EXCEPT ![i][o] = NewOrder]
        BY <2>3 DEF TrackStep
      <3>2. orderStates'[j][p] \in {orderStates[j][p], NewOrder}
        BY <3>1, InvariantFacts DEF EntriesType
      <3>3. NewOrder.status = "PENDING"
        BY DEF NewOrder
      <3> QED BY <2>1, <3>1, <3>2, <3>3, OwedStays DEF StepOK
    <2>4. ASSUME NEW lost, RegroupStep(lost)
          PROVE  Owed(j, p)'
      <3>1. /\ orderStates'[j][p] = IF j \in lost THEN Untracked ELSE orderStates[j][p]
            /\ \A n \in inFlight : n.instance \notin lost => \E m \in inFlight' :
                  m.instance = n.instance /\ m.tp = n.tp /\ m.offset = n.offset
        BY <2>4 DEF RegroupStep
      <3>2. CASE j \in lost
        BY <3>1, <3>2 DEF Owed, Untracked
      <3>3. CASE j \notin lost
        BY <2>1, <3>1, <3>3, OwedStays DEF StepOK
      <3> QED BY <3>2, <3>3
    <2> QED BY <2>1, <2>2, <2>3, <2>4, ApplyKeepsOwed, PublishKeepsOwed
            DEF StepOK, OrderStep, QuietStep, PlaceStep, AnswerStep
  <1>3. faults["send"] = 0
    <2>1. faults["send"] \in Nat /\ faults'["send"] \in Nat
      BY <1>1, InvariantFacts DEF StepOK
    <2> QED BY <2>1 DEF StepOK, OrderStep, QuietStep, PlaceStep, AnswerStep, TrackStep,
                       ApplyStep, PublishStep, RegroupStep
  <1> QED BY <1>2, <1>3

(* While no send is rejected, whatever an instance shows as decided is on its  *)
(* outcome topic, or the very instance awaits the send: across rebalances,     *)
(* crashes and replays (handlePaymentEvent, handleInventoryEvent).             *)
THEOREM DecisionsPublished == Spec => []DecisionIsPublished
  <1>1. Init => DecisionIsPublished
    BY DEF Init, DecisionIsPublished, Untracked
  <1>2. SagaInvariant /\ DecisionIsPublished /\ [Next]_vars => DecisionIsPublished'
    BY NextSteps, DecisionStaysPublished
  <1> QED BY <1>1, <1>2, InvariantHolds, PTL DEF Spec

-----------------------------------------------------------------------------
(* What a step may do to a decision.                                           *)

LEMMA DecisionChanges ==
    ASSUME SagaInvariant, StepOK, NEW i \in Instances, NEW o \in Orders,
           Decided(i, o), orderStates'[i][o].status # orderStates[i][o].status
    PROVE  (Decided(i, o)' /\ SelfContradicted(o)) \/ Regrouped'
  <1>1. ASSUME Forward, NEW j \in Instances, NEW p \in Orders, TrackStep(j, p)
        PROVE  Regrouped'
    <2> DEFINE tp == Keyed("orders.v1", o)
    <2>1. orderStates' = [orderStates EXCEPT ![j][p] = NewOrder] /\ UNCHANGED faults
      BY <1>1 DEF TrackStep
    <2>2. i = j /\ o = p
      BY <2>1, InvariantFacts DEF EntriesType
    <2>3. group.position[tp] + 1 \in EventsOf("orders.v1", o, "OrderPlaced")
      BY <1>1, <2>2 DEF TrackStep
    <2>4. group.position[tp] \in Nat
      BY SubscribedKey, GroupFacts, InvariantFacts
    <2>5. Tracked(i, o)
      BY DEF Decided, Tracked, Untracked
    <2>6. Regrouped
      BY <2>3, <2>4, <2>5, InvariantFacts DEF TrackedBehind, Keyed
    <2> QED BY <2>1, <2>6 DEF Regrouped
  <1>2. ASSUME NEW j \in Instances, NEW p \in Orders, NEW k \in AnswerKinds, ApplyStep(j, p, k)
        PROVE  Decided(i, o)' /\ SelfContradicted(o)
    <2>1. PICK st, new : st = orderStates[j][p] /\ new = Applied(st, k)
      OBVIOUS
    <2>2. /\ orderStates' = [orderStates EXCEPT ![j][p] = new]
          /\ Tracked(j, p) /\ Logged(AnswerTopic(k), p, k)
      BY <1>2, <2>1 DEF ApplyStep
    <2>3. i = j /\ o = p /\ orderStates'[i][o] = new
      BY <2>2, InvariantFacts DEF EntriesType
    <2>4. st \in OrderState /\ Joined(st) /\ Justified(st, o)
      BY <2>1, <2>3, EntryFacts
    <2>5. Justified(new, o)
      BY <2>1, <2>2, <2>3, AppliedJustified
    <2>6. /\ Joined(new)
          /\ new.status = st.status \/ new.status \in {"COMPLETED", "CANCELLED"}
      BY <2>1, <2>4, AppliedFacts
    <2>7. st.status \in {"COMPLETED", "CANCELLED"} /\ new.status # st.status
      BY <2>1, <2>3 DEF Decided
    <2>8. SelfContradicted(o)
      BY <2>4, <2>5, <2>6, <2>7 DEF Joined, Justified, Ready, SelfContradicted
    <2> QED BY <2>3, <2>6, <2>7, <2>8 DEF Decided
  <1>3. ASSUME NEW lost, RegroupStep(lost)
        PROVE  Regrouped'
    BY <1>3 DEF RegroupStep
  <1> QED BY <1>1, <1>2, <1>3
          DEF StepOK, OrderStep, QuietStep, PlaceStep, AnswerStep, PublishStep

(* A decision turns into its opposite only when a service contradicted itself, *)
(* and is forgotten only after a rebalance, a crash or a replay: an undisturbed *)
(* group hands no OrderPlaced over again (handleOrderEvent).                   *)
THEOREM DecisionsStable == Spec => DecisionStable
  <1>1. SagaInvariant /\ [Next]_vars =>
          [\A i \in Instances, o \in Orders :
              Decided(i, o) /\ orderStates'[i][o].status # orderStates[i][o].status =>
                  \/ Decided(i, o)' /\ SelfContradicted(o)
                  \/ Regrouped']_vars
    BY NextSteps, DecisionChanges
  <1> QED BY <1>1, InvariantHolds, PTL DEF Spec, DecisionStable

-----------------------------------------------------------------------------
(* The saga implements OrderOutcome: the abstract variables, and what each     *)
(* kind of step does to them.                                                  *)

placedOrders == {o \in Orders : Placed(o)}
settledOutcomes == [o \in Orders |-> Settled(o)]
shownEntries == [i \in Instances |-> [o \in Orders |-> orderStates[i][o].status]]
announcedOutcomes == [o \in Orders |-> Announced(o)]

OutcomeStep == Outcome!OutcomeNext \/ UNCHANGED Outcome!outcomeVars

LEMMA OutcomeSteps ==
    ASSUME \/ UNCHANGED <<placedOrders, settledOutcomes, shownEntries, announcedOutcomes>>
           \/ \E o \in Orders :
                 /\ placedOrders' = placedOrders \cup {o}
                 /\ UNCHANGED <<settledOutcomes, shownEntries, announcedOutcomes>>
           \/ \E o \in Orders, outcome \in {"COMPLETED", "CANCELLED"} :
                 /\ o \in placedOrders
                 /\ settledOutcomes' = [settledOutcomes EXCEPT ![o] = @ \cup {outcome}]
                 /\ UNCHANGED <<placedOrders, shownEntries, announcedOutcomes>>
           \/ \E i \in Instances, o \in Orders :
                 /\ o \in placedOrders
                 /\ shownEntries' = [shownEntries EXCEPT ![i][o] = "PENDING"]
                 /\ UNCHANGED <<placedOrders, settledOutcomes, announcedOutcomes>>
           \/ \E i \in Instances, o \in Orders, outcome \in {"COMPLETED", "CANCELLED"} :
                 /\ shownEntries[i][o] # "NONE"
                 /\ outcome \in settledOutcomes[o]
                 /\ shownEntries' = [shownEntries EXCEPT ![i][o] = outcome]
                 /\ UNCHANGED <<placedOrders, settledOutcomes, announcedOutcomes>>
           \/ \E o \in Orders, outcome \in {"COMPLETED", "CANCELLED"} :
                 /\ outcome \in settledOutcomes[o]
                 /\ announcedOutcomes' = [announcedOutcomes EXCEPT ![o] = @ \cup {outcome}]
                 /\ UNCHANGED <<placedOrders, settledOutcomes, shownEntries>>
           \/ \E lost \in SUBSET Instances :
                 /\ shownEntries' = [i \in Instances |->
                        IF i \in lost THEN [o \in Orders |-> "NONE"] ELSE shownEntries[i]]
                 /\ UNCHANGED <<placedOrders, settledOutcomes, announcedOutcomes>>
    PROVE  OutcomeStep
  <1>1. ASSUME UNCHANGED <<placedOrders, settledOutcomes, shownEntries, announcedOutcomes>>
        PROVE  UNCHANGED Outcome!outcomeVars
    BY <1>1 DEF Outcome!outcomeVars, placedOrders, settledOutcomes, shownEntries, announcedOutcomes
  <1>2. ASSUME NEW o \in Orders, placedOrders' = placedOrders \cup {o},
               UNCHANGED <<settledOutcomes, shownEntries, announcedOutcomes>>
        PROVE  Outcome!OutcomeNext
    <2>1. Outcome!Place(o)
      BY <1>2 DEF Outcome!Place, placedOrders, settledOutcomes, shownEntries, announcedOutcomes
    <2> QED BY <2>1 DEF Outcome!OutcomeNext
  <1>3. ASSUME NEW o \in Orders, NEW outcome \in {"COMPLETED", "CANCELLED"}, o \in placedOrders,
               settledOutcomes' = [settledOutcomes EXCEPT ![o] = @ \cup {outcome}],
               UNCHANGED <<placedOrders, shownEntries, announcedOutcomes>>
        PROVE  Outcome!OutcomeNext
    <2>1. Outcome!Settle(o, outcome)
      BY <1>3 DEF Outcome!Settle, placedOrders, settledOutcomes, shownEntries, announcedOutcomes
    <2> QED BY <2>1 DEF Outcome!OutcomeNext, Outcome!Outcomes
  <1>4. ASSUME NEW i \in Instances, NEW o \in Orders, o \in placedOrders,
               shownEntries' = [shownEntries EXCEPT ![i][o] = "PENDING"],
               UNCHANGED <<placedOrders, settledOutcomes, announcedOutcomes>>
        PROVE  Outcome!OutcomeNext
    <2>1. Outcome!Track(i, o)
      BY <1>4 DEF Outcome!Track, placedOrders, settledOutcomes, shownEntries, announcedOutcomes
    <2> QED BY <2>1 DEF Outcome!OutcomeNext
  <1>5. ASSUME NEW i \in Instances, NEW o \in Orders, NEW outcome \in {"COMPLETED", "CANCELLED"},
               shownEntries[i][o] # "NONE", outcome \in settledOutcomes[o],
               shownEntries' = [shownEntries EXCEPT ![i][o] = outcome],
               UNCHANGED <<placedOrders, settledOutcomes, announcedOutcomes>>
        PROVE  Outcome!OutcomeNext
    <2>1. Outcome!Decide(i, o, outcome)
      BY <1>5 DEF Outcome!Decide, placedOrders, settledOutcomes, shownEntries, announcedOutcomes
    <2> QED BY <2>1 DEF Outcome!OutcomeNext, Outcome!Outcomes
  <1>6. ASSUME NEW o \in Orders, NEW outcome \in {"COMPLETED", "CANCELLED"},
               outcome \in settledOutcomes[o],
               announcedOutcomes' = [announcedOutcomes EXCEPT ![o] = @ \cup {outcome}],
               UNCHANGED <<placedOrders, settledOutcomes, shownEntries>>
        PROVE  Outcome!OutcomeNext
    <2>1. Outcome!Announce(o, outcome)
      BY <1>6 DEF Outcome!Announce, placedOrders, settledOutcomes, shownEntries, announcedOutcomes
    <2> QED BY <2>1 DEF Outcome!OutcomeNext, Outcome!Outcomes
  <1>7. ASSUME NEW lost \in SUBSET Instances,
               shownEntries' = [i \in Instances |->
                  IF i \in lost THEN [o \in Orders |-> "NONE"] ELSE shownEntries[i]],
               UNCHANGED <<placedOrders, settledOutcomes, announcedOutcomes>>
        PROVE  Outcome!OutcomeNext
    <2>1. Outcome!Forget(lost)
      BY <1>7 DEF Outcome!Forget, Outcome!NoEntries,
                  placedOrders, settledOutcomes, shownEntries, announcedOutcomes
    <2> QED BY <2>1 DEF Outcome!OutcomeNext
  <1> QED BY <1>1, <1>2, <1>3, <1>4, <1>5, <1>6, <1>7 DEF OutcomeStep

(* The outcomes an order may have, and those announced, by what is on the log. *)
LEMMA OutcomeSets ==
    ASSUME NEW o
    PROVE  /\ Settled(o) \subseteq {"COMPLETED", "CANCELLED"}
           /\ "COMPLETED" \in Settled(o) <=>
                 Logged("payments.v1", o, "PaymentAuthorized") /\
                 Logged("inventory.v1", o, "InventoryReserved")
           /\ "CANCELLED" \in Settled(o) <=>
                 Logged("payments.v1", o, "PaymentDeclined") \/
                 Logged("inventory.v1", o, "InventoryRejected")
           /\ Announced(o) \subseteq {"COMPLETED", "CANCELLED"}
           /\ "COMPLETED" \in Announced(o) <=> Logged("orders.completed.v1", o, "OrderCompleted")
           /\ "CANCELLED" \in Announced(o) <=> Logged("orders.cancelled.v1", o, "OrderCancelled")
  BY DEF Settled, Announced

(* A send about one order leaves what the log says of the others.              *)
LEMMA MappedAfterSend ==
    ASSUME SagaInvariant, NEW topic \in SagaTopics, NEW o \in Orders, NEW kind \in EventKinds,
           Send(topic, o, kind)
    PROVE  /\ placedOrders' = IF topic = "orders.v1" /\ kind = "OrderPlaced"
                              THEN placedOrders \cup {o} ELSE placedOrders
           /\ \A p \in Orders \ {o} : Settled(p)' = Settled(p) /\ Announced(p)' = Announced(p)
           /\ topic \notin {"payments.v1", "inventory.v1"} => Settled(o)' = Settled(o)
           /\ topic \notin {"orders.completed.v1", "orders.cancelled.v1"} =>
                 Announced(o)' = Announced(o)
  <1>1. ASSUME NEW t \in SagaTopics, NEW p \in Orders, NEW k, ~(t = topic /\ p = o /\ k = kind)
        PROVE  Logged(t, p, k)' <=> Logged(t, p, k)
    BY <1>1, LoggedSent, InvariantFacts DEF Logged
  <1>2. Logged(topic, o, kind)'
    BY LoggedSent, InvariantFacts
  <1>3. SagaTopics = {"orders.v1", "payments.v1", "inventory.v1",
                      "orders.completed.v1", "orders.cancelled.v1"}
    BY DEF SagaTopics
  <1>4. placedOrders' = IF topic = "orders.v1" /\ kind = "OrderPlaced"
                        THEN placedOrders \cup {o} ELSE placedOrders
    BY <1>1, <1>2, <1>3 DEF placedOrders, Placed
  <1>5. ASSUME NEW p \in Orders \ {o}
        PROVE  Settled(p)' = Settled(p) /\ Announced(p)' = Announced(p)
    BY <1>1, <1>3 DEF Settled, Announced
  <1>6. topic \notin {"payments.v1", "inventory.v1"} => Settled(o)' = Settled(o)
    BY <1>1, <1>3 DEF Settled
  <1>7. topic \notin {"orders.completed.v1", "orders.cancelled.v1"} => Announced(o)' = Announced(o)
    BY <1>1, <1>3 DEF Announced
  <1> QED BY <1>4, <1>5, <1>6, <1>7

LEMMA MappedSameLog ==
    ASSUME UNCHANGED log
    PROVE  UNCHANGED <<placedOrders, settledOutcomes, announcedOutcomes>>
  <1>1. \A t, p, k : Logged(t, p, k)' <=> Logged(t, p, k)
    BY DEF Logged, EventsOf
  <1>2. \A o \in Orders : (Placed(o)' <=> Placed(o)) /\ Settled(o)' = Settled(o) /\ Announced(o)' = Announced(o)
    BY <1>1 DEF Placed, Settled, Announced
  <1> QED BY <1>2 DEF placedOrders, settledOutcomes, announcedOutcomes

LEMMA EntryShown ==
    ASSUME NEW i \in Instances, NEW o \in Orders, NEW status,
           \A j \in Instances, p \in Orders : orderStates'[j][p].status =
              IF j = i /\ p = o THEN status ELSE orderStates[j][p].status
    PROVE  shownEntries' = [shownEntries EXCEPT ![i][o] = status]
  <1> DEFINE row == [shownEntries[i] EXCEPT ![o] = status]
  <1>1. row = [p \in Orders |-> IF p = o THEN status ELSE orderStates[i][p].status]
    BY DEF shownEntries
  <1>2. shownEntries' = [j \in Instances |-> IF j = i THEN row ELSE shownEntries[j]]
    BY <1>1 DEF shownEntries
  <1>h. HIDE DEF row
  <1>3. shownEntries' = [shownEntries EXCEPT ![i] = row]
    BY <1>2 DEF shownEntries
  <1> QED BY <1>3 DEF row

LEMMA PlaceOutcome ==
    ASSUME SagaInvariant, NEW o \in Orders, PlaceStep(o)
    PROVE  OutcomeStep
  <1>1. Send("orders.v1", o, "OrderPlaced") /\ UNCHANGED orderStates
    BY DEF PlaceStep
  <1>2. /\ placedOrders' = placedOrders \cup {o}
        /\ \A p \in Orders : Settled(p)' = Settled(p) /\ Announced(p)' = Announced(p)
    BY <1>1, MappedAfterSend, KindsAndTopics
  <1>3. UNCHANGED <<settledOutcomes, shownEntries, announcedOutcomes>>
    BY <1>1, <1>2 DEF settledOutcomes, shownEntries, announcedOutcomes
  <1> QED BY <1>2, <1>3, OutcomeSteps

LEMMA AnswerOutcome ==
    ASSUME SagaInvariant, StepOK, NEW o \in Orders, NEW k \in AnswerKinds, AnswerStep(o, k)
    PROVE  OutcomeStep
  <1>1. Send(AnswerTopic(k), o, k) /\ Placed(o) /\ UNCHANGED orderStates
    BY DEF AnswerStep
  <1>2. /\ placedOrders' = placedOrders
        /\ \A p \in Orders \ {o} : Settled(p)' = Settled(p)
        /\ \A p \in Orders : Announced(p)' = Announced(p)
    BY <1>1, MappedAfterSend, KindsAndTopics
  <1>3. UNCHANGED <<placedOrders, shownEntries, announcedOutcomes>>
    BY <1>1, <1>2 DEF shownEntries, announcedOutcomes
  <1>4. PICK outcome \in {"COMPLETED", "CANCELLED"} :
           outcome = IF k \in {"PaymentAuthorized", "InventoryReserved"}
                     THEN "COMPLETED" ELSE "CANCELLED"
    OBVIOUS
  <1>5. Settled(o)' \in {Settled(o), Settled(o) \cup {outcome}}
    <2>1. \A t \in SagaTopics : \A kk :
             /\ Logged(t, o, kk) => Logged(t, o, kk)'
             /\ Logged(t, o, kk)' => Logged(t, o, kk) \/ kk = k
      <3>1. AnswerTopic(k) \in SagaTopics /\ k \in EventKinds
        BY KindsAndTopics
      <3>2. \A t \in SagaTopics : \A kk : Logged(t, o, kk)' => Logged(t, o, kk) \/ kk = k
        BY <1>1, <3>1, LoggedSent, InvariantFacts
      <3>3. \A t \in SagaTopics : \A kk : Logged(t, o, kk) => Logged(t, o, kk)'
        BY LoggedStays, InvariantFacts DEF StepOK
      <3> QED BY <3>2, <3>3
    <2>2. /\ "COMPLETED" \in Settled(o) => ("COMPLETED" \in Settled(o))'
          /\ "CANCELLED" \in Settled(o) => ("CANCELLED" \in Settled(o))'
          /\ ("COMPLETED" \in Settled(o))' => "COMPLETED" \in Settled(o) \/ outcome = "COMPLETED"
          /\ ("CANCELLED" \in Settled(o))' => "CANCELLED" \in Settled(o) \/ outcome = "CANCELLED"
      <3>1. {"payments.v1", "inventory.v1"} \subseteq SagaTopics
        BY DEF SagaTopics
      <3> QED BY <1>4, <2>1, <3>1 DEF Settled
    <2>3. Settled(o)' \subseteq {"COMPLETED", "CANCELLED"} /\ Settled(o) \subseteq {"COMPLETED", "CANCELLED"}
      BY DEF Settled
    <2> QED BY <1>4, <2>2, <2>3
  <1>6. settledOutcomes' \in {settledOutcomes, [settledOutcomes EXCEPT ![o] = @ \cup {outcome}]}
    BY <1>2, <1>5 DEF settledOutcomes
  <1>7. o \in placedOrders
    BY <1>1 DEF placedOrders
  <1> QED BY <1>3, <1>6, <1>7, OutcomeSteps

LEMMA TrackOutcome ==
    ASSUME SagaInvariant, NEW i \in Instances, NEW o \in Orders, TrackStep(i, o)
    PROVE  OutcomeStep
  <1>1. /\ group.position[Keyed("orders.v1", o)] + 1 \in EventsOf("orders.v1", o, "OrderPlaced")
        /\ orderStates' = [orderStates EXCEPT ![i][o] = NewOrder] /\ UNCHANGED log
    BY DEF TrackStep
  <1>2. o \in placedOrders
    BY <1>1 DEF placedOrders, Placed, Logged
  <1>3. shownEntries' = [shownEntries EXCEPT ![i][o] = "PENDING"]
    <2>1. \A j \in Instances, p \in Orders : orderStates'[j][p].status =
             IF j = i /\ p = o THEN "PENDING" ELSE orderStates[j][p].status
      BY <1>1, InvariantFacts DEF EntriesType, NewOrder
    <2> QED BY <2>1, EntryShown
  <1> QED BY <1>1, <1>2, <1>3, MappedSameLog, OutcomeSteps

LEMMA ApplyOutcome ==
    ASSUME SagaInvariant, NEW i \in Instances, NEW o \in Orders, NEW k \in AnswerKinds,
           ApplyStep(i, o, k)
    PROVE  OutcomeStep
  <1>1. PICK st, new : st = orderStates[i][o] /\ new = Applied(st, k)
    OBVIOUS
  <1>2. /\ orderStates' = [orderStates EXCEPT ![i][o] = new] /\ UNCHANGED log
        /\ Tracked(i, o) /\ Logged(AnswerTopic(k), o, k)
    BY <1>1 DEF ApplyStep
  <1>3. st \in OrderState /\ Joined(st) /\ st.status # "NONE"
    BY <1>1, <1>2, EntryFacts DEF Justified, Tracked
  <1>4. /\ Joined(new) /\ Justified(new, o)
        /\ new.status = st.status \/ new.status \in {"COMPLETED", "CANCELLED"}
    BY <1>1, <1>2, <1>3, AppliedFacts, AppliedJustified
  <1>5. shownEntries' = [shownEntries EXCEPT ![i][o] = new.status]
    <2>1. PICK status : status = new.status
      OBVIOUS
    <2>2. \A j \in Instances, p \in Orders : orderStates'[j][p].status =
             IF j = i /\ p = o THEN status ELSE orderStates[j][p].status
      BY <1>2, <2>1, InvariantFacts DEF EntriesType
    <2>3. shownEntries' = [shownEntries EXCEPT ![i][o] = status]
      BY <2>2, EntryShown
    <2> QED BY <2>1, <2>3
  <1>6. shownEntries[i][o] = st.status
    BY <1>1 DEF shownEntries
  <1>7. CASE new.status = st.status
    <2>1. \A j \in Instances, p \in Orders : orderStates'[j][p].status = orderStates[j][p].status
      <3>1. \A j \in Instances, p \in Orders : orderStates'[j][p] =
               IF j = i /\ p = o THEN new ELSE orderStates[j][p]
        BY <1>2, InvariantFacts DEF EntriesType
      <3> QED BY <1>1, <1>7, <3>1
    <2>2. shownEntries' = shownEntries
      BY <2>1 DEF shownEntries
    <2> QED BY <1>2, <2>2, MappedSameLog, OutcomeSteps
  <1>8. CASE new.status \in {"COMPLETED", "CANCELLED"}
    <2>1. new.status \in Settled(o)
      BY <1>4, <1>8, OutcomeSets DEF Joined, Justified, Ready
    <2>2. new.status \in settledOutcomes[o]
      BY <2>1 DEF settledOutcomes
    <2> QED BY <1>2, <1>3, <1>5, <1>6, <1>8, <2>2, MappedSameLog, OutcomeSteps
  <1> QED BY <1>4, <1>7, <1>8

LEMMA PublishOutcomeMaps ==
    ASSUME SagaInvariant, NEW m \in inFlight, NEW o \in Orders, NEW k \in AnswerKinds,
           PublishStep(m, o, k)
    PROVE  OutcomeStep
  <1>1. /\ EventOf(m) = [order |-> o, kind |-> k] /\ UNCHANGED orderStates
        /\ Send(OutcomeTopic(k), o, OutcomeKind(k)) \/ UNCHANGED log
    BY DEF PublishStep
  <1>2. UNCHANGED shownEntries
    BY <1>1 DEF shownEntries
  <1>3. CASE UNCHANGED log
    BY <1>2, <1>3, MappedSameLog, OutcomeSteps
  <1>4. CASE Send(OutcomeTopic(k), o, OutcomeKind(k))
    <2>1. /\ placedOrders' = placedOrders
          /\ \A p \in Orders : Settled(p)' = Settled(p)
          /\ \A p \in Orders \ {o} : Announced(p)' = Announced(p)
      BY <1>4, MappedAfterSend, KindsAndTopics
    <2>2. PICK outcome \in {"COMPLETED", "CANCELLED"} :
             outcome = IF OutcomeKind(k) = "OrderCompleted" THEN "COMPLETED" ELSE "CANCELLED"
      OBVIOUS
    <2>3. Announced(o)' = Announced(o) \cup {outcome}
      <3>1. {"orders.completed.v1", "orders.cancelled.v1"} \subseteq SagaTopics
        BY DEF SagaTopics
      <3>2. /\ Logged(OutcomeTopic(k), o, OutcomeKind(k))'
            /\ \A t \in SagaTopics : \A kk :
                 ~(t = OutcomeTopic(k) /\ kk = OutcomeKind(k)) =>
                    (Logged(t, o, kk)' <=> Logged(t, o, kk))
        BY <1>4, LoggedSent, KindsAndTopics, InvariantFacts DEF Logged
      <3>3. \/ OutcomeKind(k) = "OrderCompleted" /\ OutcomeTopic(k) = "orders.completed.v1"
            \/ OutcomeKind(k) = "OrderCancelled" /\ OutcomeTopic(k) = "orders.cancelled.v1"
        BY DEF OutcomeKind, OutcomeTopic
      <3> QED BY <2>2, <3>1, <3>2, <3>3 DEF Announced
    <2>4. UNCHANGED <<placedOrders, settledOutcomes, shownEntries>>
      BY <1>2, <2>1 DEF settledOutcomes
    <2>5. announcedOutcomes' = [announcedOutcomes EXCEPT ![o] = @ \cup {outcome}]
      BY <2>1, <2>3 DEF announcedOutcomes
    <2>6. outcome \in settledOutcomes[o]
      <3>1. Entitled(o, k)
        BY <1>1, InFlightFacts
      <3>2. outcome \in Settled(o)
        BY <2>2, <3>1, OutcomeSets, KindsAndTopics DEF Entitled, OutcomeKind, AnswerTopic
      <3> QED BY <3>2 DEF settledOutcomes
    <2> QED BY <2>4, <2>5, <2>6, OutcomeSteps
  <1> QED BY <1>1, <1>3, <1>4

LEMMA RegroupOutcome ==
    ASSUME NEW lost \in SUBSET Instances, RegroupStep(lost)
    PROVE  OutcomeStep
  <1>1. /\ UNCHANGED log
        /\ orderStates' = [i \in Instances |-> [o \in Orders |->
                              IF i \in lost THEN Untracked ELSE orderStates[i][o]]]
    BY DEF RegroupStep
  <1>2. shownEntries' = [i \in Instances |->
           IF i \in lost THEN [o \in Orders |-> "NONE"] ELSE shownEntries[i]]
    <2>1. \A i \in Instances, o \in Orders : orderStates'[i][o].status =
             IF i \in lost THEN "NONE" ELSE orderStates[i][o].status
      BY <1>1 DEF Untracked
    <2> QED BY <2>1 DEF shownEntries
  <1> QED BY <1>1, <1>2, MappedSameLog, OutcomeSteps

LEMMA StepMaps ==
    ASSUME SagaInvariant, StepOK
    PROVE  OutcomeStep
  <1>1. ASSUME QuietStep
        PROVE  OutcomeStep
    <2>1. UNCHANGED <<log, orderStates>>
      BY <1>1 DEF QuietStep
    <2>2. UNCHANGED shownEntries
      BY <2>1 DEF shownEntries
    <2> QED BY <2>1, <2>2, MappedSameLog, OutcomeSteps
  <1> QED BY <1>1, PlaceOutcome, AnswerOutcome, TrackOutcome, ApplyOutcome,
             PublishOutcomeMaps, RegroupOutcome DEF StepOK, OrderStep

LEMMA InitMaps == Init => Outcome!OutcomeInit
  <1> SUFFICES ASSUME Init
               PROVE  Outcome!OutcomeInit
    OBVIOUS
  <1>1. log = [tp \in TPs |-> <<>>] /\ orderStates = [i \in Instances |-> [o \in Orders |-> Untracked]]
    BY DEF Init, TopicsInit, TPs
  <1>2. \A topic \in SagaTopics, o \in Orders : \A kind : ~Logged(topic, o, kind)
    BY <1>1 DEF Logged, EventsOf, TPs
  <1>3. \A o \in Orders : ~Placed(o) /\ Settled(o) = {} /\ Announced(o) = {}
    BY <1>2 DEF Placed, Settled, Announced, SagaTopics
  <1>4. \A i \in Instances, o \in Orders : orderStates[i][o].status = "NONE"
    BY <1>1 DEF Untracked
  <1> QED BY <1>3, <1>4 DEF Outcome!OutcomeInit, Outcome!NoEntries

(* The service keeps the promise of OrderOutcome, whatever is redelivered,     *)
(* lost or forgotten: every handler of OrderSagaService is one of its actions, *)
(* or a stutter.                                                               *)
THEOREM OutcomeImplemented == Spec => ImplementsOutcome
  <1>1. SagaInvariant /\ [Next]_vars => [Outcome!OutcomeNext]_(Outcome!outcomeVars)
    BY NextSteps, StepMaps DEF OutcomeStep
  <1> QED BY <1>1, InitMaps, InvariantHolds, PTL DEF Spec, ImplementsOutcome, Outcome!OutcomeSpec

=============================================================================
