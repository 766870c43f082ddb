--------------------------- MODULE PaymentService ---------------------------
(* payment-service: PaymentService answers every OrderPlaced with an           *)
(* authorization or a refusal, and remembers the offsets it has answered so    *)
(* that a redelivered order is not charged again. The memory is per process.   *)
EXTENDS ConsumerGroup

CONSTANT ResultsOf      \* bound: what the random draws about an order may give

PaymentKinds == {"PaymentAuthorized", "PaymentDeclined"}

ASSUME PaymentAssumption == ResultsOf \in [Orders -> (SUBSET PaymentKinds) \ {{}}]

VARIABLE processed      \* processed[i]: the offsets instance i marked processed

vars == <<log, faults, group, inFlight, processed>>

Subscription == {"orders.v1"} \X Partitions

PaymentTopics == {"orders.v1", "payments.v1"}

Init ==
    /\ TopicsInit(PaymentTopics)
    /\ GroupInit(Subscription)
    /\ processed = [i \in Instances |-> {}]

CustomerPlaces(o) ==
    /\ PlaceOrder(o)
    /\ UNCHANGED <<faults, group, inFlight, processed>>

(* A variant with a bug: the offset is left out of the idempotency key.        *)
PartitionSeen(i, tp, offset) == \E n \in 0..offset : <<tp, n>> \in processed[i]

(* IdempotencyHandler.isDuplicate, as exact as the cache is below its size     *)
IsDuplicate(i, tp, offset) == <<tp, offset>> \in processed[i]

SkipDuplicate(i, tp) ==
    /\ Deliverable(i, tp)
    /\ IsDuplicate(i, tp, group.position[tp])
    /\ FinishAtOnce(tp)
    /\ UNCHANGED <<log, faults, processed>>

(* processPayment begins, and takes its time *)
BeginPayment(i, tp) ==
    /\ Deliverable(i, tp)
    /\ ~IsDuplicate(i, tp, group.position[tp])
    /\ BeginHandling(i, tp)
    /\ UNCHANGED <<log, faults, processed>>

(* A variant with a bug: the offset is forgotten when the send is acknowledged *)
UnmarkedAnswer(m, kind) ==
    /\ Send("payments.v1", EventOf(m).order, kind)
    /\ FinishHandling(m)
    /\ UNCHANGED <<faults, processed>>

(* A variant with a bug: the answer goes to the topic the order came from.      *)
MisroutedAnswer(m, kind) ==
    /\ Send(m.tp[1], EventOf(m).order, kind)
    /\ processed' = [processed EXCEPT ![m.instance] = @ \cup {<<m.tp, m.offset>>}]
    /\ FinishHandling(m)
    /\ UNCHANGED faults

(* processPayment picks the result at random; the acknowledged answer and      *)
(* markProcessed end the handler without another await.                        *)
AnswerOrder(m, kind) ==
    /\ Send("payments.v1", EventOf(m).order, kind)
    /\ processed' = [processed EXCEPT ![m.instance] = @ \cup {<<m.tp, m.offset>>}]
    /\ FinishHandling(m)
    /\ UNCHANGED faults

(* A variant with a bug: the offset is marked although the send was rejected.  *)
MarkedFailure(m, kind) ==
    /\ Fault("send")
    /\ SendUnacknowledged("payments.v1", EventOf(m).order, kind)
    /\ processed' = [processed EXCEPT ![m.instance] = @ \cup {<<m.tp, m.offset>>}]
    /\ FinishHandling(m)

(* handleOrderPlaced catches the rejected send: the offset is not marked, but  *)
(* kafkajs resolves it all the same.                                           *)
AnswerFails(m, kind) ==
    /\ Fault("send")
    /\ SendUnacknowledged("payments.v1", EventOf(m).order, kind)
    /\ FinishHandling(m)
    /\ UNCHANGED processed

Commit(i) == AutoCommit(i) /\ UNCHANGED processed

GroupRebalances == Rebalance /\ UNCHANGED processed

Crash(i) ==
    /\ CrashAndRejoin(i)
    /\ processed' = [processed EXCEPT ![i] = {}]

ReplayOrders ==
    /\ Replay
    /\ processed' = [i \in Instances |-> {}]

Handle(i) == \E tp \in Subscription : SkipDuplicate(i, tp) \/ BeginPayment(i, tp)

Answer ==
    \E m \in inFlight : \E kind \in ResultsOf[EventOf(m).order] :
        AnswerOrder(m, kind) \/ AnswerFails(m, kind)

PaymentStep ==
    \/ \E i \in Instances : Handle(i) \/ Commit(i) \/ Crash(i)
    \/ Answer
    \/ GroupRebalances
    \/ ReplayOrders

Next == (\E o \in Orders : CustomerPlaces(o)) \/ PaymentStep

Spec == Init /\ [][Next]_vars

(* kafkajs keeps polling every partition, and the handler's timers and sends   *)
(* settle.                                                                     *)
PaymentFairness ==
    /\ \A i \in Instances : \A tp \in Subscription :
          WF_vars(SkipDuplicate(i, tp) \/ BeginPayment(i, tp))
    /\ WF_vars(Answer)

FairSpec == Spec /\ PaymentFairness

-----------------------------------------------------------------------------
(* Properties *)

TypeOK ==
    /\ TopicsType(PaymentTopics)
    /\ GroupType(Subscription)
    /\ GroupBounds
    /\ processed \in [Instances -> SUBSET (Subscription \X Nat)]

Payments(o) ==
    Cardinality(EventsOf("payments.v1", o, "PaymentAuthorized"))
      + Cardinality(EventsOf("payments.v1", o, "PaymentDeclined"))

(* the living processes whose cache holds order o *)
Remembering(o) ==
    {i \in Instances : \E entry \in processed[i] : log[entry[1]][entry[2] + 1].order = o}

(* the processes of the service that died: a replay stops them all *)
DeadProcesses == faults["crash"] + Cardinality(Instances) * faults["replay"]

(* Every charge was made by a process that remembers it, or died, or met a      *)
(* rejected send: however often rebalances redeliver an order, no process       *)
(* charges it twice (handleOrderPlaced, isDuplicate, markProcessed).            *)
ChargedOncePerProcess ==
    \A o \in Orders :
        Payments(o) <= Cardinality(Remembering(o)) + DeadProcesses + faults["send"]

Answered(o) == \E kind \in PaymentKinds : Logged("payments.v1", o, kind)

(* What an instance takes for a duplicate was really answered, so skipping it  *)
(* never loses an order (the order of publish and markProcessed).              *)
ProcessedWasAnswered ==
    \A i \in Instances : \A entry \in processed[i] :
        Answered(log[entry[1]][entry[2] + 1].order)

(* What makes these true from step to step: an order is on its topic once, in  *)
(* the partition of its key; the cache holds offsets of the log, and never the *)
(* one its process works on; what was delivered, and what was committed, was   *)
(* answered (handleOrderPlaced against kafkajs' positions).                    *)
OrdersInPlace ==
    \A tp \in Subscription : \A n \in DOMAIN log[tp] :
        /\ tp[2] = PartitionOf[log[tp][n].order]
        /\ log[tp][n].kind = "OrderPlaced"
        /\ \A k \in DOMAIN log[tp] : log[tp][k].order = log[tp][n].order => k = n

ProcessedInLog ==
    \A i \in Instances : \A entry \in processed[i] : entry[2] < Len(log[entry[1]])

InFlightUnmarked == \A m \in inFlight : <<m.tp, m.offset>> \notin processed[m.instance]

DeliveredWasAnswered ==
    faults["send"] = 0 /\ InitialCommitted = 0 =>
        \A tp \in Subscription :
            /\ group.committed[tp] # NoOffset
            /\ \A n \in DOMAIN log[tp] :
                  n <= group.position[tp] \/ n <= group.committed[tp] =>
                      Answered(log[tp][n].order)

PaymentInvariant ==
    /\ TypeOK
    /\ ProcessedWasAnswered
    /\ OrdersInPlace
    /\ ProcessedInLog
    /\ InFlightUnmarked
    /\ DeliveredWasAnswered

(* An offset is committed only when its order was answered, unless a send was  *)
(* rejected: at-least-once processing across rebalances and crashes.           *)
CommittedWasAnswered ==
    faults["send"] = 0 =>
        \A tp \in Subscription : \A n \in 1..Len(log[tp]) :
            n <= group.committed[tp] => Answered(log[tp][n].order)

(* Every placed order is answered, through any number of rebalances and        *)
(* crashes, as long as no send is rejected.                                    *)
EveryOrderAnswered ==
    \A o \in Orders : Placed(o) ~> (Answered(o) \/ faults["send"] > 0)
=============================================================================
