------------------------- MODULE NotificationService -------------------------
(* notification-service: NotificationService writes an email for every outcome *)
(* on its topic to a log file, which unlike its memory outlives the process.   *)
(* Who publishes on that topic is this module's environment, which may send an *)
(* outcome more than once.                                                     *)
EXTENDS ConsumerGroup

CONSTANT
    MaxOutcomes     \* bound: outcome events published about an order

ASSUME NotificationAssumption == MaxOutcomes \in Nat

VARIABLES
    processed,      \* processed[i]: the offsets instance i marked processed
    emails          \* emails[o][kind]: how often the log holds the email

vars == <<log, faults, group, inFlight, processed, emails>>

OutcomeTopic == "orders.outcome.v1"

OutcomeKinds == {"OrderCompleted", "OrderCancelled"}

Subscription == {OutcomeTopic} \X Partitions

Init ==
    /\ TopicsInit({OutcomeTopic})
    /\ GroupInit(Subscription)
    /\ processed = [i \in Instances |-> {}]
    /\ emails = [o \in Orders |-> [kind \in OutcomeKinds |-> 0]]

Outcomes(o, kind) == Cardinality(EventsOf(OutcomeTopic, o, kind))

(* the environment *)
OutcomeArrives(o, kind) ==
    /\ Outcomes(o, "OrderCompleted") + Outcomes(o, "OrderCancelled") < MaxOutcomes
    /\ Send(OutcomeTopic, o, kind)
    /\ UNCHANGED <<faults, group, inFlight, processed, emails>>

(* A variant with a bug: the offset is left out of the idempotency key.        *)
PartitionSeen(i, tp, offset) == \E n \in 0..offset : <<tp, n>> \in processed[i]

IsDuplicate(i, tp, offset) == <<tp, offset>> \in processed[i]

SkipDuplicate(i, tp) ==
    /\ Deliverable(i, tp)
    /\ IsDuplicate(i, tp, group.position[tp])
    /\ FinishAtOnce(tp)
    /\ UNCHANGED <<log, faults, processed, emails>>

(* A variant with a bug: the offset is not marked.                             *)
Unmarked(i, tp) == UNCHANGED processed

MarkProcessed(i, tp) ==
    processed' = [processed EXCEPT ![i] = @ \cup {<<tp, group.position[tp]>>}]

(* handleOrderOutcome: the write is synchronous, nothing is awaited that could *)
(* let another message in                                                      *)
WriteEmail(i, tp) ==
    LET e == NextEvent(tp)
    IN  /\ Deliverable(i, tp)
        /\ ~IsDuplicate(i, tp, group.position[tp])
        /\ emails' = [emails EXCEPT ![e.order][e.kind] = @ + 1]
        /\ MarkProcessed(i, tp)
        /\ FinishAtOnce(tp)
        /\ UNCHANGED <<log, faults>>

(* logEmailNotification swallows a failed write (counted as a failed send):    *)
(* the offset is marked and resolved without an email.                         *)
WriteFails(i, tp) ==
    /\ Deliverable(i, tp)
    /\ ~IsDuplicate(i, tp, group.position[tp])
    /\ Fault("send")
    /\ MarkProcessed(i, tp)
    /\ FinishAtOnce(tp)
    /\ UNCHANGED <<log, emails>>

Commit(i) == AutoCommit(i) /\ UNCHANGED <<processed, emails>>

GroupRebalances == Rebalance /\ UNCHANGED <<processed, emails>>

Crash(i) ==
    /\ CrashAndRejoin(i)
    /\ processed' = [processed EXCEPT ![i] = {}]
    /\ UNCHANGED emails

Handle(i, tp) == SkipDuplicate(i, tp) \/ WriteEmail(i, tp) \/ WriteFails(i, tp)

Next ==
    \/ \E o \in Orders, kind \in OutcomeKinds : OutcomeArrives(o, kind)
    \/ \E i \in Instances, tp \in Subscription : Handle(i, tp)
    \/ \E i \in Instances : Commit(i) \/ Crash(i)
    \/ GroupRebalances

Spec == Init /\ [][Next]_vars

(* kafkajs keeps polling every partition *)
FairSpec == Spec /\ \A i \in Instances, tp \in Subscription : WF_vars(Handle(i, tp))

-----------------------------------------------------------------------------
(* Properties *)

TypeOK ==
    /\ TopicsType({OutcomeTopic})
    /\ GroupType(Subscription)
    /\ GroupBounds
    /\ processed \in [Instances -> SUBSET (Subscription \X Nat)]
    /\ emails \in [Orders -> [OutcomeKinds -> Nat]]

(* A process mails an outcome event once: only another process, or a restarted *)
(* one, sends a second email, redelivery alone never does (handleOrderOutcome, *)
(* isDuplicate, markProcessed).                                                *)
MailedOncePerProcess ==
    \A o \in Orders, kind \in OutcomeKinds :
        emails[o][kind] <= Outcomes(o, kind) * (Cardinality(Instances) + faults["crash"])

(* What makes these true from step to step: an outcome is in the partition of  *)
(* its key; every email was written by a process that still has the offset in  *)
(* its cache, or by one that died; and unless a write failed, what is in a     *)
(* cache, was delivered or was committed has its email.                        *)
OutcomesInPlace ==
    \A tp \in Subscription : \A n \in DOMAIN log[tp] :
        tp[2] = PartitionOf[log[tp][n].order] /\ log[tp][n].kind \in OutcomeKinds

Mailed(e) == emails[e.order][e.kind] > 0

(* who holds which of the outcome's offsets in its cache *)
Marked(o, kind) ==
    {mark \in Instances \X EventsOf(OutcomeTopic, o, kind) :
        <<<<OutcomeTopic, PartitionOf[o]>>, mark[2] - 1>> \in processed[mark[1]]}

EmailsMarked ==
    \A o \in Orders, kind \in OutcomeKinds :
        emails[o][kind] <= Cardinality(Marked(o, kind)) + Outcomes(o, kind) * faults["crash"]

ProcessedWasMailed ==
    \A i \in Instances : \A entry \in processed[i] :
        /\ entry[2] < Len(log[entry[1]])
        /\ faults["send"] = 0 => Mailed(log[entry[1]][entry[2] + 1])

DeliveredWasMailed ==
    faults["send"] = 0 /\ InitialCommitted = 0 =>
        \A tp \in Subscription :
            /\ group.committed[tp] # NoOffset
            /\ \A n \in DOMAIN log[tp] :
                  n <= group.position[tp] \/ n <= group.committed[tp] => Mailed(log[tp][n])

NotificationInvariant ==
    /\ TypeOK
    /\ MailedOncePerProcess
    /\ OutcomesInPlace
    /\ EmailsMarked
    /\ ProcessedWasMailed
    /\ DeliveredWasMailed

(* No committed outcome is without its email unless a write failed: not even   *)
(* when the process dies or the partition moves between the two.               *)
CommittedWasMailed ==
    faults["send"] = 0 =>
        \A tp \in Subscription : \A n \in 1..Len(log[tp]) :
            n <= group.committed[tp] => Mailed(log[tp][n])

(* Every outcome is mailed in the end, if every write succeeds.                *)
EveryOutcomeMailed ==
    \A o \in Orders, kind \in OutcomeKinds :
        Outcomes(o, kind) > 0 ~> (emails[o][kind] > 0 \/ faults["send"] > 0)
=============================================================================
