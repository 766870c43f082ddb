---------------------- MODULE NotificationService_proofs ----------------------
(* Theorems about NotificationService, for every set of orders, partitions and *)
(* instances, every number of outcomes and every bound on the faults.          *)
EXTENDS NotificationService, ConsumerGroup_proofs

USE TopicsAssumption, GroupAssumption, NotificationAssumption

LEMMA InvariantFacts ==
    ASSUME NotificationInvariant
    PROVE  /\ GroupOK(Subscription) /\ LogOK
           /\ DOMAIN log = Subscription
           /\ faults \in [FaultKinds -> Nat]
           /\ processed \in [Instances -> SUBSET (Subscription \X Nat)]
           /\ emails \in [Orders -> [OutcomeKinds -> Nat]]
           /\ OutcomesInPlace /\ EmailsMarked
           /\ ProcessedWasMailed /\ DeliveredWasMailed
  <1>1. log \in [Subscription -> Seq(Event)] /\ faults \in [FaultKinds -> Nat]
    BY DEF NotificationInvariant, TypeOK, TopicsType, Subscription
  <1>2. LogOK /\ DOMAIN log = Subscription
    BY <1>1 DEF LogOK
  <1>3. GroupOK(Subscription)
    BY <1>2 DEF NotificationInvariant, TypeOK, GroupOK
  <1> QED BY <1>1, <1>2, <1>3 DEF NotificationInvariant, TypeOK

LEMMA OutcomeKeyed ==
    ASSUME NotificationInvariant, NEW o \in Orders
    PROVE  Keyed(OutcomeTopic, o) \in DOMAIN log
  BY InvariantFacts DEF Keyed, Subscription

(* The marks of an outcome are finitely many: at most one for every instance   *)
(* and every time the outcome was sent.                                        *)
LEMMA MarksBounded ==
    ASSUME LogOK, faults \in [FaultKinds -> Nat], NEW o, NEW kind,
           Keyed(OutcomeTopic, o) \in DOMAIN log
    PROVE  /\ IsFiniteSet(Marked(o, kind)) /\ Cardinality(Marked(o, kind)) \in Nat
           /\ Outcomes(o, kind) \in Nat /\ Cardinality(Instances) \in Nat
           /\ Cardinality(Marked(o, kind)) <= Cardinality(Instances) * Outcomes(o, kind)
           /\ faults["crash"] \in Nat
           /\ IsFiniteSet(EventsOf(OutcomeTopic, o, kind))
  <1>1. /\ IsFiniteSet(EventsOf(OutcomeTopic, o, kind))
        /\ Cardinality(EventsOf(OutcomeTopic, o, kind)) \in Nat
    BY EventsFinite
  <1>2. Marked(o, kind) \subseteq Instances \X EventsOf(OutcomeTopic, o, kind)
    BY DEF Marked
  <1>3. /\ IsFiniteSet(Instances \X EventsOf(OutcomeTopic, o, kind))
        /\ Cardinality(Instances \X EventsOf(OutcomeTopic, o, kind))
             = Cardinality(Instances) * Cardinality(EventsOf(OutcomeTopic, o, kind))
    BY <1>1, FS_Product
  <1>4. /\ IsFiniteSet(Marked(o, kind))
        /\ Cardinality(Marked(o, kind)) <= Cardinality(Instances \X EventsOf(OutcomeTopic, o, kind))
    BY <1>2, <1>3, FS_Subset
  <1>5. Cardinality(Marked(o, kind)) \in Nat /\ Cardinality(Instances) \in Nat
    BY <1>4, FS_CardinalityType
  <1> QED BY <1>1, <1>3, <1>4, <1>5 DEF Outcomes, FaultKinds

(* One email per process follows from the marks.                               *)
Accounted ==
    /\ LogOK /\ faults \in [FaultKinds -> Nat] /\ emails \in [Orders -> [OutcomeKinds -> Nat]]
    /\ \A o \in Orders : Keyed(OutcomeTopic, o) \in DOMAIN log
    /\ EmailsMarked

LEMMA OncePerProcess == Accounted => MailedOncePerProcess
  <1> SUFFICES ASSUME Accounted PROVE MailedOncePerProcess
    OBVIOUS
  <1>1. ASSUME NEW o \in Orders, NEW kind \in OutcomeKinds
        PROVE  emails[o][kind] <= Outcomes(o, kind) * (Cardinality(Instances) + faults["crash"])
    <2>1. /\ Cardinality(Marked(o, kind)) \in Nat /\ Outcomes(o, kind) \in Nat
          /\ Cardinality(Instances) \in Nat /\ faults["crash"] \in Nat
          /\ Cardinality(Marked(o, kind)) <= Cardinality(Instances) * Outcomes(o, kind)
      BY MarksBounded DEF Accounted
    <2>2. emails[o][kind] <= Cardinality(Marked(o, kind)) + Outcomes(o, kind) * faults["crash"]
      BY DEF EmailsMarked, Accounted
    <2>3. \A x, y, z \in Nat : x * (y + z) = y * x + x * z /\ y * x \in Nat /\ x * z \in Nat
      OBVIOUS
    <2>4. emails[o][kind] \in Nat
      BY DEF Accounted
    <2> QED BY <2>1, <2>2, <2>3, <2>4
  <1> QED BY <1>1 DEF MailedOncePerProcess

LEMMA InvariantFrom ==
    ASSUME NotificationInvariant, LogGrows, GroupOK(Subscription)', faults' \in [FaultKinds -> Nat],
           processed' \in [Instances -> SUBSET (Subscription \X Nat)],
           emails' \in [Orders -> [OutcomeKinds -> Nat]],
           OutcomesInPlace', EmailsMarked', ProcessedWasMailed', DeliveredWasMailed'
    PROVE  NotificationInvariant'
  <1>1. log' \in [Subscription -> Seq(Event)] /\ LogOK' /\ DOMAIN log' = DOMAIN log
    BY GrownFacts, InvariantFacts DEF LogGrows
  <1>2. TypeOK'
    BY <1>1 DEF TypeOK, TopicsType, GroupOK, Subscription
  <1>3. (\A o \in Orders : Keyed(OutcomeTopic, o) \in DOMAIN log)'
    BY <1>1, OutcomeKeyed DEF Keyed
  <1>4. Accounted'
    BY <1>1, <1>3 DEF Accounted
  <1>5. MailedOncePerProcess'
    BY <1>4, OncePerProcess, PTL
  <1> QED BY <1>2, <1>5 DEF NotificationInvariant

-----------------------------------------------------------------------------
(* The account of emails and marks, step by step                               *)

Countable ==
    /\ LogOK /\ faults \in [FaultKinds -> Nat]
    /\ \A o \in Orders : Keyed(OutcomeTopic, o) \in DOMAIN log

AllCounted ==
    \A o \in Orders, kind \in OutcomeKinds :
        /\ IsFiniteSet(Marked(o, kind)) /\ Cardinality(Marked(o, kind)) \in Nat
        /\ Outcomes(o, kind) \in Nat /\ faults["crash"] \in Nat
        /\ IsFiniteSet(EventsOf(OutcomeTopic, o, kind))

LEMMA Counted == Countable => AllCounted
  BY MarksBounded DEF Countable, AllCounted

(* Before and after a step.                                                    *)
LEMMA CountedBoth ==
    ASSUME NotificationInvariant, LogGrows, faults' \in [FaultKinds -> Nat],
           NEW o \in Orders, NEW kind \in OutcomeKinds
    PROVE  /\ IsFiniteSet(Marked(o, kind)) /\ Cardinality(Marked(o, kind)) \in Nat
           /\ Outcomes(o, kind) \in Nat /\ faults["crash"] \in Nat
           /\ IsFiniteSet(EventsOf(OutcomeTopic, o, kind))
           /\ IsFiniteSet(Marked(o, kind)') /\ Cardinality(Marked(o, kind)') \in Nat
           /\ Outcomes(o, kind)' \in Nat /\ faults'["crash"] \in Nat
           /\ EventsOf(OutcomeTopic, o, kind) \subseteq EventsOf(OutcomeTopic, o, kind)'
           /\ Outcomes(o, kind) <= Outcomes(o, kind)'
  <1>0. Countable /\ LogOK' /\ DOMAIN log' = DOMAIN log
    BY InvariantFacts, OutcomeKeyed, GrownFacts DEF Countable
  <1>k. (\A p \in Orders : Keyed(OutcomeTopic, p) \in DOMAIN log)'
    BY <1>0, OutcomeKeyed DEF Keyed
  <1>1. Countable /\ Countable'
    BY <1>0, <1>k DEF Countable
  <1>2. AllCounted'
    BY <1>1, Counted, PTL
  <1>3. EventsOf(OutcomeTopic, o, kind) \subseteq EventsOf(OutcomeTopic, o, kind)'
    BY EventsStay, OutcomeKeyed, InvariantFacts
  <1>4. IsFiniteSet(EventsOf(OutcomeTopic, o, kind)')
    BY <1>2 DEF AllCounted
  <1>5. Outcomes(o, kind) <= Outcomes(o, kind)'
    BY <1>3, <1>4, FS_Subset DEF Outcomes
  <1> QED BY <1>1, <1>2, <1>3, <1>5, Counted DEF AllCounted

(* A process that forgets nothing keeps its marks.                             *)
LEMMA MarksGrow ==
    ASSUME NotificationInvariant, LogGrows, faults' \in [FaultKinds -> Nat],
           \A i \in Instances : processed[i] \subseteq processed'[i],
           NEW o \in Orders, NEW kind \in OutcomeKinds
    PROVE  /\ Marked(o, kind) \subseteq Marked(o, kind)'
           /\ Cardinality(Marked(o, kind)) <= Cardinality(Marked(o, kind)')
  <1>1. Marked(o, kind) \subseteq Marked(o, kind)'
    BY CountedBoth DEF Marked
  <1>2. IsFiniteSet(Marked(o, kind)')
    BY CountedBoth
  <1> QED BY <1>1, <1>2, FS_Subset

LEMMA ProductGrows ==
    ASSUME NEW x \in Nat, NEW y \in Nat, NEW z \in Nat, x <= y
    PROVE  x * z \in Nat /\ y * z \in Nat /\ x * z <= y * z /\ x * (z + 1) = x * z + x
  OBVIOUS

(* A step that writes no email and ends no process.                            *)
LEMMA NoEmail ==
    ASSUME NotificationInvariant, LogGrows, faults' \in [FaultKinds -> Nat],
           \A i \in Instances : processed[i] \subseteq processed'[i],
           emails' = emails, faults'["crash"] = faults["crash"]
    PROVE  EmailsMarked'
  <1>1. ASSUME NEW o \in Orders, NEW kind \in OutcomeKinds
        PROVE  emails'[o][kind] <= Cardinality(Marked(o, kind)') + Outcomes(o, kind)' * faults'["crash"]
    <2>1. /\ Cardinality(Marked(o, kind)) \in Nat /\ Cardinality(Marked(o, kind)') \in Nat
          /\ Cardinality(Marked(o, kind)) <= Cardinality(Marked(o, kind)')
          /\ Outcomes(o, kind) \in Nat /\ Outcomes(o, kind)' \in Nat /\ faults["crash"] \in Nat
          /\ Outcomes(o, kind) <= Outcomes(o, kind)'
      BY CountedBoth, MarksGrow
    <2>2. emails[o][kind] <= Cardinality(Marked(o, kind)) + Outcomes(o, kind) * faults["crash"]
      BY InvariantFacts DEF EmailsMarked
    <2>3. /\ Outcomes(o, kind) * faults["crash"] <= Outcomes(o, kind)' * faults["crash"]
          /\ Outcomes(o, kind) * faults["crash"] \in Nat /\ Outcomes(o, kind)' * faults["crash"] \in Nat
      BY <2>1, ProductGrows
    <2>4. emails[o][kind] \in Nat
      BY InvariantFacts
    <2> QED BY <2>1, <2>2, <2>3, <2>4
  <1> QED BY <1>1 DEF EmailsMarked

(* What was mailed stays mailed.                                               *)
LEMMA MailedKept ==
    ASSUME NotificationInvariant, LogGrows, faults["send"] = 0 \/ faults'["send"] > 0,
           \A o \in Orders, kind \in OutcomeKinds : emails'[o][kind] >= emails[o][kind],
           emails' \in [Orders -> [OutcomeKinds -> Nat]],
           \A i \in Instances : processed'[i] \subseteq processed[i]
    PROVE  ProcessedWasMailed'
  <1>1. ASSUME NEW i \in Instances, NEW entry \in processed'[i]
        PROVE  /\ entry[2] < Len(log'[entry[1]])
               /\ faults'["send"] = 0 => Mailed(log[entry[1]][entry[2] + 1])'
    <2>1. entry \in processed[i] /\ entry[1] \in Subscription /\ entry[2] \in Nat
          /\ entry[1] \in DOMAIN log
      BY <1>1, InvariantFacts
    <2>2. entry[2] < Len(log[entry[1]]) /\ (faults["send"] = 0 => Mailed(log[entry[1]][entry[2] + 1]))
      BY <2>1, InvariantFacts DEF ProcessedWasMailed
    <2>3. entry[2] + 1 \in DOMAIN log[entry[1]]
      BY <2>1, <2>2, LogFacts, InvariantFacts
    <2>4. /\ log'[entry[1]][entry[2] + 1] = log[entry[1]][entry[2] + 1]
          /\ log[entry[1]][entry[2] + 1] \in Event
          /\ log[entry[1]][entry[2] + 1].kind \in OutcomeKinds
      BY <2>1, <2>3, EventAt, InvariantFacts DEF OutcomesInPlace
    <2>5. Len(log[entry[1]]) \in Nat /\ Len(log'[entry[1]]) \in Nat
          /\ Len(log[entry[1]]) <= Len(log'[entry[1]])
      BY <2>1, LogFacts, GrownFacts, InvariantFacts DEF LogGrows
    <2>6. CASE faults'["send"] = 0
      <3>1. emails[log[entry[1]][entry[2] + 1].order][log[entry[1]][entry[2] + 1].kind] > 0
        BY <2>2, <2>6 DEF Mailed
      <3>2. log[entry[1]][entry[2] + 1].order \in Orders
        BY <2>4 DEF Event
      <3> QED BY <2>1, <2>2, <2>4, <2>5, <3>1, <3>2, InvariantFacts DEF Mailed
    <2> QED BY <2>1, <2>2, <2>5, <2>6
  <1> QED BY <1>1 DEF ProcessedWasMailed

(* What was delivered or committed before the step was mailed before it; what  *)
(* it delivers or commits beyond that must be mailed after it.                 *)
LEMMA DeliveredFrom ==
    ASSUME NotificationInvariant, LogGrows, faults'["send"] = 0 => faults["send"] = 0,
           \A o \in Orders, kind \in OutcomeKinds : emails'[o][kind] >= emails[o][kind],
           emails' \in [Orders -> [OutcomeKinds -> Nat]],
           faults["send"] = 0 /\ InitialCommitted = 0 =>
             \A tp \in Subscription :
               /\ group.committed[tp] # NoOffset => group'.committed[tp] # NoOffset
               /\ \A n \in DOMAIN log'[tp] :
                     n <= group'.position[tp] \/ n <= group'.committed[tp] =>
                       /\ n \in DOMAIN log[tp]
                       /\ \/ n <= group.position[tp] \/ n <= group.committed[tp]
                          \/ faults'["send"] > 0
                          \/ emails'[log[tp][n].order][log[tp][n].kind] > 0
    PROVE  DeliveredWasMailed'
  <1> SUFFICES ASSUME faults'["send"] = 0, InitialCommitted = 0, NEW tp \in Subscription
               PROVE  /\ group'.committed[tp] # NoOffset
                      /\ \A n \in DOMAIN log'[tp] :
                           n <= group'.position[tp] \/ n <= group'.committed[tp] =>
                             emails'[log'[tp][n].order][log'[tp][n].kind] > 0
    BY DEF DeliveredWasMailed, Mailed
  <1>1. group'.committed[tp] # NoOffset
    BY InvariantFacts DEF DeliveredWasMailed
  <1>2. ASSUME NEW n \in DOMAIN log'[tp],
               n <= group'.position[tp] \/ n <= group'.committed[tp]
        PROVE  emails'[log'[tp][n].order][log'[tp][n].kind] > 0
    <2>1. n \in DOMAIN log[tp] /\ tp \in DOMAIN log
      BY <1>2, InvariantFacts
    <2>2. /\ log'[tp][n] = log[tp][n] /\ log[tp][n] \in Event
          /\ log[tp][n].kind \in OutcomeKinds
      BY <2>1, EventAt, InvariantFacts DEF OutcomesInPlace
    <2>3. log[tp][n].order \in Orders
      BY <2>2 DEF Event
    <2>4. n <= group.position[tp] \/ n <= group.committed[tp] =>
             emails[log[tp][n].order][log[tp][n].kind] > 0
      BY <2>1, InvariantFacts DEF DeliveredWasMailed, Mailed
    <2>5. /\ emails'[log[tp][n].order][log[tp][n].kind] \in Nat
          /\ emails[log[tp][n].order][log[tp][n].kind] \in Nat
          /\ emails'[log[tp][n].order][log[tp][n].kind] >= emails[log[tp][n].order][log[tp][n].kind]
      BY <2>2, <2>3, InvariantFacts
    <2> QED BY <1>2, <2>1, <2>2, <2>4, <2>5
  <1> QED BY <1>1, <1>2

-----------------------------------------------------------------------------
(* Every step keeps the invariant                                              *)

LEMMA ArrivalKeepsInvariant ==
    ASSUME NotificationInvariant, NEW o \in Orders, NEW kind \in OutcomeKinds,
           OutcomeArrives(o, kind)
    PROVE  NotificationInvariant'
  <1> DEFINE tp0 == Keyed(OutcomeTopic, o)
             last == Len(log[tp0]) + 1
  <1>1. /\ Send(OutcomeTopic, o, kind) /\ UNCHANGED <<faults, group, inFlight, processed, emails>>
        /\ kind \in EventKinds
    BY DEF OutcomeArrives, OutcomeKinds, EventKinds
  <1>2. tp0 \in DOMAIN log /\ tp0 \in Subscription
    BY OutcomeKeyed, InvariantFacts
  <1>3. /\ LogGrows
        /\ \A tp \in DOMAIN log \ {tp0} : log'[tp] = log[tp]
        /\ DOMAIN log'[tp0] = DOMAIN log[tp0] \cup {last}
        /\ log'[tp0][last] = [order |-> o, kind |-> kind]
    BY <1>1, <1>2, SendAppends, InvariantFacts
  <1>4. tp0[2] = PartitionOf[o]
    BY DEF Keyed
  <1>h. HIDE DEF tp0, last
  <1>5. GroupOK(Subscription)'
    BY <1>1, <1>3, GroupKept, InvariantFacts
  <1>6. OutcomesInPlace'
    <2>1. ASSUME NEW tp \in Subscription, NEW n \in DOMAIN log'[tp]
          PROVE  tp[2] = PartitionOf[log'[tp][n].order] /\ log'[tp][n].kind \in OutcomeKinds
      <3>1. CASE n \in DOMAIN log[tp]
        <4>1. log'[tp][n] = log[tp][n]
          BY <1>3, <3>1, EventAt, InvariantFacts
        <4> QED BY <3>1, <4>1, InvariantFacts DEF OutcomesInPlace
      <3>2. CASE tp = tp0 /\ n = last
        BY <3>2, <1>3, <1>4
      <3>3. tp \in DOMAIN log
        BY InvariantFacts
      <3> QED BY <1>3, <2>1, <3>1, <3>2, <3>3
    <2> QED BY <2>1 DEF OutcomesInPlace
  <1>7. \A p \in Orders, k \in OutcomeKinds : emails'[p][k] >= emails[p][k]
    BY <1>1, InvariantFacts
  <1>8. EmailsMarked' /\ ProcessedWasMailed'
    <2>1. faults["send"] \in Nat
      BY InvariantFacts DEF FaultKinds
    <2> QED BY <1>1, <1>3, <1>7, <2>1, NoEmail, MailedKept, InvariantFacts
  <1>9. DeliveredWasMailed'
    <2>1. ASSUME NEW tp \in Subscription, NEW n \in DOMAIN log'[tp],
                 n <= group.position[tp] \/ n <= group.committed[tp]
          PROVE  n \in DOMAIN log[tp]
      <3>1. /\ group.position[tp] \in Nat /\ group.position[tp] <= Len(log[tp])
            /\ group.committed[tp] \in Int /\ group.committed[tp] <= Len(log[tp])
            /\ tp \in DOMAIN log
        BY InvariantFacts, GroupFacts
      <3>2. /\ DOMAIN log[tp] = 1..Len(log[tp]) /\ Len(log[tp]) \in Nat
            /\ DOMAIN log'[tp] = 1..Len(log'[tp]) /\ Len(log'[tp]) \in Nat
        BY <3>1, <1>3, LogFacts, GrownFacts, InvariantFacts
      <3> QED BY <2>1, <3>1, <3>2
    <2> QED BY <1>1, <1>3, <1>7, <2>1, DeliveredFrom, InvariantFacts
  <1> QED BY <1>1, <1>3, <1>5, <1>6, <1>8, <1>9, InvariantFrom, InvariantFacts

(* A step that leaves the topics and the emails alone, and forgets nothing.    *)
LEMMA QuietStep ==
    ASSUME NotificationInvariant, UNCHANGED <<log, processed, emails>>,
           faults' \in [FaultKinds -> Nat], faults'["crash"] = faults["crash"],
           faults["send"] = 0 \/ faults'["send"] > 0
    PROVE  LogGrows /\ OutcomesInPlace' /\ EmailsMarked' /\ ProcessedWasMailed'
  <1>1. LogGrows
    BY SameLogGrows, InvariantFacts
  <1>2. \A p \in Orders, k \in OutcomeKinds : emails'[p][k] >= emails[p][k]
    BY InvariantFacts
  <1>3. OutcomesInPlace'
    BY InvariantFacts DEF OutcomesInPlace
  <1> QED BY <1>1, <1>2, <1>3, NoEmail, MailedKept, InvariantFacts

LEMMA SkipKeepsInvariant ==
    ASSUME NotificationInvariant, NEW i \in Instances, NEW tp \in Subscription, SkipDuplicate(i, tp)
    PROVE  NotificationInvariant'
  <1>1. /\ Deliverable(i, tp) /\ FinishAtOnce(tp) /\ UNCHANGED <<log, faults, processed, emails>>
        /\ <<tp, group.position[tp]>> \in processed[i] /\ faults["send"] \in Nat
    BY InvariantFacts DEF SkipDuplicate, IsDuplicate, FaultKinds
  <1>2. LogGrows /\ OutcomesInPlace' /\ EmailsMarked' /\ ProcessedWasMailed'
    BY <1>1, QuietStep, InvariantFacts
  <1>3. /\ GroupOK(Subscription)'
        /\ group'.committed = group.committed
        /\ group'.position = [group.position EXCEPT ![tp] = @ + 1]
    BY <1>1, GroupFinishAtOnce, InvariantFacts
  <1>4. faults["send"] = 0 =>
          emails[log[tp][group.position[tp] + 1].order][log[tp][group.position[tp] + 1].kind] > 0
    BY <1>1, InvariantFacts DEF ProcessedWasMailed, Mailed
  <1>5. DeliveredWasMailed'
    <2>1. ASSUME NEW t \in Subscription, NEW n \in DOMAIN log[t],
                 n <= group'.position[t], ~(n <= group.position[t])
          PROVE  t = tp /\ n = group.position[tp] + 1
      <3>1. n \in Nat /\ group.position \in [Subscription -> Nat]
        BY LogFacts, InvariantFacts, GroupFacts DEF GroupRecord
      <3> QED BY <1>3, <2>1, <3>1
    <2>2. \A p \in Orders, k \in OutcomeKinds : emails'[p][k] >= emails[p][k]
      BY <1>1, InvariantFacts
    <2> QED BY <1>1, <1>2, <1>3, <1>4, <2>1, <2>2, DeliveredFrom, InvariantFacts
  <1> QED BY <1>1, <1>2, <1>3, <1>5, InvariantFrom, InvariantFacts

(* The offset is marked and resolved at once, with or without the email.       *)
Handled(i, tp) ==
    /\ UNCHANGED log /\ LogGrows /\ OutcomesInPlace' /\ GroupOK(Subscription)'
    /\ group'.committed = group.committed
    /\ group'.position = [group.position EXCEPT ![tp] = @ + 1]
    /\ group.position[tp] \in Nat
    /\ group.position[tp] + 1 \in DOMAIN log[tp] /\ group.position[tp] < Len(log[tp])
    /\ NextEvent(tp) = log[tp][group.position[tp] + 1]
    /\ NextEvent(tp).order \in Orders /\ NextEvent(tp).kind \in OutcomeKinds
    /\ NextEvent(tp) = [order |-> NextEvent(tp).order, kind |-> NextEvent(tp).kind]
    /\ tp = Keyed(OutcomeTopic, NextEvent(tp).order)
    /\ processed' \in [Instances -> SUBSET (Subscription \X Nat)]
    /\ <<tp, group.position[tp]>> \notin processed[i]
    /\ processed'[i] = processed[i] \cup {<<tp, group.position[tp]>>}
    /\ \A j \in Instances \ {i} : processed'[j] = processed[j]

LEMMA HandledFacts ==
    ASSUME NotificationInvariant, NEW i \in Instances, NEW tp \in Subscription,
           WriteEmail(i, tp) \/ WriteFails(i, tp)
    PROVE  Handled(i, tp)
  <1>1. /\ Deliverable(i, tp) /\ FinishAtOnce(tp) /\ UNCHANGED log
        /\ <<tp, group.position[tp]>> \notin processed[i]
        /\ processed' = [processed EXCEPT ![i] = @ \cup {<<tp, group.position[tp]>>}]
    BY DEF WriteEmail, WriteFails, IsDuplicate, MarkProcessed
  <1>2. LogGrows /\ OutcomesInPlace'
    BY <1>1, SameLogGrows, InvariantFacts DEF OutcomesInPlace
  <1>3. /\ GroupOK(Subscription)' /\ group'.committed = group.committed
        /\ group'.position = [group.position EXCEPT ![tp] = @ + 1]
    BY <1>1, GroupFinishAtOnce, InvariantFacts
  <1>4. /\ group.position[tp] + 1 \in DOMAIN log[tp] /\ group.position[tp] < Len(log[tp])
        /\ NextEvent(tp) = log[tp][group.position[tp] + 1] /\ NextEvent(tp) \in Event
        /\ group.position[tp] \in Nat
    BY <1>1, DeliveredEvent, InvariantFacts, GroupFacts DEF Deliverable
  <1>5. tp[2] = PartitionOf[NextEvent(tp).order] /\ NextEvent(tp).kind \in OutcomeKinds
    BY <1>4, InvariantFacts DEF OutcomesInPlace
  <1>6. tp = Keyed(OutcomeTopic, NextEvent(tp).order)
    BY <1>5 DEF Keyed, Subscription
  <1>7. NextEvent(tp).order \in Orders
        /\ NextEvent(tp) = [order |-> NextEvent(tp).order, kind |-> NextEvent(tp).kind]
    BY <1>4 DEF Event
  <1>8. processed' \in [Instances -> SUBSET (Subscription \X Nat)]
    <2>1. processed[i] \cup {<<tp, group.position[tp]>>} \in SUBSET (Subscription \X Nat)
      BY <1>4, InvariantFacts
    <2> QED BY <1>1, <2>1, InvariantFacts
  <1>9. /\ processed'[i] = processed[i] \cup {<<tp, group.position[tp]>>}
        /\ \A j \in Instances \ {i} : processed'[j] = processed[j]
    BY <1>1, InvariantFacts
  <1> QED BY <1>1, <1>2, <1>3, <1>4, <1>5, <1>6, <1>7, <1>8, <1>9 DEF Handled

(* ... and either the email is there, or a failed write is counted.            *)
LEMMA HandledKeepsInvariant ==
    ASSUME NotificationInvariant, NEW i \in Instances, NEW tp \in Subscription,
           WriteEmail(i, tp) \/ WriteFails(i, tp),
           faults' \in [FaultKinds -> Nat], faults["send"] = 0 \/ faults'["send"] > 0,
           emails' \in [Orders -> [OutcomeKinds -> Nat]],
           \A o \in Orders, kind \in OutcomeKinds : emails'[o][kind] >= emails[o][kind],
           faults'["send"] = 0 => emails'[NextEvent(tp).order][NextEvent(tp).kind] > 0,
           EmailsMarked'
    PROVE  NotificationInvariant'
  <1>0. Handled(i, tp)
    BY HandledFacts
  <1>1. ProcessedWasMailed'
    <2>1. ASSUME NEW j \in Instances, NEW entry \in processed'[j]
          PROVE  /\ entry[2] < Len(log'[entry[1]])
                 /\ faults'["send"] = 0 => Mailed(log[entry[1]][entry[2] + 1])'
      <3>1. CASE entry \in processed[j]
        <4>1. /\ entry[1] \in DOMAIN log /\ entry[2] \in Nat /\ entry[1] \in Subscription
              /\ entry[2] < Len(log[entry[1]])
              /\ faults["send"] = 0 =>
                   emails[log[entry[1]][entry[2] + 1].order][log[entry[1]][entry[2] + 1].kind] > 0
          BY <3>1, InvariantFacts DEF ProcessedWasMailed, Mailed
        <4>2. entry[2] + 1 \in DOMAIN log[entry[1]]
          BY <4>1, LogFacts, InvariantFacts
        <4>3. /\ log[entry[1]][entry[2] + 1].order \in Orders
              /\ log[entry[1]][entry[2] + 1].kind \in OutcomeKinds
              /\ log' = log
          BY <4>1, <4>2, LogFacts, <1>0, InvariantFacts DEF OutcomesInPlace, Event, Handled
        <4>4. faults["send"] \in Nat /\ faults'["send"] \in Nat
          BY InvariantFacts DEF FaultKinds
        <4> QED BY <4>1, <4>3, <4>4, InvariantFacts DEF Mailed
      <3>2. CASE entry = <<tp, group.position[tp]>>
        BY <3>2, <1>0 DEF Mailed, Handled
      <3> QED BY <2>1, <3>1, <3>2, <1>0 DEF Handled
    <2> QED BY <2>1 DEF ProcessedWasMailed
  <1>2. DeliveredWasMailed'
    <2>1. ASSUME NEW t \in Subscription, NEW n \in DOMAIN log[t],
                 n <= group'.position[t], ~(n <= group.position[t])
          PROVE  t = tp /\ n = group.position[tp] + 1
      <3>1. n \in Nat /\ group.position \in [Subscription -> Nat]
        BY LogFacts, InvariantFacts, GroupFacts DEF GroupRecord
      <3> QED BY <2>1, <3>1, <1>0 DEF Handled
    <2>2. faults["send"] \in Nat /\ faults'["send"] \in Nat
      BY InvariantFacts DEF FaultKinds
    <2>3. ASSUME NEW t \in Subscription, NEW n \in DOMAIN log'[t],
                 n <= group'.position[t] \/ n <= group'.committed[t]
          PROVE  /\ n \in DOMAIN log[t]
                 /\ \/ n <= group.position[t] \/ n <= group.committed[t]
                    \/ faults'["send"] > 0
                    \/ emails'[log[t][n].order][log[t][n].kind] > 0
      <3>1. n \in DOMAIN log[t] /\ group'.committed = group.committed
        BY <2>3, <1>0 DEF Handled
      <3>2. CASE n <= group'.position[t] /\ ~(n <= group.position[t])
        BY <2>1, <2>2, <3>1, <3>2, <1>0 DEF Handled
      <3> QED BY <2>3, <3>1, <3>2
    <2> QED BY <2>2, <2>3, DeliveredFrom, <1>0 DEF Handled
  <1> QED BY <1>1, <1>2, <1>0, InvariantFrom DEF Handled

LEMMA EmailKeepsInvariant ==
    ASSUME NotificationInvariant, NEW i \in Instances, NEW tp \in Subscription, WriteEmail(i, tp)
    PROVE  NotificationInvariant'
  <1>0. Handled(i, tp)
    BY HandledFacts
  <1>p. PICK o \in Orders, kind \in OutcomeKinds, n \in Nat :
          o = NextEvent(tp).order /\ kind = NextEvent(tp).kind /\ n = group.position[tp]
    BY <1>0 DEF Handled
  <1> DEFINE mark == <<i, n + 1>>
  <1>1. /\ emails' = [emails EXCEPT ![o][kind] = @ + 1]
        /\ faults' = faults
    BY <1>p DEF WriteEmail
  <1>2. /\ UNCHANGED log /\ LogGrows /\ faults["send"] \in Nat
    BY <1>0, InvariantFacts DEF FaultKinds, Handled
  <1>3. \A j \in Instances : processed[j] \subseteq processed'[j]
    BY <1>0 DEF Handled
  <1>4. mark \in Marked(o, kind)' /\ mark \notin Marked(o, kind)
    <2>1. /\ tp = <<OutcomeTopic, PartitionOf[o]>>
          /\ n + 1 \in DOMAIN log[tp] /\ log[tp][n + 1] = [order |-> o, kind |-> kind]
          /\ <<tp, n>> \in processed'[i] /\ <<tp, n>> \notin processed[i]
      BY <1>0, <1>p DEF Keyed, Handled
    <2>2. n + 1 \in EventsOf(OutcomeTopic, o, kind)'
      BY <1>2, <2>1 DEF EventsOf
    <2>3. (n + 1) - 1 = n
      OBVIOUS
    <2> QED BY <2>1, <2>2, <2>3 DEF Marked
  <1>h. HIDE DEF mark
  <1>5. /\ emails' \in [Orders -> [OutcomeKinds -> Nat]]
        /\ \A p \in Orders, k \in OutcomeKinds :
             emails'[p][k] = IF p = o /\ k = kind THEN emails[p][k] + 1 ELSE emails[p][k]
    BY <1>1, <1>2, InvariantFacts
  <1>6. EmailsMarked'
    <2>1. ASSUME NEW p \in Orders, NEW k \in OutcomeKinds
          PROVE  emails'[p][k] <= Cardinality(Marked(p, k)') + Outcomes(p, k)' * faults'["crash"]
      <3>1. /\ IsFiniteSet(Marked(p, k)) /\ Cardinality(Marked(p, k)) \in Nat
            /\ IsFiniteSet(Marked(p, k)') /\ Cardinality(Marked(p, k)') \in Nat
            /\ Marked(p, k) \subseteq Marked(p, k)'
            /\ Cardinality(Marked(p, k)) <= Cardinality(Marked(p, k)')
            /\ Outcomes(p, k) \in Nat /\ faults["crash"] \in Nat
        BY <1>1, <1>2, <1>3, CountedBoth, MarksGrow, InvariantFacts
      <3>2. /\ emails[p][k] <= Cardinality(Marked(p, k)) + Outcomes(p, k) * faults["crash"]
            /\ Outcomes(p, k)' = Outcomes(p, k) /\ emails[p][k] \in Nat
        BY <1>2, InvariantFacts DEF EmailsMarked, Outcomes, EventsOf
      <3>3. Outcomes(p, k) * faults["crash"] \in Nat
        BY <3>1, ProductGrows
      <3>4. CASE p = o /\ k = kind
        <4>1. Marked(p, k) \cup {mark} \subseteq Marked(p, k)'
          BY <1>4, <3>1, <3>4
        <4>2. Cardinality(Marked(p, k) \cup {mark}) = Cardinality(Marked(p, k)) + 1
          BY <1>4, <3>1, <3>4, FS_AddElement
        <4>3. Cardinality(Marked(p, k) \cup {mark}) <= Cardinality(Marked(p, k)')
          BY <3>1, <4>1, FS_Subset
        <4> QED BY <1>1, <1>5, <3>1, <3>2, <3>3, <3>4, <4>2, <4>3
      <3>5. CASE ~(p = o /\ k = kind)
        BY <1>1, <1>5, <3>1, <3>2, <3>3, <3>5
      <3> QED BY <3>4, <3>5
    <2> QED BY <2>1 DEF EmailsMarked
  <1>7. /\ \A p \in Orders, k \in OutcomeKinds : emails'[p][k] >= emails[p][k]
        /\ emails'[o][kind] > 0
    <2>1. \A p \in Orders, k \in OutcomeKinds : emails[p][k] \in Nat
      BY InvariantFacts
    <2> QED BY <1>2, <1>5, <2>1
  <1>8. emails'[NextEvent(tp).order][NextEvent(tp).kind] > 0
    BY <1>7, <1>p
  <1>9. faults["send"] = 0 \/ faults'["send"] > 0
    BY <1>1, <1>2
  <1> QED BY <1>1, <1>5, <1>6, <1>7, <1>8, <1>9, HandledKeepsInvariant, InvariantFacts

LEMMA FailedWriteKeepsInvariant ==
    ASSUME NotificationInvariant, NEW i \in Instances, NEW tp \in Subscription, WriteFails(i, tp)
    PROVE  NotificationInvariant'
  <1>0. Handled(i, tp)
    BY HandledFacts
  <1>1. Fault("send") /\ emails' = emails
    BY DEF WriteFails
  <1>2. /\ faults' \in [FaultKinds -> Nat] /\ faults'["send"] = faults["send"] + 1
        /\ faults'["crash"] = faults["crash"] /\ faults["send"] \in Nat
    BY <1>1, FaultCounted, InvariantFacts DEF FaultKinds
  <1>3. \A p \in Orders, k \in OutcomeKinds : emails'[p][k] >= emails[p][k]
    BY <1>1, InvariantFacts
  <1>4. (\A j \in Instances : processed[j] \subseteq processed'[j]) /\ LogGrows
    BY <1>0 DEF Handled
  <1>5. EmailsMarked'
    BY <1>1, <1>2, <1>4, NoEmail
  <1> QED BY <1>1, <1>2, <1>3, <1>5, HandledKeepsInvariant, InvariantFacts

LEMMA CommitKeepsInvariant ==
    ASSUME NotificationInvariant, NEW i \in Instances, Commit(i)
    PROVE  NotificationInvariant'
  <1>1. AutoCommit(i) /\ UNCHANGED <<processed, emails>>
    BY DEF Commit
  <1>2. /\ GroupOK(Subscription)' /\ UNCHANGED <<log, faults, inFlight>>
        /\ group'.position = group.position
        /\ \A tp \in Subscription :
              group'.committed[tp] \in {group.committed[tp], group.position[tp]}
    BY <1>1, GroupAutoCommit, InvariantFacts
  <1>3. LogGrows /\ OutcomesInPlace' /\ EmailsMarked' /\ ProcessedWasMailed'
    <2>1. faults["send"] \in Nat
      BY InvariantFacts DEF FaultKinds
    <2> QED BY <1>1, <1>2, <2>1, QuietStep, InvariantFacts
  <1>4. DeliveredWasMailed'
    <2>1. \A tp \in Subscription : group.position[tp] \in Nat
      BY InvariantFacts, GroupFacts
    <2>2. \A p \in Orders, k \in OutcomeKinds : emails'[p][k] >= emails[p][k]
      BY <1>1, InvariantFacts
    <2> QED BY <1>1, <1>2, <1>3, <2>1, <2>2, DeliveredFrom, InvariantFacts DEF NoOffset
  <1> QED BY <1>1, <1>2, <1>3, <1>4, InvariantFrom, InvariantFacts

(* The members rejoin: nothing is delivered that was not committed before.     *)
LEMMA RejoinKeepsInvariant ==
    ASSUME NotificationInvariant, NEW kind \in {"rebalance", "crash"}, Fault(kind),
           NEW survivors, Rejoin(survivors, group.committed), emails' = emails,
           processed' \in [Instances -> SUBSET (Subscription \X Nat)],
           \A i \in Instances : processed'[i] \subseteq processed[i],
           EmailsMarked'
    PROVE  NotificationInvariant'
  <1>0. kind \in FaultKinds /\ "send" \in FaultKinds \ {kind}
    BY DEF FaultKinds
  <1>1. /\ GroupOK(Subscription)' /\ UNCHANGED log
        /\ faults' \in [FaultKinds -> Nat] /\ faults'["send"] = faults["send"]
        /\ \A tp \in Subscription : group.committed[tp] # NoOffset =>
             /\ group'.committed[tp] # NoOffset
             /\ group'.committed[tp] <= group.committed[tp]
             /\ group'.position[tp] <= group.committed[tp]
    BY <1>0, GroupRejoins, InvariantFacts
  <1>2. /\ LogGrows /\ OutcomesInPlace' /\ faults["send"] \in Nat
        /\ \A p \in Orders, k \in OutcomeKinds : emails'[p][k] >= emails[p][k]
    BY <1>1, SameLogGrows, InvariantFacts DEF OutcomesInPlace, FaultKinds
  <1>3. ProcessedWasMailed'
    BY <1>1, <1>2, MailedKept, InvariantFacts
  <1>4. DeliveredWasMailed'
    <2>1. ASSUME faults["send"] = 0, InitialCommitted = 0, NEW tp \in Subscription
          PROVE  /\ group'.committed[tp] # NoOffset
                 /\ \A n \in DOMAIN log'[tp] :
                      n <= group'.position[tp] \/ n <= group'.committed[tp] =>
                        n \in DOMAIN log[tp] /\ n <= group.committed[tp]
      <3>1. group.committed[tp] # NoOffset
        BY <2>1, InvariantFacts DEF DeliveredWasMailed
      <3>2. /\ group'.position[tp] \in Nat /\ group'.committed[tp] \in Int
            /\ group.committed[tp] \in Int
        BY <1>1, GroupFacts, InvariantFacts DEF GroupOK, GroupType, NoOffset
      <3>3. \A n \in DOMAIN log[tp] : n \in Nat
        BY LogFacts, InvariantFacts, GroupFacts
      <3> QED BY <1>1, <3>1, <3>2, <3>3
    <2> QED BY <1>1, <1>2, <2>1, DeliveredFrom, InvariantFacts
  <1> QED BY <1>1, <1>2, <1>3, <1>4, InvariantFrom, InvariantFacts

(* A crash forgets at most one mark for every time the outcome was sent.       *)
LEMMA CrashKeepsAccount ==
    ASSUME NotificationInvariant, NEW i \in Instances, UNCHANGED <<log, emails>>,
           faults' \in [FaultKinds -> Nat], faults'["crash"] = faults["crash"] + 1,
           processed' = [processed EXCEPT ![i] = {}]
    PROVE  EmailsMarked'
  <1>0. LogGrows
    BY SameLogGrows, InvariantFacts
  <1>1. ASSUME NEW o \in Orders, NEW k \in OutcomeKinds
        PROVE  emails'[o][k] <= Cardinality(Marked(o, k)') + Outcomes(o, k)' * faults'["crash"]
    <2> DEFINE events == EventsOf(OutcomeTopic, o, k)
               before == Marked(o, k)
               after == Marked(o, k)'
               lost == {i} \X events
    <2>1. /\ IsFiniteSet(before) /\ Cardinality(before) \in Nat
          /\ IsFiniteSet(after) /\ Cardinality(after) \in Nat
          /\ Outcomes(o, k) \in Nat /\ faults["crash"] \in Nat /\ IsFiniteSet(events)
      BY <1>0, CountedBoth
    <2>2. events' = events
      BY DEF EventsOf
    <2>3. before \subseteq after \cup lost
      <3>1. ASSUME NEW mark \in before, mark[1] # i
            PROVE  mark \in after
        <4>1. processed'[mark[1]] = processed[mark[1]]
          BY <3>1, InvariantFacts DEF Marked
        <4> QED BY <3>1, <4>1, <2>2 DEF Marked
      <3>2. ASSUME NEW mark \in before, mark[1] = i
            PROVE  mark \in lost
        BY <3>2 DEF Marked
      <3> QED BY <3>1, <3>2
    <2>4. IsFiniteSet(lost) /\ Cardinality(lost) = Outcomes(o, k)
      <3>1. IsFiniteSet({i}) /\ Cardinality({i}) = 1
        BY FS_Singleton
      <3>2. IsFiniteSet(lost) /\ Cardinality(lost) = 1 * Cardinality(events)
        BY <2>1, <3>1, FS_Product
      <3>3. Cardinality(events) \in Nat
        BY <2>1, FS_CardinalityType
      <3> QED BY <3>2, <3>3 DEF Outcomes
    <2>h. HIDE DEF events, before, after, lost
    <2>5. IsFiniteSet(after \cup lost) /\ Cardinality(after \cup lost) <= Cardinality(after) + Cardinality(lost)
      <3>1. /\ IsFiniteSet(after \cup lost)
            /\ Cardinality(after \cup lost) =
                 Cardinality(after) + Cardinality(lost) - Cardinality(after \cap lost)
        BY <2>1, <2>4, FS_Union
      <3>2. Cardinality(after \cap lost) \in Nat
        BY <2>1, FS_Intersection, FS_CardinalityType
      <3> QED BY <2>1, <2>4, <3>1, <3>2
    <2>6. Cardinality(before) <= Cardinality(after \cup lost) /\ Cardinality(after \cup lost) \in Nat
      BY <2>3, <2>5, FS_Subset, FS_CardinalityType
    <2>7. Cardinality(before) <= Cardinality(after) + Outcomes(o, k)
      BY <2>1, <2>4, <2>5, <2>6
    <2>8. emails[o][k] <= Cardinality(before) + Outcomes(o, k) * faults["crash"] /\ emails[o][k] \in Nat
      BY InvariantFacts DEF EmailsMarked, before
    <2>9. /\ Outcomes(o, k) * faults["crash"] \in Nat
          /\ Outcomes(o, k) * (faults["crash"] + 1) = Outcomes(o, k) * faults["crash"] + Outcomes(o, k)
      BY <2>1, ProductGrows
    <2>10. Outcomes(o, k)' = Outcomes(o, k)
      BY DEF Outcomes, EventsOf
    <2>11. emails[o][k] <= Cardinality(after) + Outcomes(o, k) * (faults["crash"] + 1)
      BY <2>1, <2>7, <2>8, <2>9
    <2> QED BY <2>10, <2>11 DEF after
  <1> QED BY <1>1 DEF EmailsMarked

LEMMA NotificationInit ==
    ASSUME Init
    PROVE  NotificationInvariant
  <1> DEFINE topics == {OutcomeTopic}
  <1>0. Subscription = topics \X Partitions /\ TopicsInit(topics) /\ GroupInit(Subscription)
    BY DEF Init, Subscription
  <1>h. HIDE DEF topics
  <1>s. /\ GroupOK(Subscription) /\ faults \in [FaultKinds -> Nat]
        /\ DOMAIN log = topics \X Partitions
        /\ \A tp \in DOMAIN log : DOMAIN log[tp] = {} /\ Len(log[tp]) = 0
        /\ \A tp \in Subscription : group.committed[tp] = InitialCommitted
    BY <1>0, GroupStarts
  <1>1. /\ GroupOK(Subscription) /\ faults \in [FaultKinds -> Nat]
        /\ DOMAIN log = Subscription
        /\ \A tp \in DOMAIN log : DOMAIN log[tp] = {} /\ Len(log[tp]) = 0
        /\ \A tp \in Subscription : group.committed[tp] = InitialCommitted
    BY <1>0, <1>s
  <1>2. emails \in [Orders -> [OutcomeKinds -> Nat]]
        /\ \A o \in Orders, kind \in OutcomeKinds : emails[o][kind] = 0
    BY DEF Init
  <1>3. TypeOK /\ LogOK
    BY <1>1, <1>2 DEF TypeOK, TopicsType, GroupOK, LogOK, Init, Subscription
  <1>4. OutcomesInPlace /\ ProcessedWasMailed /\ DeliveredWasMailed
    BY <1>1 DEF OutcomesInPlace, ProcessedWasMailed, DeliveredWasMailed, NoOffset, Init
  <1>5. \A o \in Orders : Keyed(OutcomeTopic, o) \in DOMAIN log
    BY <1>1 DEF Keyed, Subscription
  <1>6. EmailsMarked
    <2>1. ASSUME NEW o \in Orders, NEW kind \in OutcomeKinds
          PROVE  emails[o][kind] <= Cardinality(Marked(o, kind)) + Outcomes(o, kind) * faults["crash"]
      <3>1. /\ Cardinality(Marked(o, kind)) \in Nat /\ Outcomes(o, kind) \in Nat
            /\ faults["crash"] \in Nat
        BY <1>1, <1>3, <1>5, MarksBounded
      <3>2. Outcomes(o, kind) * faults["crash"] \in Nat
        BY <3>1
      <3> QED BY <1>2, <3>1, <3>2
    <2> QED BY <2>1 DEF EmailsMarked
  <1>7. MailedOncePerProcess
    BY <1>1, <1>2, <1>3, <1>5, <1>6, OncePerProcess DEF Accounted
  <1> QED BY <1>3, <1>4, <1>6, <1>7 DEF NotificationInvariant

LEMMA NotificationNext ==
    ASSUME NotificationInvariant, [Next]_vars
    PROVE  NotificationInvariant'
  <1>1. ASSUME NEW o \in Orders, NEW kind \in OutcomeKinds, OutcomeArrives(o, kind)
        PROVE  NotificationInvariant'
    BY <1>1, ArrivalKeepsInvariant
  <1>2. ASSUME NEW i \in Instances, NEW tp \in Subscription, Handle(i, tp)
        PROVE  NotificationInvariant'
    BY <1>2, SkipKeepsInvariant, EmailKeepsInvariant, FailedWriteKeepsInvariant DEF Handle
  <1>3. ASSUME NEW i \in Instances, Commit(i)
        PROVE  NotificationInvariant'
    BY <1>3, CommitKeepsInvariant
  <1>4. ASSUME NEW i \in Instances, Crash(i)
        PROVE  NotificationInvariant'
    <2>1. /\ Fault("crash") /\ Rejoin(Instances \ {i}, group.committed) /\ emails' = emails
          /\ processed' = [processed EXCEPT ![i] = {}] /\ UNCHANGED log
      BY <1>4 DEF Crash, CrashAndRejoin, Rejoin
    <2>2. /\ processed' \in [Instances -> SUBSET (Subscription \X Nat)]
          /\ \A j \in Instances : processed'[j] \subseteq processed[j]
      BY <2>1, InvariantFacts
    <2>3. faults' \in [FaultKinds -> Nat] /\ faults'["crash"] = faults["crash"] + 1
      BY <2>1, FaultCounted, InvariantFacts DEF FaultKinds
    <2>4. EmailsMarked'
      BY <2>1, <2>3, CrashKeepsAccount
    <2> QED BY <2>1, <2>2, <2>4, RejoinKeepsInvariant
  <1>5. CASE GroupRebalances
    <2>1. /\ Fault("rebalance") /\ Rejoin(Instances, group.committed)
          /\ processed' = processed /\ emails' = emails /\ UNCHANGED log
      BY <1>5 DEF GroupRebalances, Rebalance, Rejoin
    <2>2. /\ faults' \in [FaultKinds -> Nat] /\ faults'["crash"] = faults["crash"]
          /\ faults'["send"] = faults["send"] /\ faults["send"] \in Nat
      BY <2>1, FaultCounted, InvariantFacts DEF FaultKinds
    <2>3. EmailsMarked'
      BY <2>1, <2>2, QuietStep
    <2> QED BY <2>1, <2>3, RejoinKeepsInvariant, InvariantFacts
  <1>6. CASE UNCHANGED vars
    <2>1. UNCHANGED <<log, faults, group, inFlight, processed, emails>> /\ faults["send"] \in Nat
      BY <1>6, InvariantFacts DEF vars, FaultKinds
    <2>2. LogGrows /\ OutcomesInPlace' /\ EmailsMarked' /\ ProcessedWasMailed'
      BY <2>1, QuietStep, InvariantFacts
    <2>3. GroupOK(Subscription)'
      BY <2>1, <2>2, GroupKept, InvariantFacts
    <2>4. DeliveredWasMailed'
      BY <2>1, InvariantFacts DEF DeliveredWasMailed, Mailed
    <2> QED BY <2>1, <2>2, <2>3, <2>4, InvariantFrom, InvariantFacts
  <1> QED BY <1>1, <1>2, <1>3, <1>4, <1>5, <1>6 DEF Next

(* Through redeliveries, rebalances and crashes a process mails an outcome     *)
(* once: the emails of an outcome are at most one per process, living or dead, *)
(* and time it was sent (handleOrderOutcome, isDuplicate, markProcessed).      *)
THEOREM InvariantHolds == Spec => []NotificationInvariant
  <1>1. Init => NotificationInvariant
    BY NotificationInit
  <1>2. NotificationInvariant /\ [Next]_vars => NotificationInvariant'
    BY NotificationNext
  <1> QED BY <1>1, <1>2, PTL DEF Spec

(* A group that has committed before drops no outcome: an offset is committed  *)
(* only when its email was written, unless a write failed.                     *)
THEOREM NoOutcomeLost ==
    ASSUME InitialCommitted = 0
    PROVE  Spec => []CommittedWasMailed
  <1>1. NotificationInvariant => CommittedWasMailed
    <2>1. ASSUME NotificationInvariant, faults["send"] = 0, NEW tp \in Subscription,
                 NEW n \in 1..Len(log[tp]), n <= group.committed[tp]
          PROVE  Mailed(log[tp][n])
      <3>1. n \in DOMAIN log[tp]
        BY <2>1, LogFacts, InvariantFacts
      <3> QED BY <2>1, <3>1, InvariantFacts DEF DeliveredWasMailed
    <2> QED BY <2>1 DEF CommittedWasMailed
  <1> QED BY <1>1, InvariantHolds, PTL
=============================================================================
