---------------------------- MODULE ConsumerGroup ----------------------------
(* KafkaConsumer.subscribe over kafkajs: the instances of one service share a  *)
(* consumer group. kafkajs hands an instance one message at a time, resolves   *)
(* its offset when the handler returns, and commits resolved offsets every few *)
(* seconds. Every service handler swallows its own errors, so kafkajs sees     *)
(* each handler succeed. What the broker and kafkajs do is external.           *)
EXTENDS Topics

CONSTANTS
    Instances,          \* the running instances of the service
    InitialCommitted    \* NoOffset for a group that never committed, else 0

NoOffset == -1

ASSUME GroupAssumption ==
    /\ Instances # {} /\ IsFiniteSet(Instances)
    /\ InitialCommitted \in {NoOffset, 0}

VARIABLES
    group,      \* per topic partition: owner, next position to deliver,
                \* committed offset, and whether a resolved one is uncommitted
    inFlight    \* messages whose handler awaits; not live: partition revoked

Message(tps) == [instance : Instances, tp : tps, offset : Nat, live : BOOLEAN]

GroupType(tps) ==
    /\ group \in [owner : [tps -> Instances],
                  position : [tps -> Nat],
                  committed : [tps -> Nat \cup {NoOffset}],
                  dirty : [tps -> BOOLEAN]]
    /\ inFlight \subseteq Message(tps)

(* A position never passes the end of its partition. An instance handles one   *)
(* message at a time; while it keeps the partition, the message is the one at  *)
(* the partition's position, so no two handlers work on a live partition.      *)
GroupBounds ==
    /\ \A tp \in DOMAIN group.position :
          /\ group.position[tp] <= Len(log[tp])
          /\ group.committed[tp] <= Len(log[tp])
    /\ \A m \in inFlight :
          /\ m.offset < Len(log[m.tp])
          /\ m.live => group.owner[m.tp] = m.instance /\ group.position[m.tp] = m.offset
    /\ \A m, n \in inFlight : m.instance = n.instance => m = n

GroupInit(tps) ==
    /\ \E owner \in [tps -> Instances] :
          group = [owner |-> owner,
                   position |-> [tp \in tps |-> 0],
                   committed |-> [tp \in tps |-> InitialCommitted],
                   dirty |-> [tp \in tps |-> FALSE]]
    /\ inFlight = {}

Idle(i) == \A m \in inFlight : m.instance # i

(* eachMessage runs one handler at a time, on the partitions the instance owns *)
Deliverable(i, tp) ==
    /\ Idle(i)
    /\ group.owner[tp] = i
    /\ group.position[tp] < Len(log[tp])

NextEvent(tp) == log[tp][group.position[tp] + 1]

EventOf(m) == log[m.tp][m.offset + 1]

Resolved(tp) ==
    [group EXCEPT !.position[tp] = @ + 1, !.dirty[tp] = TRUE]

(* the handler returns without having awaited anything *)
FinishAtOnce(tp) ==
    /\ group' = Resolved(tp)
    /\ UNCHANGED inFlight

(* the handler awaits; the message stays in flight *)
BeginHandling(i, tp) ==
    /\ inFlight' = inFlight \cup
          {[instance |-> i, tp |-> tp, offset |-> group.position[tp], live |-> TRUE]}
    /\ UNCHANGED group

(* A variant with a bug: a message of a revoked partition is resolved as well. *)
FinishRevoked(m) ==
    /\ inFlight' = inFlight \ {m}
    /\ group' = Resolved(m.tp)

(* the handler returns; the offset of a revoked partition is not resolved *)
FinishHandling(m) ==
    /\ inFlight' = inFlight \ {m}
    /\ group' = IF m.live THEN Resolved(m.tp) ELSE group

AutoCommit(i) ==
    LET mine == {tp \in DOMAIN group.owner : group.owner[tp] = i /\ group.dirty[tp]}
    IN  /\ mine # {}
        /\ group' = [group EXCEPT
              !.committed = [tp \in DOMAIN @ |->
                    IF tp \in mine THEN group.position[tp] ELSE @[tp]],
              !.dirty = [tp \in DOMAIN @ |-> @[tp] /\ tp \notin mine]]
        /\ UNCHANGED <<log, faults, inFlight>>

(* fromBeginning: false - a partition without a committed offset restarts at   *)
(* the end of the log, any other one at the committed offset                   *)
Restart(committed, tp) ==
    IF committed[tp] = NoOffset THEN Len(log[tp]) ELSE committed[tp]

(* The members rejoin under any assignment, at the committed offsets; what     *)
(* survivors have in flight runs on, but its partition is no longer theirs.    *)
Rejoin(survivors, committed) ==
    /\ \E owner \in [DOMAIN group.owner -> Instances] :
          group' = [owner |-> owner,
                    position |-> [tp \in DOMAIN owner |-> Restart(committed, tp)],
                    committed |-> committed,
                    dirty |-> [tp \in DOMAIN owner |-> FALSE]]
    /\ inFlight' = {[m EXCEPT !.live = FALSE] :
                        m \in {n \in inFlight : n.instance \in survivors}}
    /\ UNCHANGED log

Rebalance == Fault("rebalance") /\ Rejoin(Instances, group.committed)

(* The process of instance i dies and is restarted; the service module says    *)
(* which of its memory is lost.                                                *)
CrashAndRejoin(i) == Fault("crash") /\ Rejoin(Instances \ {i}, group.committed)

(* replay-orders.ts names four topics but asks for the first one only *)
ResetToEarliest(committed) ==
    [tp \in DOMAIN committed |-> IF tp[1] = "orders.v1" THEN 0 ELSE committed[tp]]

(* An operator resets the offsets of orders.v1. Kafka refuses that for a group *)
(* that has members, so the service is stopped, reset and started again, and   *)
(* every process of it lost its memory. replay-orders.ts asks for this reset   *)
(* but never comes to it: it throws while it lists the groups. So no property  *)
(* may rest on a reset happening; the safety properties hold in spite of one.  *)
Replay == Fault("replay") /\ Rejoin({}, ResetToEarliest(group.committed))
=============================================================================
