---------------------------- MODULE OrderOutcome ----------------------------
(* What order-saga promises of an order, without topics, offsets or consumer   *)
(* groups: the other services' answers settle which outcomes an order may      *)
(* have, an instance shows only such an outcome and only for an order it       *)
(* tracks, and only such an outcome is announced. OrderSaga implements this    *)
(* module; Dashboard reads the entries it allows.                              *)
EXTENDS Integers, FiniteSets

CONSTANTS
    Orders,         \* the orders customers may place
    Instances       \* the instances of order-saga

VARIABLES
    placed,         \* the orders on orders.v1
    settled,        \* settled[o]: the outcomes the answers to order o justify
    entries,        \* entries[i][o]: the status instance i has for order o
    announced       \* announced[o]: the outcomes published for order o

outcomeVars == <<placed, settled, entries, announced>>

Outcomes == {"COMPLETED", "CANCELLED"}

Statuses == {"NONE", "PENDING"} \cup Outcomes

NoEntries == [o \in Orders |-> "NONE"]

OutcomeTypeOK ==
    /\ placed \subseteq Orders
    /\ settled \in [Orders -> SUBSET Outcomes]
    /\ entries \in [Instances -> [Orders -> Statuses]]
    /\ announced \in [Orders -> SUBSET Outcomes]

OutcomeInit ==
    /\ placed = {}
    /\ settled = [o \in Orders |-> {}]
    /\ entries = [i \in Instances |-> NoEntries]
    /\ announced = [o \in Orders |-> {}]

Place(o) ==
    /\ placed' = placed \cup {o}
    /\ UNCHANGED <<settled, entries, announced>>

(* Both good answers are in, or a refusal is. *)
Settle(o, outcome) ==
    /\ o \in placed
    /\ settled' = [settled EXCEPT ![o] = @ \cup {outcome}]
    /\ UNCHANGED <<placed, entries, announced>>

(* OrderPlaced is delivered, for the first time or again. *)
Track(i, o) ==
    /\ o \in placed
    /\ entries' = [entries EXCEPT ![i][o] = "PENDING"]
    /\ UNCHANGED <<placed, settled, announced>>

Decide(i, o, outcome) ==
    /\ entries[i][o] # "NONE"
    /\ outcome \in settled[o]
    /\ entries' = [entries EXCEPT ![i][o] = outcome]
    /\ UNCHANGED <<placed, settled, announced>>

Announce(o, outcome) ==
    /\ outcome \in settled[o]
    /\ announced' = [announced EXCEPT ![o] = @ \cup {outcome}]
    /\ UNCHANGED <<placed, settled, entries>>

(* The processes of the instances in lost restart with empty Maps. *)
Forget(lost) ==
    /\ entries' = [i \in Instances |-> IF i \in lost THEN NoEntries ELSE entries[i]]
    /\ UNCHANGED <<placed, settled, announced>>

OutcomeNext ==
    \/ \E o \in Orders :
          \/ Place(o)
          \/ \E outcome \in Outcomes : Settle(o, outcome) \/ Announce(o, outcome)
          \/ \E i \in Instances :
                Track(i, o) \/ \E outcome \in Outcomes : Decide(i, o, outcome)
    \/ \E lost \in SUBSET Instances : Forget(lost)

OutcomeSpec == OutcomeInit /\ [][OutcomeNext]_outcomeVars
=============================================================================
