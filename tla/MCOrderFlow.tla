----------------------------- MODULE MCOrderFlow -----------------------------
(* Finite instances of OrderFlow for TLC: one instance of every service.       *)
EXTENDS OrderFlow

CONSTANTS o1, p1, v1, s1, apple, plum

OneOrder == {o1}
OnePartition == {0}
OneTogether == [o \in {o1} |-> 0]
PaymentProcess == {p1}
InventoryProcess == {v1}
SagaProcess == {s1}

OneProduct == {apple}
TwoLevels == {1, 2}

(* the order names the same product twice: there may be one left, or two *)
Apples == [o \in {o1} |-> <<[product |-> apple, quantity |-> 1],
                           [product |-> apple, quantity |-> 1]>>]

Budget(crashes, rebalances, sends, replays) ==
    [crash |-> crashes, rebalance |-> rebalances, send |-> sends, replay |-> replays]

NoFault == Budget(0, 0, 0, 0)
Crashes == Budget(1, 0, 0, 0)
NoCrash == Budget(0, 1, 1, 0)
=============================================================================
