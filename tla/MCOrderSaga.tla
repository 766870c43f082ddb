----------------------------- MODULE MCOrderSaga -----------------------------
(* Finite instances of OrderSaga for TLC.                                      *)
EXTENDS OrderSaga

CONSTANTS o1, s1, s2

Budget(crashes, rebalances, sends, replays) ==
    [crash |-> crashes, rebalance |-> rebalances, send |-> sends, replay |-> replays]

OneOrder == {o1}
OnePartition == {0}

OneOrderPartition == [o \in {o1} |-> 0]

EveryFault == Budget(1, 1, 1, 1)
RebalanceOnly == Budget(0, 1, 0, 0)

OneInstance == {s1}
TwoInstances == {s1, s2}
=============================================================================
