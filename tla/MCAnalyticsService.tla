------------------------- MODULE MCAnalyticsService -------------------------
(* Finite instances of AnalyticsService for TLC.                               *)
EXTENDS AnalyticsService

CONSTANTS o1, o2, o3, a1, a2, apple, pear

ThreeOrders == {o1, o2, o3}
TwoPartitions == {0, 1}
SplitPartitions == [o \in ThreeOrders |-> IF o = o3 THEN 1 ELSE 0]
TwoInstances == {a1, a2}
TwoProducts == {apple, pear}

(* o1 has the same product twice *)
Baskets ==
    [o \in ThreeOrders |->
        CASE o = o1 -> <<[product |-> apple, quantity |-> 1], [product |-> apple, quantity |-> 1]>>
          [] o = o2 -> <<[product |-> pear, quantity |-> 1]>>
          [] o = o3 -> <<[product |-> pear, quantity |-> 1], [product |-> apple, quantity |-> 1]>>]

Budget(crashes, rebalances, sends, replays) ==
    [crash |-> crashes, rebalance |-> rebalances, send |-> sends, replay |-> replays]

EveryFault == Budget(1, 1, 1, 1)
=============================================================================
