------------------------- MODULE MCInventoryService -------------------------
(* Finite instances of InventoryService for TLC.                               *)
EXTENDS InventoryService

CONSTANTS o1, o2, v1, v2, apple, pear, plum

TwoOrders == {o1, o2}
OnePartition == {0}
SamePartition == [o \in TwoOrders |-> 0]

OneInstance == {v1}
TwoInstances == {v1, v2}

TwoProducts == {apple, pear}
OneLevel == {2}

Ordered(product, quantity) == [product |-> product, quantity |-> quantity]

(* there are apples for one of the orders only, and pears for both *)
Contested ==
    [o \in TwoOrders |->
        IF o = o1 THEN <<Ordered(apple, 2), Ordered(pear, 1)>>
                  ELSE <<Ordered(pear, 1), Ordered(apple, 1)>>]

Budget(crashes, rebalances, sends, replays) ==
    [crash |-> crashes, rebalance |-> rebalances, send |-> sends, replay |-> replays]

Disturbances == Budget(1, 1, 0, 1)
NoFault == Budget(0, 0, 0, 0)
=============================================================================
