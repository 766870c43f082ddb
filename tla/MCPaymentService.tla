-------------------------- MODULE MCPaymentService --------------------------
(* Finite instances of PaymentService for TLC.                                 *)
EXTENDS PaymentService

CONSTANTS o1, o2, p1, p2

Budget(crashes, rebalances, sends, replays) ==
    [crash |-> crashes, rebalance |-> rebalances, send |-> sends, replay |-> replays]

TwoOrders == {o1, o2}
OnePartition == {0}

SamePartition == [o \in {o1, o2} |-> 0]

EveryFault == Budget(1, 2, 1, 1)

OneOfEach == [o \in {o1, o2} |-> {IF o = o1 THEN "PaymentAuthorized" ELSE "PaymentDeclined"}]

TwoInstances == {p1, p2}
=============================================================================
