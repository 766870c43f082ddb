------------------------ MODULE MCNotificationService ------------------------
(* Finite instances of NotificationService for TLC.                            *)
EXTENDS NotificationService

CONSTANTS o1, n1, n2

OnePartition == {0}
TwoInstances == {n1, n2}

Budget(crashes, rebalances, sends, replays) ==
    [crash |-> crashes, rebalance |-> rebalances, send |-> sends, replay |-> replays]

OneOrder == {o1}
OneOrderPartition == [o \in OneOrder |-> 0]
EveryFault == Budget(1, 2, 1, 0)
=============================================================================
