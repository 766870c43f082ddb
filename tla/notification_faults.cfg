\* Three outcomes of one order, two instances, two rebalances and every other fault once.
CONSTANTS
    o1 = o1  n1 = n1  n2 = n2
    Orders <- OneOrder
    Partitions <- OnePartition
    PartitionOf <- OneOrderPartition
    Instances <- TwoInstances
    InitialCommitted = 0
    MaxOutcomes = 3
    MaxFaults <- EveryFault
SPECIFICATION FairSpec
INVARIANT NotificationInvariant
INVARIANT CommittedWasMailed
PROPERTY EveryOutcomeMailed
CHECK_DEADLOCK FALSE
