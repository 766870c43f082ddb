\* Three orders in two partitions, two instances, every fault once, one ranking of one product.
CONSTANTS
    o1 = o1  o2 = o2  o3 = o3  a1 = a1  a2 = a2  apple = apple  pear = pear
    Orders <- ThreeOrders
    Partitions <- TwoPartitions
    PartitionOf <- SplitPartitions
    Instances <- TwoInstances
    InitialCommitted = 0
    Products <- TwoProducts
    ItemsOf <- Baskets
    TopSize = 1
    MaxSnapshots = 1
    MaxFaults <- EveryFault
SPECIFICATION FairSpec
INVARIANT AnalyticsInvariant
INVARIANT CommittedWasCounted
PROPERTY EveryOrderCounted
CHECK_DEADLOCK FALSE
