\* Two orders compete for two products in two instances; no attempts left; a crash, a rebalance and an operator's reset.
CONSTANTS
    o1 = o1  o2 = o2  v1 = v1  v2 = v2  apple = apple  pear = pear  plum = plum
    Orders <- TwoOrders
    Partitions <- OnePartition
    PartitionOf <- SamePartition
    Instances <- TwoInstances
    InitialCommitted = 0
    Products <- TwoProducts
    Unknown = plum
    ItemsOf <- Contested
    StockLevels <- OneLevel
    MaxAttempts = 0
    MaxFaults <- Disturbances
SPECIFICATION FairSpec
INVARIANT PromisesBacked
INVARIANT InventoryInvariant
INVARIANT ReservedOncePerProcess
INVARIANT CommittedWasSettled
PROPERTY EveryOrderSettled
CHECK_DEADLOCK FALSE
