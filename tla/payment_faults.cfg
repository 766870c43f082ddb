\* Two orders in one partition, two instances, two rebalances and every other fault once; one order is authorized, one declined.
CONSTANTS
    o1 = o1  o2 = o2  p1 = p1  p2 = p2
    Orders <- TwoOrders
    Partitions <- OnePartition
    PartitionOf <- SamePartition
    Instances <- TwoInstances
    InitialCommitted = 0
    ResultsOf <- OneOfEach
    MaxFaults <- EveryFault
SPECIFICATION FairSpec
INVARIANT PaymentInvariant
INVARIANT CommittedWasAnswered
INVARIANT ChargedOncePerProcess
PROPERTY EveryOrderAnswered
CHECK_DEADLOCK FALSE
