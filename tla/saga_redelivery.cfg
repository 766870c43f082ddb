\* One order, one rebalance: redelivery undoes a decision.
CONSTANTS
    o1 = o1  s1 = s1  s2 = s2
    Orders <- OneOrder
    Partitions <- OnePartition
    PartitionOf <- OneOrderPartition
    Instances <- OneInstance
    InitialCommitted = 0
    MaxFaults <- RebalanceOnly
    MaxAnswers = 1
SPECIFICATION Spec
PROPERTY DuplicatesAreHarmless
