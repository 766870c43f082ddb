\* One order, one answer of each service, two instances that never committed, every fault once.
CONSTANTS
    o1 = o1  s1 = s1  s2 = s2
    Orders <- OneOrder
    Partitions <- OnePartition
    PartitionOf <- OneOrderPartition
    Instances <- TwoInstances
    InitialCommitted <- NoOffset
    MaxAnswers = 1
    MaxFaults <- EveryFault
SPECIFICATION FairSpec
INVARIANT OutcomeExclusive
INVARIANT SagaInvariant
INVARIANT DecisionIsPublished
PROPERTY DecisionStable
PROPERTY ImplementsOutcome
PROPERTY AnsweredOrderDecided
