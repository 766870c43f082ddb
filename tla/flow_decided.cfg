\* One order, no fault but the simulated reservation failure.
CONSTANTS
    o1 = o1  p1 = p1  v1 = v1  s1 = s1  apple = apple  plum = plum
    Orders <- OneOrder
    Partitions <- OnePartition
    PartitionOf <- OneTogether
    PaymentInstances <- PaymentProcess
    InventoryInstances <- InventoryProcess
    SagaInstances <- SagaProcess
    InitialCommitted = 0
    PaymentMaxFaults <- NoFault
    InventoryMaxFaults <- NoFault
    SagaMaxFaults <- NoFault
    Products <- OneProduct
    Unknown = plum
    ItemsOf <- Apples
    StockLevels <- TwoLevels
    MaxAttempts = 5
    MaxAnswers = 3
SPECIFICATION FairSpec
PROPERTY PlacedOrderDecided
