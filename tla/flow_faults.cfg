\* One order; payment-service crashes, inventory-service is rebalanced and meets a rejected send.
CONSTANTS
    o1 = o1  p1 = p1  v1 = v1  s1 = s1  apple = apple  plum = plum
    Orders <- OneOrder
    Partitions <- OnePartition
    PartitionOf <- OneTogether
    PaymentInstances <- PaymentProcess
    InventoryInstances <- InventoryProcess
    SagaInstances <- SagaProcess
    InitialCommitted = 0
    PaymentMaxFaults <- Crashes
    InventoryMaxFaults <- NoCrash
    SagaMaxFaults <- NoFault
    Products <- OneProduct
    Unknown = plum
    ItemsOf <- Apples
    StockLevels <- TwoLevels
    MaxAttempts = 5
    MaxAnswers = 2
SPECIFICATION FairSpec
INVARIANT OneOutcome
INVARIANT CompletedHoldsStock
PROPERTY ImplementsSaga
PROPERTY TrackedOrderDecided
PROPERTY SagaDecisionStable
