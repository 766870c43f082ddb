\* Two orders, one of them processed by two instances of order-saga, one fault of any kind.
CONSTANTS
    o1 = o1  o2 = o2  s1 = s1  s2 = s2  payment = payment
    Orders <- TwoOrders
    Instances <- TwoInstances
    Gateway = gateway
    OtherServices <- PaymentOnly
    NoOrder = none
    Consumed <- FirstOrder
    MaxOutcomes = 1
    MaxFetches = 2
    MaxChecks = 1
    Seeds = 1
    MaxFaults = 1
SPECIFICATION FairSpec
INVARIANT PageInvariant
INVARIANT OneOrderPerPurchase
INVARIANT ServiceOutageNotShown
PROPERTY ShownDecisionStable
PROPERTY PageCatchesUp
