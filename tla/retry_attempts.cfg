\* Two events, two attempts each; the cap cuts the second delay off; every fault once.
CONSTANTS
    e1 = e1  e2 = e2
    Events <- TwoEvents
    MaxAttempts = 2
    BaseDelay = 20
    MaxDelay = 41
    MaxRejections = 1
    MaxCrashes = 1
SPECIFICATION RetryFairSpec
INVARIANT RetryInvariant
INVARIANT AttemptsNotMultiplied
INVARIANT BackoffGrows
PROPERTY RetriesEnd
CHECK_DEADLOCK FALSE
