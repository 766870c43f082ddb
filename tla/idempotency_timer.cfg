\* A Map of eight entries that the timer cleans up before it is full.
CONSTANTS
    e0 = e0  e1 = e1  e2 = e2  e3 = e3  e4 = e4
    Messages <- FiveMessages
    EventAt <- EventOfMessage
    MaxSize = 8
    MaxTime = 1
SPECIFICATION CacheSpec
PROPERTY CleanupStopsAtTarget
