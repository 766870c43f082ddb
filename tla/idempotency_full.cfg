\* Five messages in a Map of seven entries, which overflows at the fourth.
CONSTANTS
    e0 = e0  e1 = e1  e2 = e2  e3 = e3  e4 = e4
    Messages <- FiveMessages
    EventAt <- EventOfMessage
    MaxSize = 7
    MaxTime = 2
SPECIFICATION CacheSpec
INVARIANT CacheInvariant
PROPERTY OldestForgottenFirst
PROPERTY JustMarkedIsRemembered
