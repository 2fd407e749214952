\* One subscription over a disconnection, a restart, its end and its destruction.
SPECIFICATION Spec
CONSTANTS
    a = a
    b = b
    Fields <- TwoFields
    Types = {"T"}
    QueueOption = 2
    Pipeline = FALSE
    HasAckOption = FALSE
    AckOption = 0
    UserStops = TRUE
    UserDestroys = TRUE
    ServerEnds = TRUE
    MaxInits = 2
    MaxUpdates = 2
    MaxDrops = 1
    MaxStops = 1
INVARIANTS
    TypeOK
    NoAliasing
    FreeElementForResponse
    LatestIsQueued
    OverrunExact
    NoLostWakeup
