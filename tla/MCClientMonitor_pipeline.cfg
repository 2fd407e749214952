\* A pipelined subscription that the server may end.
SPECIFICATION FairSpec
CONSTANTS
    a = a
    b = b
    Fields <- OneField
    Types = {"T"}
    QueueOption = 4
    Pipeline = TRUE
    HasAckOption = FALSE
    AckOption = 0
    UserStops = FALSE
    UserDestroys = FALSE
    ServerEnds = TRUE
    MaxInits = 1
    MaxUpdates = 6
    MaxDrops = 0
    MaxStops = 0
INVARIANTS
    CreditAccounted
PROPERTIES
    UpdatesFlow
    EveryUpdateSeen
    EndReachesUser
