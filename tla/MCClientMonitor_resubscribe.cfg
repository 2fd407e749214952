\* A start() of the user while the channel is down.
SPECIFICATION Spec
CONSTANTS
    a = a
    b = b
    Fields <- OneField
    Types = {"T"}
    QueueOption = 2
    Pipeline = FALSE
    HasAckOption = FALSE
    AckOption = 0
    UserStops = FALSE
    UserDestroys = FALSE
    ServerEnds = FALSE
    MaxInits = 2
    MaxUpdates = 3
    MaxDrops = 1
    MaxStops = 0
INVARIANTS
    Resubscribed
