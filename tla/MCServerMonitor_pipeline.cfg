\* A pipelined subscription fed by tryPost(), with a queue that is larger than the
\* client's window; the client may stop, start again and destroy it.
SPECIFICATION SFairSpec
CONSTANTS
    a = a
    Fields <- OneField
    SelectMask <- OneField
    IgnoreRequestMask = FALSE
    MaxCount = 4
    DefCount = 4
    PresetCount = 0
    QueueSize = 3
    FreeHighPercent = 0
    Pipeline = TRUE
    HasUpstream = FALSE
    Types = {"T"}
    Overruns <- NoOverrun
    DownThreads = {"send", "recv"}
    SizeRange = 65536
    MaxOpens = 1
    MaxPosts = 4
    MaxForced = 0
    MaxWindow = 0
    Window = 2
    AckAny = 1
    Producer = "tryPost"
    AllowStop = TRUE
    MaxQueued = 3
INVARIANTS
    STypeOK
    NoSendOutsideWindow
    WindowConserved
    WindowHoldsPolled
PROPERTIES
    EveryUpdateSent
    EndReachesClient
CHECK_DEADLOCK FALSE
