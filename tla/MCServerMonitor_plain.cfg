\* A subscription without flow control, fed by post().
SPECIFICATION SFairSpec
CONSTANTS
    a = a
    Fields <- OneField
    SelectMask <- OneField
    IgnoreRequestMask = FALSE
    MaxCount = 4
    DefCount = 4
    PresetCount = 0
    QueueSize = 2
    FreeHighPercent = 0
    Pipeline = FALSE
    HasUpstream = FALSE
    Types = {"T"}
    Overruns <- NoOverrun
    DownThreads = {"send", "recv"}
    SizeRange = 65536
    MaxOpens = 1
    MaxPosts = 4
    MaxForced = 0
    MaxWindow = 0
    Window = 2
    AckAny = 1
    Producer = "post"
    AllowStop = TRUE
    MaxQueued = 3
INVARIANTS
    EndIsLast
PROPERTIES
    EveryUpdateSent
CHECK_DEADLOCK FALSE
