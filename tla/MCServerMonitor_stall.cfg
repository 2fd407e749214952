\* A pipelined subscription fed by post(): the client waits for an update that
\* the server holds.
SPECIFICATION SFairSpec
CONSTANTS
    a = a
    Fields <- OneField
    SelectMask <- OneField
    IgnoreRequestMask = FALSE
    MaxCount = 4
    DefCount = 4
    PresetCount = 0
    QueueSize = 2
    FreeHighPercent = 0
    Pipeline = TRUE
    HasUpstream = FALSE
    Types = {"T"}
    Overruns <- NoOverrun
    DownThreads = {"send", "recv"}
    SizeRange = 65536
    MaxOpens = 1
    MaxPosts = 4
    MaxForced = 0
    MaxWindow = 0
    Window = 2
    AckAny = 1
    Producer = "post"
    AllowStop = FALSE
    MaxQueued = 3
PROPERTIES
    EveryUpdateSent
CHECK_DEADLOCK FALSE
