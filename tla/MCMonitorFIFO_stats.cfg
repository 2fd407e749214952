\* What getStats() says of a queue that was opened once.
SPECIFICATION Spec
CONSTANTS
    a = a
    b = b
    hidden = hidden
    Fields <- OneField
    SelectMask <- OneField
    IgnoreRequestMask = FALSE
    MaxCount = 2
    DefCount = 4
    PresetCount = 0
    QueueSize = 3
    FreeHighPercent = 0
    Pipeline = FALSE
    HasUpstream = FALSE
    Types = {"T"}
    Overruns <- NoOverrun
    DownThreads = {"down"}
    SizeRange = 65536
    MaxOpens = 1
    MaxPosts = 3
    MaxForced = 1
    MaxWindow = 3
INVARIANTS
    StatsOutstanding
