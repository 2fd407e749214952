\* A local subscription: two selected fields and a hidden one, and a source that
\* fills the queue from freeHighMark().
SPECIFICATION Spec
CONSTANTS
    a = a
    b = b
    hidden = hidden
    Fields <- AllFields
    SelectMask <- TwoSelected
    IgnoreRequestMask = FALSE
    MaxCount = 2
    DefCount = 4
    PresetCount = 0
    QueueSize = 3
    FreeHighPercent = 50
    Pipeline = FALSE
    HasUpstream = TRUE
    Types = {"T"}
    Overruns <- NoOverrun
    DownThreads = {"down"}
    SizeRange = 65536
    MaxOpens = 1
    MaxPosts = 3
    MaxForced = 1
    MaxWindow = 0
INVARIANTS
    TypeOK
    AlwaysOneElement
    LatestIsQueued
    OverrunExact
    NoLostWakeup

    
