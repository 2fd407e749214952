\* Flow control by acknowledgements; closed and opened again, with the same type and
\* with another one.
SPECIFICATION Spec
CONSTANTS
    a = a
    b = b
    hidden = hidden
    Fields <- OneField
    SelectMask <- OneField
    IgnoreRequestMask = FALSE
    MaxCount = 2
    DefCount = 4
    PresetCount = 0
    QueueSize = 3
    FreeHighPercent = 0
    Pipeline = TRUE
    HasUpstream = FALSE
    Types = {"T", "U"}
    Overruns <- NoOverrun
    DownThreads = {"down"}
    SizeRange = 65536
    MaxOpens = 2
    MaxPosts = 2
    MaxForced = 1
    MaxWindow = 2
INVARIANTS
    NoAliasing
    NoSlotLeak
    UnlistenIsFinal
    ToldTheTruth
