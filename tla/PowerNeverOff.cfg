SPECIFICATION Spec
CONSTANTS
    Videos <- MCVideos
    Starts <- MCStarts
    Length = 3
    MissLimit = 1
    MaxTime = 7
    MaxRecs = 2
    MaxFaults = 1
    MinUptime = 0
    MinTime = 3
    PreStartup = 1
    Delay = 0
    IgnoreUsers = FALSE
    NoRecordings = TRUE
    RefreshTime = 2
    MinPoweroff = 3
    WarningTime = 1
    WakeupMargin = 1
    UnloadDriver = TRUE
    FreeReply = "All free."
PROPERTY FreeIsSeen
CHECK_DEADLOCK FALSE
