SPECIFICATION Spec
CONSTANTS
    Max = 2
    MaxBatch = 2
    Interval = 2
    MinBackoff = 1
    MaxBackoff = 8
    MaxServerInterval = 4
    UsageInterval = 4
    MaxPerPush = 1
    MaxWaiting = 2
    None = "none"
    Urls <- OneUrl
    Valid <- OneUrl
    Endpoint <- OneEndpoint
    Registrable <- OneEndpoint
    Configs <- OneConfig
    HasMounts = FALSE
    Answers <- WithPortal
    Faults <- NoFaults
    MaxSeq = 2
    MaxReports = 0
    MaxStarts = 1
    MaxHarm = 0
INVARIANT
    NoReadingLost
