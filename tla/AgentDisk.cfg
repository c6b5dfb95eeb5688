SPECIFICATION Spec
CONSTANTS
    Max = 1
    MaxBatch = 2
    Interval = 2
    MinBackoff = 1
    MaxBackoff = 1
    MaxServerInterval = 4
    UsageInterval = 1
    MaxPerPush = 1
    MaxWaiting = 1
    None = "none"
    Urls <- OneUrl
    Valid <- OneUrl
    Endpoint <- OneEndpoint
    Registrable <- OneEndpoint
    Configs <- OneConfig
    HasMounts = FALSE
    Answers <- Settling
    Faults <- DiskFaults
    MaxSeq = 3
    MaxReports = 2
    MaxStarts = 2
    MaxHarm = 1
INVARIANTS
    TypeOK
    NoReadingLost
    EvictsOldest
    NoReportLost
