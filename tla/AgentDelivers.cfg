SPECIFICATION FairSpec
CONSTANTS
    Max = 2
    MaxBatch = 2
    Interval = 2
    MinBackoff = 1
    MaxBackoff = 2
    MaxServerInterval = 4
    UsageInterval = 4
    MaxPerPush = 1
    MaxWaiting = 2
    None = "none"
    Urls <- OneUrl
    Valid <- OneUrl
    Endpoint <- OneEndpoint
    Registrable <- OneEndpoint
    Configs <- OneConfig
    HasMounts = TRUE
    Answers <- Decisive
    Faults <- NoFaults
    MaxSeq = 3
    MaxReports = 0
    MaxStarts = 2
    MaxHarm = 1
PROPERTIES
    Delivers
    Stops
