SPECIFICATION Spec
CONSTANTS
    Max = 2
    MaxBatch = 2
    Interval = 2
    MinBackoff = 1
    MaxBackoff = 2
    MaxServerInterval = 4
    UsageInterval = 4
    MaxPerPush = 1
    MaxWaiting = 2
    None = "none"
    Urls <- MCUrls
    Valid <- MCValid
    Endpoint <- MCEndpoint
    Registrable <- MCRegistrable
    Configs <- MovedConfigs
    HasMounts = FALSE
    Answers <- Moving
    Faults <- NoFaults
    MaxSeq = 3
    MaxReports = 0
    MaxStarts = 3
    MaxHarm = 0
INVARIANTS
    Destination
    MigrationSurvives
