SPECIFICATION FairSpec
CONSTANTS
    Units <- TwoUnits
    MaxReads = 2
    MaxEvents = 2
    MaxHours = 2
    LoopRestarts = 2
    LoopQuiet = 2
    Day = 3
    Hour = 1
    Faults <- FailureFaults
    Epoch = 2
    MaxTime = 5
    MaxRestarts = 0
    MaxCrashes = 1
INVARIANTS
    NewestWait
    HoursOnce
PROPERTIES
    ToldOnce
    FailuresTold
