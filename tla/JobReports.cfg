SPECIFICATION FairSpec
CONSTANTS
    Wrappers = {1, 2}
    Litter = {3}
    CommandLines <- MCLines
    Codes <- MCCodes
    Outputs <- MCOutputs
    MaxLines = 4
    MaxPerPush = 1
    MaxWaiting = 1
    Hour = 0
    MaxAge = 1
    Faults <- MCFaults
    MaxTime = 2
INVARIANTS
    NoSilentLoss
    NoOrphan
    OutputAsAsked
PROPERTIES
    FolderDrains
CHECK_DEADLOCK FALSE
