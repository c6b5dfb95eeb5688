SPECIFICATION Spec
CONSTANTS
    Units <- OneUnit
    MaxReads = 1
    MaxEvents = 1
    MaxHours = 1
    LoopRestarts = 2
    LoopQuiet = 2
    Day = 3
    Hour = 3
    Faults <- LoopFaults
    Epoch = 6
    MaxTime = 9
    MaxRestarts = 3
    MaxCrashes = 0
INVARIANTS
    NoFalseLoop
    Forgets
