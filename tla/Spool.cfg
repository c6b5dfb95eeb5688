SPECIFICATION FairSpec
CONSTANTS
    Max = 2
    MaxBatch = 2
    PerRun = 3
    Worlds <- MCWorlds
    MaxHarm = 1
INVARIANTS
    AddBounds
    AddKeepsReading
    PartialsBounded
PROPERTIES
    KeepsPromise
    Drains
