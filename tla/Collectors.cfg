SPECIFICATION Spec
CONSTANTS
    Points = {1, 2, 3}
    Filesystem <- MCFilesystem
    Device <- MCDevice
    Capacity <- MCCapacity
    Usages = {0, 1}
    Unfillable = {3}
    Retry = 1
    MaxStuck = 2
    UnitNames = {1, 2}
    EnabledUnits = {1}
    Attempts = 1
    MaxServices = 1
    MaxSignals = 1
    Containers = {1, 2}
    MaxStamp = 3
    ForgetAfter = 2
    MaxRestarts = 2
    MaxContainers = 1
    Devices = {1, 2}
    Width = 2
    MaxDisks = 1
    MaxMoved = 2
    MaxIn = 2
    MaxOut = 1
    Pids = {1, 2}
    MaxLives = 3
    MaxTicks = 2
    TopFew = 1
    Nodes <- MCNodes
    Parent <- MCParent
    Files <- MCFiles
    Size <- MCSize
    LeftOut = {7}
    Known = {10}
    UsageMaxDepth = 1
    UsageBudget = 4
    UsageTopN = 2
    MaxUnreadableDirs = 1
    MaxUnreadableCollected = 2
    Slowest = 1
    BadNodes <- MCBadNodes
    Mains <- MCMains
    DropIns <- MCDropIns
    Keywords = {"password"}
    MaxSSHDepth = 2
    MaxSSHFiles = 5
    MaxSSHPorts = 2
    CacheWorlds <- MCCacheWorlds
    MaxCronFiles = 2
    MaxStamps = 2
    Packages = {1, 2, 3}
    ProgramPaths = {1, 2}
    OtherPaths = {3}
    CommName <- MCCommName
    FirstLists <- MCFirstLists
    MaxUpgrades = 1
    MinIndexRebuild = 1
    Journals <- MCJournals
    AskedUnit = 1
    SinceTime = 2
    UntilTime = 3
    HourEnd = 3
    MaxScan = 2
    MaxLines = 2
    MaxLineBytes = 2
    MaxSnippetBytes = 5
    MaxUnits = 1
INVARIANTS
    SurvivorSteady AnswersMatched FailuresListed RestartsReal RateReal ShareOwn
    ScanComplete EveryTreeTried SshNeverGuessed CachesFresh IndexRight LinesNewest HourHonest
PROPERTIES
    RetryPaced
CHECK_DEADLOCK FALSE
