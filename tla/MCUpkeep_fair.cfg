\* A scheduler and a RebuildStats caller beside an older binary, one retention
\* pass at a time, and one pass that fails.
CONSTANTS
    Jobs = {1}
    MaxRun = 1
    LastHour = 1
    Walkers = {"scheduler", "caller"}
    Operations <- SchedulerAndCaller
    Pruners = {p1}
    StatsRetention = 2
    MaxHoursPerPass = 1
    KindOf <- Kinds
    DefaultAge = 1
    Rules <- KeepRules
    BatchSize = 1
    MaxBatches = 1
    MaxRawSpan = 1
    OldBinary = TRUE
    FailBound = 1
SPECIFICATION FairSpec
INVARIANT StatsServeEveryRun
PROPERTIES
    RetentionHolds
    UpkeepCatchesUp
CHECK_DEADLOCK FALSE
