\* One job under everything: every result, control and retry option.
CONSTANTS
    Jobs = {j1}
    Tokens = {t1, t2, t3}
    NoToken = NoToken
    MaxAttempts = {2}
    MaxCrashes = 2
    ClaimLimit = 1
    SweepBatchSize = 1
    Results = {"success", "transient", "permanent", "snooze", "cancel"}
    RetryOptions <- AllRetries
    Controls = {"cancel", "pause", "resume", "reschedule", "delete"}
    AttemptBound = 3
    BudgetBound = 3
    ForceBound = 1
SYMMETRY TokenSymmetry
SPECIFICATION Spec
INVARIANTS
    RowConsistent
    FenceHolder
    RetryBudgetKept
    CrashBudgetKept
    OverlapExcused
PROPERTIES
    StaleFinalizeInvisible
    ImplementsLife
    AuditExact
CHECK_DEADLOCK FALSE
