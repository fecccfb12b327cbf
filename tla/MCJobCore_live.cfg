\* One job, no operator: its attempts fail, crash and lose their lease until
\* the job ends.
CONSTANTS
    Jobs = {j1}
    Tokens = {t1, t2, t3}
    NoToken = NoToken
    MaxAttempts = {1, 2}
    MaxCrashes = 0
    ClaimLimit = 1
    SweepBatchSize = 1
    Results = {"success", "transient"}
    RetryOptions <- NoRetries
    Controls = {}
    AttemptBound = 3
    BudgetBound = 0
    ForceBound = 0
SPECIFICATION FairSpec
PROPERTY NothingStuck
CHECK_DEADLOCK FALSE
