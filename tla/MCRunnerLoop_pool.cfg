\* One Runner with a pool of two, a shared Limiter, queue caps and
\* pauses, Stop, Drain and a cancelled context at any point.
SPECIFICATION FairSpec
CONSTANTS
    r1 = r1
    r2 = r2
    Runners = {r1}
    UntilIdle = {}
    Refreshing = {r1}
    Hosted = {r1}
    Draining = {r1}
    Concurrency <- Two
    ClaimBatchSize = 0
    OverServe = 1
    MaxConcurrent = 2
    FailOpen = {}
    Shared = TRUE
    Grants = {g1, g2}
    NoGrant = NoGrant
    Caps = {1}
    Budgets = {}
    Pausing = TRUE
    Faults = FALSE
    JobBound = 3
CHECK_DEADLOCK FALSE
INVARIANTS
    NoLostWakeup
    DrainMeansEmpty
PROPERTY PoolObeys
