\* Two Runners share a DBLimiter: r1 runs until idle with two slots, r2 polls
\* with one.  The Limiter, releases, dispatches and processes fail.
SPECIFICATION Spec
CONSTANTS
    r1 = r1
    r2 = r2
    Runners = {r1, r2}
    UntilIdle = {r1}
    Refreshing = {}
    Hosted = {r1}
    Draining = {}
    Concurrency <- TwoAndOne
    ClaimBatchSize = 0
    OverServe = 1
    MaxConcurrent = 2
    FailOpen = {r2}
    Shared = TRUE
    Grants = {g1, g2}
    NoGrant = NoGrant
    Caps = {}
    Budgets = {1}
    Pausing = FALSE
    Faults = TRUE
    JobBound = 2
SYMMETRY GrantSymmetry
CHECK_DEADLOCK FALSE
INVARIANTS
    SlotsExact
    IdleReportsErrors
PROPERTY PermitsKept
