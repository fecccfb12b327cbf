\* A node of one Runner with two slots drained by its host or by an
\* operator, whose registry, components and process fail; before it starts, two
\* processes install the schema.
SPECIFICATION NodeFairSpec
CONSTANTS
    r1 = r1
    Runners = {r1}
    UntilIdle = {}
    Refreshing = {}
    Hosted = {}
    Draining = {r1}
    Concurrency <- Two
    ClaimBatchSize = 0
    OverServe = 0
    MaxConcurrent = 0
    FailOpen = {}
    Shared = TRUE
    Grants = {}
    NoGrant = NoGrant
    Caps = {}
    Budgets = {}
    Pausing = FALSE
    Faults = FALSE
    JobBound = 1
    DrainTimeout = TRUE
    Mishaps = TRUE
    Callers = {c1, c2}
    NoCaller = NoCaller
    Found <- Deployed
    CallBound = 2
CHECK_DEADLOCK FALSE
INVARIANTS
    ReportedEmptyIsEmpty
    PromiseKept
PROPERTIES
    DrainAnswered
    NodeStops
    CallsReturn
