\* Every batched call over two jobs in any of these states, one with a key, beside
\* three steps of other actors, who may enqueue a third job with that key.
SPECIFICATION FairSpec
CONSTANTS
    k = k
    Ids = {1, 2, 3}
    Enqueued = {1, 2}
    Keys = {k}
    NoKey = NoKey
    Key <- SharedKey
    InitialStates = {"available", "paused", "running", "succeeded", "discarded", "cancelled"}
    Ops = {"replay", "retry", "preview", "cancel", "delete", "reschedule", "pause", "pauseByParent", "resumeByParent", "cancelByParent"}
    States = {"discarded", "cancelled"}
    Filter = {"available", "paused", "running", "discarded", "cancelled"}
    BatchSize = 1
    MaxJobs = 2
    ReplayBatchRetries = 1
    OthersBound = 3
CHECK_DEADLOCK FALSE
INVARIANTS
    WalkExact
PROPERTIES
    RevivalsHold
    WalkEnds
