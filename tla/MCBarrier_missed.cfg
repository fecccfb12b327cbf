\* A child enqueued by Insert ends as its parent declares a barrier.
CONSTANTS
    Children = {c1, c2}
    Continuation = k
    Taken = {}
    Txs = {s1, s2}
    NoTx = NoTx
    BatchSize = 1
    MishapBound = 0
SPECIFICATION Spec
INVARIANT BarrierNeverMissed
CHECK_DEADLOCK FALSE
