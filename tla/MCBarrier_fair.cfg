\* Two sessions end the children of one parent, in every way, at once.
CONSTANTS
    Children = {c1, c2}
    Continuation = k
    Taken = {}
    Txs = {s1, s2}
    NoTx = NoTx
    BatchSize = 1
    MishapBound = 1
SPECIFICATION FairSpec
INVARIANTS
    BarrierHasPending
    NoSelfCancel
PROPERTIES
    FiresAfterGeneration
    BarrierFires
CHECK_DEADLOCK FALSE
