\* A cooperative Runner that captures two lines of three, in statements of one.
SPECIFICATION FairSpec
CONSTANTS
    Reports <- TwoReports
    NoValue = 0
    Sizes = {1}
    MaxLines = 2
    MaxBytes = 2
    WriteBatch = 1
    CooperativeCancel = TRUE
    WaitStates = {"retryable"}
    LastAttempt = FALSE
    LineBound = 3
    ReportBound = 3
    OthersBound = 2
CHECK_DEADLOCK FALSE
INVARIANTS
    EventsTrue
    LogsWhole
    WaitTrue
PROPERTIES
    BeatDelivers
