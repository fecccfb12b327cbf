\* Two schedulers, one of which declares an every-second schedule and a cron one
\* and reconciles; operators edit the first; one process dies or one call fails.
CONSTANTS
    s1 = s1
    s2 = s2
    g1 = g1
    g2 = g2
    Slugs = {g1, g2}
    Schedulers = {s1, s2}
    Operator = op
    Declared <- OneHost
    Specs <- OperatorSpecs
    Reconciling = {s1}
    BackfillCap = 1
    HistorySize = 1
    LastTime = 2
    Edited = {g1}
    EditBound = 2
    MishapBound = 1
    NoRow = NoRow
    Idle = Idle
SPECIFICATION FairSpec
INVARIANT NoFireLost
PROPERTIES
    OperatorsWordStands
    SchedulesSettle
CHECK_DEADLOCK FALSE
