\* Every listing, the feed and a tree, beside two or three writes at any point.
SPECIFICATION FairSpec
CONSTANTS
    MaxId = 4
    MaxClock = 5
    WriteBound = 2
    FeedBound = 3
    Asked <- Repeated
    Limit = 2
    Settle = 2
    FeedLimit = 1
    ScanLimit = 2
    Wanted = {1, 4}
    Families <- Trees
    Depth = 2
    Nodes = 3
CHECK_DEADLOCK FALSE
INVARIANTS
    ListingExact
    TreeWhole
PROPERTY FeedExact
