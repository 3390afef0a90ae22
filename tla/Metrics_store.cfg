SPECIFICATION Spec
CONSTANTS
    Requests = {r1, r2}
    Failing = {r2}
    Matched = {r1, r2}
    RingCap = 2
    BucketCap = 2
    LatencyCap = 1
    ChannelCap = 1
    RpsWindow = 2
    MaxClock = 2
    Admin = {"metrics", "events"}
    Cancels = TRUE
INVARIANTS
    TypeOK
    CountersNested
    AtRestConsistent
    EventsFaithful
    WindowCountExact
    SeriesChronological
