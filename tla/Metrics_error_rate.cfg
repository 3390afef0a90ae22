SPECIFICATION Spec
CONSTANTS
    Requests = {r1, r2}
    Failing = {r1, r2}
    Matched = {r1}
    RingCap = 2
    BucketCap = 3
    LatencyCap = 2
    ChannelCap = 1
    RpsWindow = 2
    MaxClock = 0
    Admin = {"metrics"}
    Cancels = FALSE
INVARIANTS
    ErrorRateWithinOne
