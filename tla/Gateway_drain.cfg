SPECIFICATION FairSpec
CONSTANTS
    Requests = {r1, r2}
    Clients = {"a", "b"}
    Inputs <- Mixed
    GrpcReplies = {}
    Limit = 1
    Window = 1
    MaxTracked = 1
    MaxTime = 2
    MaxGrants = 2
INVARIANTS
    WindowAcrossRestarts
PROPERTIES
    ImplementsPipeline
    StopDrains
CHECK_DEADLOCK FALSE
