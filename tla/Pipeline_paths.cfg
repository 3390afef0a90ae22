SPECIFICATION FairSpec
CONSTANTS
    Requests = {r1, r2}
    Clients = {"a", "b"}
    Inputs <- AllPaths
    GrpcReplies <- AllReplies
    Limit = 1
INVARIANTS
    TypeOK
    RecordedOnceAsAnswered
    UpstreamOnlyWhenAdmitted
    OnlyAdmittedAreCharged
    GrpcComplete
PROPERTIES
    AnsweredOrGone
CHECK_DEADLOCK FALSE
