SPECIFICATION FairSpec
CONSTANTS
    Messages = {m1, m2, m3}
    Kinds = {"amqp", "amqp_auto", "mqtt", "zmq"}
    TopicCounts = {1, 2, 3}
    RequestCap = 2
    MaxLosses = 2
INVARIANTS
    TypeOK
    NothingLost
    UntriedOnlyWhenLost
    AttemptsBounded
PROPERTIES
    QueueDrains
