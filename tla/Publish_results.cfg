SPECIFICATION FairPublishSpec
CONSTANTS
    Publishes = {p1, p2}
    Routes <- AllRoutes
INVARIANTS
    OkMeansTaken
PROPERTIES
    EveryPublishEnds
CHECK_DEADLOCK FALSE
