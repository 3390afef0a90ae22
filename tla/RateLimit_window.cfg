SPECIFICATION Spec
CONSTANTS
    Clients = {a, b, c}
    Limit = 2
    Window = 2
    MaxTime = 5
    MaxGrants = 5
    MaxTracked = 1
INVARIANTS
    WindowBound
    VecsBounded
PROPERTIES
    ImplementsSlidingWindow
    GrowsOnlyWhenLive
CHECK_DEADLOCK FALSE
