SPECIFICATION FairSpec
CONSTANTS
    Callers = {c1, c2}
    NoCaller = NoCaller
    Listeners = {}
    Misconfigured = {}
    Conns = {}
    OpenEnded = {}
    MaxStarts = 2
    ShutdownTimeout = FALSE
PROPERTIES
    StopAlwaysReturns
