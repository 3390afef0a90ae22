SPECIFICATION FairSpec
CONSTANTS
    Callers = {c1, c2}
    NoCaller = NoCaller
    Listeners = {l1}
    Misconfigured = {l1}
    Conns = {k1, k2}
    OpenEnded = {k2}
    MaxStarts = 2
    ShutdownTimeout = TRUE
INVARIANTS
    TypeOK
    NoLostWakeup
    AliveIsOwned
    UnreachableWhenStopped
    SignalHeldWhileJoining
    OneGenerationAlive
PROPERTIES
    StopReturns
CHECK_DEADLOCK FALSE
