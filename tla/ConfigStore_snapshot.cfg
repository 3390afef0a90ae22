SPECIFICATION Spec
CONSTANTS
    Callers = {c1, c2}
    Files <- AllFiles
    Environments <- AllEnvironments
    Drafts <- SomeDrafts
    MaxSaves = 2
SYMMETRY CallerSymmetry
INVARIANTS
    ActiveIsUsable
    SnapshotCoherent
