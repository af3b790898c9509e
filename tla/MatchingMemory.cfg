SPECIFICATION Spec
CONSTANTS
    Procs = {p1, p2}
    Operators = {}
    Refs = {r1, r2}
    IoCIds = {i1}
    Lockfiles <- OneLock
    ApiBodies <- MixedBodies
    AnomalyBodies <- Anomaly
    Satisfying <- MCSatisfying
    Backend = "memory"
    MaxRequests = 3
    MaxFaults = 1
    MaxTriage = 0
SYMMETRY Symmetry
INVARIANTS
    AckedMatchesOpened
    EventsMatchRows
