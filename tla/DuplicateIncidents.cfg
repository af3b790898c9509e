SPECIFICATION Spec
CONSTANTS
    Procs = {p1, p2}
    Operators = {}
    Refs = {r1}
    IoCIds = {i1}
    Lockfiles <- OneLock
    ApiBodies <- VersionBody
    AnomalyBodies <- None
    Satisfying <- MCSatisfying
    Backend = "postgres"
    MaxRequests = 2
    MaxFaults = 0
    MaxTriage = 0
INVARIANTS
    OneOpenPerPair
