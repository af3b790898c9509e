SPECIFICATION Spec
CONSTANTS
    Procs = {p1}
    Operators = {o1}
    Refs = {r1}
    IoCIds = {i1}
    Lockfiles <- OneLock
    ApiBodies <- VersionBody
    AnomalyBodies <- Anomaly
    Satisfying <- MCSatisfying
    Backend = "postgres"
    MaxRequests = 3
    MaxFaults = 0
    MaxTriage = 4
INVARIANTS
    OneOpenPerPair
    

    
