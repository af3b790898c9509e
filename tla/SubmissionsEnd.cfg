SPECIFICATION FairSpec
CONSTANTS
    Procs = {p1, p2}
    Operators = {}
    Refs = {r1}
    IoCIds = {i1}
    Lockfiles <- OneLock
    ApiBodies <- VersionBody
    AnomalyBodies <- Anomaly
    Satisfying <- MCSatisfying
    Backend = "postgres"
    MaxRequests = 2
    MaxFaults = 1
    MaxTriage = 0
PROPERTIES
    SubmissionsEnd
