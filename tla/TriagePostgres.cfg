SPECIFICATION Spec
CONSTANTS
    Procs = {p1}
    Operators = {o1, o2}
    Refs = {r1}
    IoCIds = {i1}
    Lockfiles <- OneLock
    ApiBodies <- VersionBody
    AnomalyBodies <- None
    Satisfying <- MCSatisfying
    Backend = "postgres"
    MaxRequests = 3
    MaxFaults = 1
    MaxTriage = 2
SYMMETRY OperatorSymmetry
INVARIANTS
    TypeOK
    EventsMatchRows
PROPERTIES
    IncidentIdentityFrozen
    RemediationsAppendOnly
