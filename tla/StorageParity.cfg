SPECIFICATION Spec
CONSTANTS
    Refs = {"web", "api"}
    Owners = {"ann", "bob"}
    Lockfiles <- MCLockfiles
    Registered <- MCRegistered
    IoCs = {"i1"}
    Tracked = {"npm:a", "npm:b"}
    Kinds = {"drift", "jump"}
    Publishers = {"acme", "zed"}
    Grain = 2
    Workloads <- MCWorkloads
    MaxRequests = 5
    MaxAnomalies = 4
INVARIANTS RecordsAgree PostgresKeepsNewestPublisher ListsAgree BoundsDifferByAMicrosecond BlastRadiusAgrees 
CHECK_DEADLOCK FALSE
