SPECIFICATION Spec
CONSTANTS
    Tracked = {"npm:left", "gomod:pad", "npm:gone"}
    Broken = {"npm:gone"}
    Registry <- MCRegistry
    Documents <- MCDocuments
    Start <- MCSeeded
    BatchSize = 2
    DetectBatch = 3
    HistoryDepth = 4
    MaxRetries = 1
    MaxReleases = 2
    MaxFaults = 1
INVARIANTS
    TypeOK
    RepeatRaisesNothingNew
PROPERTIES
    
    HealthyRefreshed
