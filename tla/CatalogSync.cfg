SPECIFICATION Spec
CONSTANTS
    Components = {1, 2, 3}
    Contents = {"a", "b"}
    Start <- MCStart
    DependsOn <- MCDependsOn
    Runs = {"r1", "r2"}
    MaxEdits = 2
    MaxFaults = 1
INVARIANTS
    TypeOK
    MemoIsTrue
PROPERTIES
    
    Converges
