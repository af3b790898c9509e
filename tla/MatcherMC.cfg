SPECIFICATION Spec
CONSTANTS
    Satisfying <- MCSatisfying
    Refs = {r1, r2}
    MaxSBOMs = 2
INVARIANT ForwardIsEvaluate
CHECK_DEADLOCK FALSE
