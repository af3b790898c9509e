SPECIFICATION Spec
CONSTANTS
    Statements = {get}
    Lists = {list}
    Streams = {stream}
    MaxConns = 3
INVARIANTS
    TypeOK
    CloseIsLast
    
PROPERTIES
    
    ExitsAfterSignal
CHECK_DEADLOCK FALSE
