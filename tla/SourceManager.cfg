SPECIFICATION Spec
CONSTANTS
    Urls = {u1, u2}
    Used = {u1}
    Failing = {u1}
    Supported = {u1, u2}
    Main = main
    Workers = {worker}
    Retry = retry
    RecordEnableRetranslation = FALSE
    RangeBegin = 0
    RangeEnd = 1
    MaxObjects = 3
    MaxHeld = 1
    MaxRefs = 2
INVARIANTS
    TypeOK
    
    
    PairsDisjoint
    
