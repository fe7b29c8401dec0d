SPECIFICATION FairSpec
CONSTANTS
    a1 = a1
    a2 = a2
    r1 = r1
    Analyses <- OneAnalysis
    Recordings <- OneRecording
    Configured <- OneRecording
    NoOp = NoOp
    MaxBoots = 2
    MaxKeys = 2
    MaxQueue = 1
INVARIANTS
    TypeOK
    
    
    
    ThreadsEndBeforeDeletes
    CalmShutdownIsClean

    
CHECK_DEADLOCK FALSE
