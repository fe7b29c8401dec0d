SPECIFICATION FairSpec
CONSTANTS
    Retries = "limited"
    RecordEnable = FALSE
    MaxLaunches = 2
    MaxHolders = 1
    MaxExtra = 1
INVARIANTS
    AtMostOneReceiver
    

    
CHECK_DEADLOCK FALSE
