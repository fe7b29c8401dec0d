SPECIFICATION FairSpec
CONSTANTS
    Retries = "immediately"
    RecordEnable = TRUE
    MaxLaunches = 2
    MaxHolders = 2
    MaxExtra = 1
INVARIANTS
    TypeOK
    CountIsExact
PROPERTIES
    ReceiverKeptForHolders
CHECK_DEADLOCK FALSE
