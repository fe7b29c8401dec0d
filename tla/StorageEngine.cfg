SPECIFICATION FairSpec
CONSTANTS
    Processings = {p1, p2}
    ObjectIds = {o1, o2}
    MaxTasks = 2
    MaxResults = 1
INVARIANTS
    StorageInv
PROPERTY
    ImplementsDelivery
CHECK_DEADLOCK FALSE
