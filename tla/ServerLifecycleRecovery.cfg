SPECIFICATION Spec
CONSTANTS
    a1 = a1
    a2 = a2
    r1 = r1
    Analyses <- TwoAnalyses
    Recordings = {}
    Configured = {}
    NoOp = NoOp
    MaxBoots = 2
    MaxKeys = 3
    MaxQueue = 2
INVARIANT
    InterruptedAreRenewed
CHECK_DEADLOCK FALSE
