SPECIFICATION FairSpec
CONSTANTS
    p1 = p1
    p2 = p2
    f1 = f1
    f2 = f2
    c1 = c1
    c2 = c2
    u1 = u1
    Processings <- Two
    Profiles <- MCProfiles
    Cards <- MCCards
    Urls = {u1}
    Idxs = {0}
    MaxPerCard = 2
    NoAvailableCards = 99
    None = None
INVARIANTS
    TypeOK
    AtMostOneStart
    RunningHoldsCard
    OutcomeIsPending
    RunningIsComplete
    AtMostOneExtraRelease
PROPERTY
    UsesBalancer
    StartIsReported
CHECK_DEADLOCK FALSE
