SPECIFICATION Spec
CONSTANTS
    p1 = p1
    p2 = p2
    p3 = p3
    p4 = p4
    f1 = f1
    f2 = f2
    c1 = c1
    c2 = c2
    c3 = c3
    Processings <- MCProcessings
    Profiles <- MCProfiles
    Cards <- MCCards
    Idxs = {0, 1}
    MaxPerCard = 2
    NoAvailableCards = 99
    None = None
SYMMETRY Symmetry
INVARIANTS
    TypeOK
    NoFreedCardInProfileMap
    PointersAreLive
    UsedCardIsCharged
    LoadBounded
CHECK_DEADLOCK FALSE
