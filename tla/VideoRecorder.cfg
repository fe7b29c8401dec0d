SPECIFICATION Spec
CONSTANTS
    r1 = r1
    r2 = r2
    s1 = s1
    s2 = s2
    Ids <- MCIds
    Sensors <- MCSensors
    Maint = Maint
    None = None
    Shared = {}
    MaxBlocks = 1
    MaxStops = 1
    MaxIncidents = 1
SYMMETRY Symmetry
INVARIANTS
    TypeOK
    RegistryAgrees
    
    
    
CHECK_DEADLOCK FALSE
