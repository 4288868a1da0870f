SPECIFICATION FairSpec
CONSTANTS
    MaxLeases = 2
INVARIANTS
    TypeInv
    ClosedMeansReaped
    OnlyGivingUpKills
    CloseNeverFails
    MappingsAreTold
PROPERTIES
    RetriedCloseCompletes
    AbandonedChildEnds
CHECK_DEADLOCK FALSE
