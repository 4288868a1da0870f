CONSTANTS
    Leases = {l1, l2, l3}
    MaxRegions = 2
    MaxBytes = 3
    Batches <- MCBatches
SPECIFICATION FairSpec
INVARIANTS
    TypeInv
    MappedWithinBudget
    NothingLeaksBetweenCalls
    ClosedMeansReleased
    FactsNeverStaleLow
PROPERTIES
    ReleasedSessionCloses
CHECK_DEADLOCK FALSE
