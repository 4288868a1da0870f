CONSTANTS
    Batches <- MCBatches
    ReceiverWrites <- MCReceiverWrites
    MaxTransactions = 2
    MaxActive = 2
    MaxSequence = 2
    MayFail = TRUE
SPECIFICATION Spec
INVARIANTS
    TypeInv
    OneWriter
    ActiveRegionsAreSealed
    NothingHeldBetweenCalls
    ReadySessionsAgree
PROPERTIES
    PoisonBeforeRelease
    RefinesAgreement
CHECK_DEADLOCK FALSE
