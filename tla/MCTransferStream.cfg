CONSTANTS
    Batches <- StreamBatches
    ReceiverWrites <- MCReceiverWrites
    MaxTransactions = 2
    MaxActive = 1
    MaxSequence = 4
    MayFail = TRUE
SPECIFICATION Spec
INVARIANT StreamIsGapless
CHECK_DEADLOCK FALSE
