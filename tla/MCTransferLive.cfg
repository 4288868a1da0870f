CONSTANTS
    Batches <- MCBatches
    ReceiverWrites <- MCReceiverWrites
    MaxTransactions = 2
    MaxActive = 2
    MaxSequence = 2
    MayFail = FALSE
SPECIFICATION FairSpec
PROPERTY MatchedTransfersComplete
CHECK_DEADLOCK FALSE
