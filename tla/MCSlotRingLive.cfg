CONSTANTS
    SlotCount = 2
    Capacity = 1
    MaxSequence = 4
    Readers = {consumer}
    Consumer = consumer
SPECIFICATION FairSpec
PROPERTY EverySequenceFlows
