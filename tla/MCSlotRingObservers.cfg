CONSTANTS
    SlotCount = 1
    Capacity = 2
    MaxSequence = 3
    Readers = {consumer, observer1, observer2}
    Consumer = consumer
SPECIFICATION Spec
INVARIANTS
    UnacknowledgedCopyIsWhole
PROPERTIES
    OnlyAcknowledgedSlotsChange
