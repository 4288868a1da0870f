CONSTANTS
    SlotCount = 2
    Capacity = 2
    MaxSequence = 5
    Readers = {consumer}
    Consumer = consumer
SPECIFICATION Spec
INVARIANTS
    TypeInv
PROPERTIES
    RefinesMailbox
