SPECIFICATION FairSpec
CONSTANTS
    Offers <- MCOffers
    Known <- MCKnown
    HardMaximum <- MCHardMaximum
    Challenges = {c1, c2}
    Reasons = {1, 2}
INVARIANTS
    TypeInv
    CoordinatorReadyIsMutual
    ReceiverFollowsCoordinator
    RejectionsAreTrue
    ReadyIsWithinBothOffers
PROPERTIES
    UnreadyChildEnds
    NegotiationConcludes
CHECK_DEADLOCK FALSE
