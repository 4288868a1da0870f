CONSTANTS
    MayFault = TRUE
    MayTimeOut = TRUE
    OtherWaiter = TRUE
SPECIFICATION FairSpec
INVARIANTS
    TypeInv
    ReportedExitIsFinal
    ReportedTerminationIsTrue
    GroupSignalNeverStrays
PROPERTIES
    DroppedOwnerIsCleanedUp
    TerminateReturns
CHECK_DEADLOCK FALSE
