CONSTANTS
    MayFault = FALSE
    MayTimeOut = FALSE
    OtherWaiter = FALSE
SPECIFICATION Spec
INVARIANT ReportedGroupExisted
CHECK_DEADLOCK FALSE
