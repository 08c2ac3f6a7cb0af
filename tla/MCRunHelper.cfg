SPECIFICATION FairSpec
CONSTANTS
    Outputs = 2
    Inputs = 2
    Buffer = 2
INVARIANTS
    HTypeOK
    OkMeansComplete
    SuccessIsReported
    NoneOutlives
PROPERTIES
    CancelReturns
CHECK_DEADLOCK FALSE
