SPECIFICATION VFairSpec
CONSTANTS
    Outputs = 3
    Buffer = 2
INVARIANTS
    VTypeOK
    StreamIsWhole
PROPERTIES
    ImplementsVolumeCall
    VolumeReturns
CHECK_DEADLOCK FALSE
