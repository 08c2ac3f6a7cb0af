SPECIFICATION BSpec
CONSTANTS
    app = app
    db = db
    helperC = helperC
    v = v
    w = w
    Volumes = {v, w}
    Self = Self
    Foreign = Foreign
    None = None
    FirstTimes = {1}
    Now = 2
    Containers = {app, db, helperC}
    Helpers = {helperC}
    Mounts <- MCMounts
    FirstStates = {"running"}
    OtherSteps = 1
INVARIANTS
    BTypeOK
    TornOnlyByOthers
    ExitTellsTruth
    NoArchiveOnError
    HeldWhileRead
PROPERTIES
    ImplementsStopper
    ImplementsWriter
    ImplementsVolumeCall
CHECK_DEADLOCK FALSE
