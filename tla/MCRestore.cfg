SPECIFICATION RSpec
CONSTANTS
    app = app
    db = db
    v = v
    w = w
    Volumes = {v, w}
    None = None
    FirstTimes = {1}
    Now = 2
    Containers = {app, db}
    Helpers = {}
    Mounts <- MCMounts
    FirstStates = {"running", "exited"}
    OtherSteps = 1
    VolumeSteps = 1
INVARIANTS
    RTypeOK
    RefusalChangesNothing
    HeldWhileRestored
    MixedOnlyByOthers
    RestoreExitTruth
    OutcomeIsTrue
PROPERTIES
    ImplementsStopper
SYMMETRY Symmetric
CHECK_DEADLOCK FALSE
