SPECIFICATION FairSpec
CONSTANTS
    app = app
    db = db
    helper = helper
    v = v
    w = w
    Containers = {app, db, helper}
    Volumes = {v, w}
    Helpers = {helper}
    Mounts <- MCMounts
    None = None
    FirstStates = {"running", "exited"}
    FirstTimes = {1, 2}
    Now = 3
    OtherSteps = 1
INVARIANTS
    TypeOK
    OnlyUsersStopped
    VolumesHeld
    RestartedOrReported
    RevivesOnlyStopped
    StartOrderKept
PROPERTIES
    BroughtBack
CHECK_DEADLOCK FALSE
