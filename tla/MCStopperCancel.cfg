SPECIFICATION Spec
CONSTANTS
    app = app
    db = db
    helper = helper
    v = v
    w = w
    Containers = {app, db, helper}
    Volumes = {v, w}
    Helpers = {helper}
    Mounts <- MCMounts
    None = None
    FirstStates = {"running"}
    FirstTimes = {1}
    Now = 2
    OtherSteps = 0
INVARIANTS
    AlwaysRestarted
CHECK_DEADLOCK FALSE
