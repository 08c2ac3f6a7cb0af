SPECIFICATION RivalsSpec
CONSTANTS
    app = app
    db = db
    v = v
    w = w
    Containers = {app, db}
    Volumes = {v, w}
    Helpers = {}
    Mounts <- MCMounts
    None = None
    FirstStates = {"running", "exited"}
    FirstTimes = {1}
    Now = 2
    OtherSteps = 4
INVARIANTS
    AllBack
    OnlyOurs
CHECK_DEADLOCK FALSE
