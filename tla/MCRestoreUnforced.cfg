SPECIFICATION RSpec
CONSTANTS
    app = app
    db = db
    v = v
    w = w
    Volumes = {v, w}
    None = None
    FirstTimes = {1}
    Now = 2
    Containers = {app}
    Helpers = {}
    Mounts <- MCMountsOne
    FirstStates = {"running", "exited"}
    OtherSteps = 1
    VolumeSteps = 0
INVARIANTS
    UnforcedOnlyEmpty
CHECK_DEADLOCK FALSE
