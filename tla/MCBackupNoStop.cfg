SPECIFICATION BSpec
CONSTANTS
    app = app
    db = db
    helperC = helperC
    v = v
    w = w
    Volumes = {v, w}
    Self = Self
    Foreign = Foreign
    None = None
    FirstTimes = {1}
    Now = 2
    Containers = {app}
    Helpers = {}
    Mounts <- MCMountsOne
    FirstStates = {"exited"}
    OtherSteps = 1
INVARIANTS
    TornIsMarked
CHECK_DEADLOCK FALSE
