SPECIFICATION ASpec
CONSTANTS
    v = v
    w = w
    Writers = {p, q}
    Volumes = {v, w}
    Foreign = Foreign
    None = None
    Project <- MCProject
    Projects <- MCProjects
INVARIANTS
    WTypeOK
    PartialOwned
    NothingLeftBehind
    OpenedIsWhole
    PublishedOpens
    SelectionRight
    UnpackedIsVerified
ACTION_CONSTRAINT WhenItMatters
SYMMETRY Symmetric
CHECK_DEADLOCK FALSE
