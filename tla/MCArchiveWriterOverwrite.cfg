SPECIFICATION WSpec
CONSTANTS
    Writers = {p, q}
    Volumes = {v, w}
    Foreign = Foreign
    None = None
PROPERTIES
    NeverOverwrites
CHECK_DEADLOCK FALSE
