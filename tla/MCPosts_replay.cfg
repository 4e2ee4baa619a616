SPECIFICATION Spec
CONSTANTS
    PostIds = {1, 2}
    Users = {ann}
    Authors = {ann}
    Slugs = {s1, s2}
    Conns = {c1}
    None = None
    PerSecond = 1
    MaxTick = 0
    Retention = 1
PROPERTIES
    ReplayIsNoConflict
