SPECIFICATION Spec
CONSTANTS
    PostIds = {1}
    Users = {ann}
    Authors = {}
    Slugs = {s1}
    Conns = {c1, c2}
    None = None
    PerSecond = 2
    MaxTick = 5
    Retention = 3
INVARIANTS
    NoSnapshotAfterDelete
    NewerIsCurrent
PROPERTIES
    DeletedStaysHidden
    DateIsLostOnlyByRace
SYMMETRY Symmetry
