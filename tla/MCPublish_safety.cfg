SPECIFICATION Spec
CONSTANTS
    Procs = {p1, p2}
    Items = {i1}
    None = None
    PostLimit = 1
    MaxFaults = 3
INVARIANTS
    OutIsComplete
PROPERTIES
    SiteSurvives
    NothingMissing
    NothingHidden
SYMMETRY Symmetry
