SPECIFICATION Spec
CONSTANTS
    Users = {ann, bob}
    Images = {m1, m2, m3}
    Ids = {i1, i2, i3, i4, i5}
    Conns = {c1, c2}
    None = None
    UserQuota = 1
    TotalQuota = 1
    MaxLost = 1
INVARIANTS
    Deduplicated
    OverrunIsBounded
PROPERTIES
    ImplementsLibrary
    OkMeansInLibrary
    FilesAreLostOnlyByLostAnswer
SYMMETRY Symmetry
