SPECIFICATION Spec
CONSTANTS
    Keys = {k1, k2}
    Conns = {c1, c2}
    None = None
    Limit = 2
    Window = 2
    MaxKeys = 1
    Threshold = 3
    FailWindow = 2
    LockFor = 3
INVARIANTS
    WindowBound
    LockKeepsOut
PROPERTIES
    RoomIsTakenRecently
    LockEndsEarlyOnlyBySuccess
    RefusalsEnd
