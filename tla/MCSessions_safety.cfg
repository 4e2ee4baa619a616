SPECIFICATION Spec
CONSTANTS
    Tabs = {t1, t2}
    Ids = {i1, i2}
    Tokens = {k1, k2}
    None = None
INVARIANTS
    FormsFailOnlyAfterCookieLoss
PROPERTIES
    LiveCookieClearedOnlyByLateAnswer
    StuckUntilExpiry
SYMMETRY Symmetry
