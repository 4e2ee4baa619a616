SPECIFICATION Spec
CONSTANTS
    Users = {ann, bob}
    Keys = {k1, k2}
    Challenges = {h1, h2}
    Conns = {c1, c2}
    None = None
INVARIANTS
    OneFirstAdmin
    ChallengeServesOnce
    PendingCannotSignIn
PROPERTIES
    KeepsAPasskey
    EnabledByAdminOnly
    LastAdminIsLostOnlyByRace
SYMMETRY Symmetry
