SPECIFICATION Spec
CONSTANTS
    Procs = {p1, p2}
    Stamps = {1, 2, 3, 4, 5, 6}
    JobKeys = {cleanup}
    MaxAttempts = 2
    MaxTries = 2
    AttemptsCap = 2
    NoStamp = NoStamp
    NoJob = NoJob
    Recurring = {cleanup}
PROPERTIES
    ClaimIsAtomic
