SPECIFICATION Spec
CONSTANTS
    Loggers = {t1, t2}
    Levels = {"info", "warn"}
    Capacity = 2
    MaxPending = 2
    RotateAt = 2
    DiskFaults = TRUE
    OpenFaults = TRUE
    MaxMessages = 4
    MaxTaps = 1
    MaxRestarts = 1
INVARIANTS
    AllAccountedFor
    OldestFirst
    BadgeCatchesUp
PROPERTIES
    KeepsRecent
