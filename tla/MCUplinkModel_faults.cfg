SPECIFICATION Spec
CONSTANTS
    Cars = {c1, c2}
    NoCar = NoCar
    MaxRows = 2
    BatchSize = 2
    SqlFaults = {"append", "evict", "release", "peek", "power"}
    MaxDrops = 0
    MaxMids = 6
    StampWindow = FALSE
    ConnectFaults = TRUE
    MaxSessions = 1
    MaxSeq = 2
    MaxEdits = 1
    MaxRestarts = 1
INVARIANTS
    CountExact
    RowsTellSessions
    EnvelopeHasOneSession
PROPERTIES
    IsDurableOutbox
