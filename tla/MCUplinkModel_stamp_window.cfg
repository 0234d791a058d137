SPECIFICATION Spec
CONSTANTS
    Cars = {c1}
    NoCar = NoCar
    MaxRows = 3
    BatchSize = 2
    SqlFaults = {}
    MaxDrops = 0
    MaxMids = 20
    StampWindow = TRUE
    ConnectFaults = FALSE
    MaxSessions = 1
    MaxSeq = 1
    MaxEdits = 2
    MaxRestarts = 0
INVARIANT
    ConnectedIsReal
