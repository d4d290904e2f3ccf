SPECIFICATION CEFairSpec
CONSTANTS
    MaxWritten = 3
    MaxChunk = 1
    MaxPeer = 2
    MaxWant = 2
    SyncEOF = FALSE
    HsRecords = 1
    MaxConnects = 1
    MaxGet = 1
    Thresholds = {0}
    Uses = {"clear", "upgrade"}
    Reuse = FALSE
    Faults = {"reject"}
    EOFReturns = {"connEOF"}
    ForwardOps = {}
PROPERTIES
    UpgradeEnds
