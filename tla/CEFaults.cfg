SPECIFICATION CESpec
CONSTANTS
    MaxWritten = 3
    MaxChunk = 1
    MaxPeer = 2
    MaxWant = 2
    SyncEOF = FALSE
    HsRecords = 1
    MaxConnects = 2
    MaxGet = 1
    Thresholds = {0}
    Uses = {"tls", "clear", "upgrade"}
    Reuse = FALSE
    Faults = {"configure", "reject", "get", "put"}
    EOFReturns = {"zero", "connEOF"}
    ForwardOps = {"bind", "killGet"}
INVARIANTS
    NothingDangling
    ClearNeverMixes
PROPERTIES
    DrivesSendPath
    DrivesRecvPath
