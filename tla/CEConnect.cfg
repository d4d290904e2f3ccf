SPECIFICATION CEFairSpec
CONSTANTS
    MaxWritten = 3
    MaxChunk = 1
    MaxPeer = 3
    MaxWant = 2
    SyncEOF = FALSE
    HsRecords = 1
    MaxConnects = 2
    MaxGet = 2
    Thresholds = {0, 2}
    Uses = {"tls"}
    Reuse = TRUE
    Faults = {"configure", "reject", "get"}
    EOFReturns = {"connEOF"}
    ForwardOps = {}
INVARIANTS
    CompletionsMatchRequests
    AppDataConserved
    FreshConnection
    RunsOnLiveSession
PROPERTIES
    ConnectEnds
    GetEnds
