SPECIFICATION TransportSpec
CONSTANTS
    MaxWritten = 5
    MaxChunk = 2
    MaxPeer = 4
    MaxWant = 3
    SyncEOF = FALSE
INVARIANTS
    NothingStranded
    NeverOverfetch
    NoLostWakeup
PROPERTIES
    QuietAfterError
    AllBytesTaken
    SendImplementsStream
    WaitEnds
    RecvImplementsStream
