\* Both parts stop at their bounds.
SPECIFICATION TaskFairSpec
CONSTANTS
    Faults = {"deregisterNIE", "saveName", "registerOurs", "deregisterOurs", "restoreNIE", "registerSingleton"}
    MaxObjects = 3
    NIL = NIL
    MaxSamples = 4
    MaxSeeds = 1
    MaxTimers = 2
    Batch = 3
    Limits = {1, 9}
    DefaultLimit = 9
    Gather = 1
    StoreFaults = TRUE
    Tools = {c1, c2}
    Newt = newt
    Services = {"hardwarePoll", "nvSeedWrite", "getRootCertificate"}
    Throws = TRUE
INVARIANTS
    NIERestored
    OursNeedsPackage
    SavedIsReplaced
    EntropyUsedOnce
    CollectorAlive
    EventsHaveOwners
PROPERTIES
    TLSBecomesAvailable
    CallsEnd
CHECK_DEADLOCK FALSE
