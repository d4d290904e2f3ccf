SPECIFICATION MCFairSpec
CONSTANTS
    NULL = NULL
    BuiltIn <- MCBuiltIn
    UserTags = {"b", "u"}
    TagSize <- MCTagSize
    CertSizes = {0, 2}
    WrongSizes = {1}
    Hosts = {h1, h2}
    Modes = {"none", "required"}
    Faults = {"seed", "list", "store", "parse"}
    MaxEdits = 2
    MaxConnections = 2
INVARIANTS
    RootsAsDocumented
    CAReplacesRoots
    NameAsGiven
    HeapRestored
PROPERTY
    LoadEnds
