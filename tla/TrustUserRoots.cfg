SPECIFICATION MCSpec
CONSTANTS
    NULL = NULL
    BuiltIn <- MCBuiltIn
    UserTags = {"b", "u"}
    TagSize <- MCTagSize
    CertSizes = {2}
    WrongSizes = {}
    Hosts = {}
    Modes = {"none", "required"}
    Faults = {}
    MaxEdits = 2
    MaxConnections = 1
INVARIANT
    UserRootsLoaded
