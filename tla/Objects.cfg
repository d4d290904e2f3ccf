SPECIFICATION ClientSpec
CONSTANTS
    Obj = {o1, o2, o3, o4}
    Fourth = o4
    NIL = NIL
    Kinds = {"entropy", "ctrDrbg", "pk", "ssl", "session", "cache", "config", "crt", "crl"}
    Fields = {"bio", "sni", "timer", "verify"}
    InitialSlots = 1
    MaxDepth = 1
    KeepsLinked = TRUE
SYMMETRY ObjSymmetry
INVARIANTS
    NoDoubleFree
    NoStrayDestructor
    NothingLeftBehind
    NoDangling
CHECK_DEADLOCK FALSE
