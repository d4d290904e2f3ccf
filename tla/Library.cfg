\* The calendar stops after its last day, the timer after MaxWait.
SPECIFICATION LibSpec
CONSTANTS
    Objs = {o}
    Data = {d1, d2}
    NOTBINARY = NOTBINARY
    MaxCalls = 3
    CertSize <- MCCertSize
    LongTexts = {"c2"}
    Indices <- MCIndices
    Lengths = {0, 2, 3}
    MaxChain = 3
    Zones <- MCZones
    NOZONE = NOZONE
    Garbage <- MCGarbage
    LastDay = 49709
    Wrap = 16
    Delays = {0, 1, 3, 5}
    MaxWait = 20
    Handlers = {"hpol", "ggmt", "gcrt"}
    GestaltFails = TRUE
INVARIANTS
    PointersPinned
    AccessorExact
    CalendarExact
    TimerExact
    HandlersSound
CHECK_DEADLOCK FALSE
