SPECIFICATION Spec
CONSTANTS
    Plain = {p}
    Tracers = {t}
    Buffers = {b1, b2, b3}
    Conns = {n1, n2}
    SetCookies <- MCSetCookies
    MaxCalls = 2
    None = None
INVARIANTS
    TypeOK
    ResourcesAreAccountedFor
    JsonIsOwn
PROPERTY
    MergeKeepsCookies
SYMMETRY Symmetry
CHECK_DEADLOCK FALSE
