SPECIFICATION Spec
CONSTANTS
    Plain = {p}
    Tracers = {t}
    Buffers = {b1, b2, b3}
    Conns = {n1, n2}
    SetCookies <- MCSetCookies
    MaxCalls = 2
    None = None
INVARIANT
    BodyIsOwn
CHECK_DEADLOCK FALSE
