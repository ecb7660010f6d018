SPECIFICATION Spec
CONSTANTS
    Messages = {m1, m2}
    Subscribers = {s1}
    Sizes <- MCSizes
    MaxRetries = 1
    MaxBreaks = 1
    None = None
INVARIANT
    TypeOK
PROPERTIES
    ImplementsBroadcast
    TransitIsHeard
CHECK_DEADLOCK FALSE
