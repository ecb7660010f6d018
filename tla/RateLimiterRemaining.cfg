SPECIFICATION Spec
CONSTANTS
    TicksPerSecond <- MCTicksPerSecond
    Limits <- MCLimits
    MaxOffset <- MCMaxOffset
    Keys = {k1}
    MaxAsk = 4
    MaxTime = 9
    NoAnswer = NoAnswer
INVARIANT
    RemainingAlwaysExact
