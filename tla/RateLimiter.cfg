SPECIFICATION Spec
CONSTANTS
    TicksPerSecond <- MCTicksPerSecond
    Limits <- MCLimits
    MaxOffset <- MCMaxOffset
    Keys = {k1}
    MaxAsk = 4
    MaxTime = 7
    NoAnswer = NoAnswer
INVARIANTS
    TypeOK
    WindowBound
    EntryOutlivesDebt
    RetryAfterExact
    RemainingExact
PROPERTY
    ImplementsLeakyBucket
