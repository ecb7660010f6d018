SPECIFICATION Spec
CONSTANTS
    TicksPerSecond = 1
    Limits <- MCLimits
    Keys = {k1}
    MaxAsk = 2
    MaxOffset = 2
    NoAnswer = NoAnswer
    MaxTime = 1
    Calls = {c1, c2}
    Requests <- WholeBursts
    MaxRetries = 1
INVARIANTS
    TypeOK
    LimitHolds
    ChargedOncePerFailure
    AnswerMatchesCharge
    ErrorOnlyAfterFailure
PROPERTIES
    LateOnlyAfterFailure
    EveryCallReturns
