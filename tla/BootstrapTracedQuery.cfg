SPECIFICATION Spec
CONSTANTS
    Configs <- MCConfigs
    Rereads <- MCRereads
    MaxRedis = 2
    MaxRuns = 2
    None = None
INVARIANT
    TracedQueriesAreLogged
CHECK_DEADLOCK FALSE
