SPECIFICATION Spec
CONSTANTS
    Configs <- MCConfigs
    Rereads <- MCRereads
    MaxRedis = 2
    MaxRuns = 2
    None = None
INVARIANTS
    TypeOK
    PanicsHaveReasons
    ReadyMeansConnected
    IndexesMeanEntries
    UpdateIsScheduled
    
CHECK_DEADLOCK FALSE
