SPECIFICATION Spec
CONSTANTS
    v1 = v1
    v2 = v2
    Versions <- MCVersions
    Length <- MCLength
    MaxLength = 2
    Mirrors = 2
    Page = Page
    Hole = Hole
    NoDb = NoDb
    Cron = Cron
    Manual = Manual
    MaxManual = 1
INVARIANTS
    TypeOK
    ServesGenuine
    RestartServesTheSame
PROPERTIES
    KeepsServing
    FairWeatherKeepsTheFile
    ServesTheReleaseInTheEnd
