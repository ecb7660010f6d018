SPECIFICATION Spec
SYMMETRY MCSymmetry
CONSTANTS
    Requests = {r1, r2}
    Contexts = {x1}
    Fields <- MCFields
    Sonic = FALSE
    None = None
INVARIANTS
    TypeOK
    AnsweredOnce
    LogTellsWhatHappened
    BindingsTellWhy
    ListensAsConfigured
CHECK_DEADLOCK FALSE
