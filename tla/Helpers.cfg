SPECIFICATION Spec
CONSTANTS
    a = a
    b = b
    c = c
    A1 = A1
    A2 = A2
    A3 = A3
    T1 = T1
    T2 = T2
    Nil = Nil
    None = None
    Vars = {a, b, c}
    Arrays = {Nil, A1, A2, A3}
    Values = {1, 2, 3}
    KeyFunc <- MCKeyFunc
    Types = {T1, T2}
    Fields <- MCFields
    Tags <- MCTags
    Spares = {0, 1}
    Memories <- MCMemories
    MaxCalls = 2
CHECK_DEADLOCK FALSE
PROPERTIES MergeIsRight InPlaceHelpersAreRight AssignGoesByTheFirstTag
