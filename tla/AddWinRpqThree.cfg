SPECIFICATION Spec
CONSTANTS
    N = 3
    Elements = {1}
    AddValues = {1}
    IncValues = {10}
    Garbage = {0}
    None = None
    MaxOps = 4
INVARIANTS
    ScoresAgreeAtRest
CHECK_DEADLOCK FALSE
