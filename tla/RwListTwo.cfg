SPECIFICATION Spec
CONSTANTS
    N = 2
    BASE = 4
    RDM_STEP = 2
    Elements = {1}
    Types = {"font"}
    Values = {0, 1}
    Rands = {0}
    MaxOps = 4
    None = None
INVARIANTS
    ListsAgreeAtRest
CHECK_DEADLOCK FALSE
