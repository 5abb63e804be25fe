SPECIFICATION Spec
CONSTANTS
    N = 3
    BASE = 4
    RDM_STEP = 2
    Elements = {1}
    NormalTypes = {"font"}
    BitmapTypes = {}
    Values = {0}
    Uninit = Uninit
    Rands = {0}
    MaxOps = 4
    None = None
INVARIANTS
    LengthsAgreeAtRest
CHECK_DEADLOCK FALSE
