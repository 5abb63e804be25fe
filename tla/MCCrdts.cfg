SPECIFICATION MCSpec
CONSTANTS
    N = 3
    Elements = {1}
    AddValues = {1}
    IncValues = {10}
    MaxOps = 4
    None = None
    Uninit = Uninit
    NoVar = NoVar
INVARIANTS
    IInv
    CausalDelivery
    NoOpWaitsAtRest
    RemoveWinSemantics
    ShowsTheHistory
    OneTotalOrder
PROPERTIES
    InsertedWhereAsked
CHECK_DEADLOCK FALSE
