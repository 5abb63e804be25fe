SPECIFICATION Spec
CONSTANTS
    N = 3
    Elements = {1}
    AddValues = {1, 2}
    IncValues = {10}
    None = None
    MaxOps = 4
INVARIANTS
    IInv
    StrongConvergence
    AlikeAtRest
    NoOrphanAtRest
PROPERTIES
    HistoryGrows
    ImplementsRemoveWin
CHECK_DEADLOCK FALSE
