SPECIFICATION Spec
CONSTANTS
    None = None
    NaN = NaN
    grpA = grpA
    conA = conA
    conB = conB
    rdA = rdA
    rdB = rdB
    keyA = keyA
    keyB = keyB
    keyC = keyC
    NoVar = NoVar
INVARIANTS
    HoldsTheData
    ReadsAgree
    OnceAndNotForgotten
CHECK_DEADLOCK FALSE
