SPECIFICATION Spec
CONSTANTS
    None = None
    NaN = NaN
    keyA = keyA
    keyB = keyB
    keyD = keyD
    NoVar = NoVar
INVARIANTS
    HoldsTheValues
    AnswersAreRight
CHECK_DEADLOCK FALSE
