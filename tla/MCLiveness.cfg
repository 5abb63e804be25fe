SPECIFICATION Spec
CONSTANTS
    None = None
    Uninit = Uninit
    Partial = Partial
    repA = repA
    repB = repB
    c1 = c1
    c2 = c2
    ka = ka
    NoVar = NoVar
PROPERTIES
    EventuallyConsistent
    ReplicasCatchUp
    NobodyWaitsForever
CHECK_DEADLOCK FALSE
