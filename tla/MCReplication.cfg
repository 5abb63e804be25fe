SPECIFICATION MCSpec
CONSTANTS
    N = 3
    Automat = FALSE
    Faults = {"refuse", "error", "lose"}
    MaxConns = 3
    MaxCmds = 2
    Sizes = {1, 3, 4}
    MaxChunk = 6
    MaxOffset = 14
    None = None
    Partial = Partial
    repA = repA
    repB = repB
    c1 = c1
    c2 = c2
    NoVar = NoVar
INVARIANTS
    IInv
    FaithfulDelivery
    FedReplicasAgree
    NoWriteLost
    AckedIsProcessed
PROPERTIES
    WaitCountsRealCopies
CHECK_DEADLOCK FALSE
