SPECIFICATION Spec
CONSTANTS
    N = 2
    Automat = FALSE
    Faults = {"lose"}
    MaxConns = 1
    MaxCmds = 2
INVARIANTS
    NoFreedReplica
CHECK_DEADLOCK FALSE
