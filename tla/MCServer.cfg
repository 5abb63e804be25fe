SPECIFICATION Spec
CONSTANTS
    None = None
    c1 = c1
    c2 = c2
    c3 = c3
    k1 = k1
    k2 = k2
    k3 = k3
    ka = ka
    kb = kb
    v1 = v1
    v2 = v2
    pa = pa
    ch = ch
    NoVar = NoVar
INVARIANTS
    IterationsComplete
    BlockedStateAgrees
    ReplicaFollowsMaster
    NoLostUpdate
    
    EvictionIsSound
PROPERTIES
    ImplementsKeySet
    FirstBlockedFirstServed
CHECK_DEADLOCK FALSE
