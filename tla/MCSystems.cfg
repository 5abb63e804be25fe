SPECIFICATION Spec
CONSTANTS
    None = None
    sentA = sentA
    sentB = sentB
    sentC = sentC
    redisA = redisA
    redisB = redisB
    redisC = redisC
    nodeA = nodeA
    nodeB = nodeB
    nodeM = nodeM
    nodeR = nodeR
    nodeQ = nodeQ
    keyA = keyA
    keyB = keyB
    cliA = cliA
    NoVar = NoVar
INVARIANTS
    LogIsData
    OneLeaderPerEpoch
    ClusterAgrees
    NothingLost
PROPERTIES
    MovesForward
CHECK_DEADLOCK FALSE
