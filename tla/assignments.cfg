CONSTANTS
    s1 = s1
    s2 = s2
    s1p0 = s1p0
    s2p0 = s2p0
    s2p1 = s2p1
    Streams <- MCStreams
    Elements <- MCElements
    StreamOf <- MCStreamOf
    keyToArrayIndex <- MCIndex
    SteadyStreams <- MCSteadyStreams
    myIndexInCluster = 0
    MaxBlock = 3
    MaxChanges = 2
SPECIFICATION FairSpec
INVARIANTS TypeOK AgreesWithChain ListenerMirrorsState
PROPERTIES ImplementsReplica Convergence
CHECK_DEADLOCK FALSE
