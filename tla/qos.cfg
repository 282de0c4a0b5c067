SPECIFICATION FairSpec
CONSTANTS
    None = None
    Endpoint <- MCBoth
    INFLIGHT_MAX = 2
    QOS2_IN_MAX = 1
    PID_MAX = 2
    PeerPid = {1, 2}
    Loads <- MCLoads
    ChanMax = 3
CHECK_DEADLOCK FALSE
INVARIANTS
    InboundOnce
    OutboundOnce
    

    
