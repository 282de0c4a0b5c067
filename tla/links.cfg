SPECIFICATION FairSpec
CONSTANTS
    None = None
    P2P_PEER_MAX = 2
    Tcp <- MCTcp
    Scenes <- MCScenes
INVARIANTS
    SlotServed

    
CHECK_DEADLOCK FALSE
