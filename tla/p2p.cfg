SPECIFICATION FairSpec
CONSTANTS
    None = None
    a = a
    b = b
    c = c
    top = top
    Node <- MCNode
    Topic <- MCTopic
    P2P_SEEN_MAX = 2
    SeenHash <- MCHash
    P2P_PENDING_QOS_MAX = 2
    Scenes <- MCScenes
CHECK_DEADLOCK FALSE
INVARIANTS
    RoutesExact
    Delivered
    DeliveredOnce
    
PROPERTIES
    Quiesces
    PendingSent
