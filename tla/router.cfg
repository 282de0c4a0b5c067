SPECIFICATION Spec
CONSTANTS
    P2P_REMOTE_NODE_MAX = 2
    P2P_REMOTE_SUBS_PER_NODE = 2
    n1 = n1
    n2 = n2
    n3 = n3
    t1 = t1
    t2 = t2
    w = w
    None = None
    Deleted = Deleted
    Node <- MCNode
    Topic <- MCOneTopic
    Wild <- MCWild
    Match <- MCMatch
    Hash <- MCHash
SYMMETRY MCSymmetry
INVARIANTS
    TypeOK
    NoOrphanRoutes
    LookupComplete
    OneRoute
    NextHopsExact
