SPECIFICATION NetSpec
CONSTANTS
    None = None
    Node = {1, 2, 3}
    Score = {0, 1}
    Load <- MCLoad
    P2P_PEER_MAX = 2
    P2P_ROUTER_COUNT = 0
    StaticSeedsOnly = FALSE
    NetMax = 1
VIEW MCView
INVARIANTS
    PeersUnique
    Agreement
