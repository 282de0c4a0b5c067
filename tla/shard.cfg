SPECIFICATION Spec
ACTION_CONSTRAINT Serial
CONSTANTS
    None = None
    ta = ta
    tb = tb
    ka = ka
    kb = kb
    Node = {1, 2, 3}
    Self = 2
    Score = {0}
    Load <- MCLoad
    P2P_PEER_MAX = 2
    P2P_ROUTER_COUNT = 1
    StaticSeedsOnly = TRUE
    Thread <- MCThread
    Key <- MCKey
    KeyHash <- MCKeyHash
    Home <- MCHome
    P2P_SHARD_OWNER_CACHE_SIZE = 2
    RingSize = 1
SYMMETRY MCSymmetry
INVARIANTS
    EntryFound
    OneOwner
