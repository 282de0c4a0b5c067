SPECIFICATION Spec
CONSTANTS
    TOPIC_MAX_SUBS = 2
    TOPIC_RETAIN_MAX = 1
    c1 = c1
    c2 = c2
    t1 = t1
    t2 = t2
    w = w
    v = v
    None = None
    Empty = Empty
    Client <- MCClient
    Topic <- MCTopic
    Wild <- MCWild
    Match <- MCMatch
    Bucket <- MCBucket
    QoS = {0, 1}
    PubQoS = {1}
    Payload <- MCPayload
SYMMETRY MCSymmetry
INVARIANTS
    ListsExact
PROPERTY ImplementsMap
