SPECIFICATION FairSpec
CONSTANTS
    MQTT_MAX_CLIENTS = 2
    SESSION_QUEUE_MAX = 1
    SESSION_SUB_MAX = 1
    CLIENT_INFLIGHT_MAX = 1
    TOPIC_MAX_SUBS = 2
    PID_MAX = 3
    a = a
    per = per
    f = f
    t = t
    NoId = NoId
    None = None
    ClientId <- MCClientId
    Filter <- MCFilter
    Topic <- MCTopic
    Match <- MCMatch
    Connects <- MCMixed
    PubQoS = {1}
    SubQoS = {1}
    MaxConn = 2
    MaxPub = 0
    ConnectsOf <- MCOften
CHECK_DEADLOCK FALSE
INVARIANTS
    ThreadOwnsSlot
    SubsHaveThread
    SessionKeysUnique
PROPERTIES
    WillFinal
    StoppedEnds
    WillPublished
