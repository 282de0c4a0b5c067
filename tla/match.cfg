SPECIFICATION MCSpec
CONSTANTS
    None = None
    FilterLength = 4
    TopicLength = 4
    Functions = {"topic", "broker", "router", "peer"}
    Filters <- MCFilters
    Topics <- MCTopics
    P2P_SHARD_KEY_LEVELS = 2
    BodyLength = 7
    Half = 4
    STR_MAX = 3
    PAYLOAD_MAX = 3
    PACKET_MAX = 18
    OUT_MAX = 12
    TOPICS_MAX = 1
    Proto <- MCProto
    ProtoLevel = 4
    ConnectFlags <- MCConnectFlags
    Wild = {2}
    Packets <- MCPackets
CHECK_DEADLOCK FALSE
INVARIANTS
    PointersInBounds
    Sound
    Complete
    SameShard
    ParsedExactly
    RelayedIntact
