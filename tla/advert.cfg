SPECIFICATION AdvertSpec
ACTION_CONSTRAINT Serial
CONSTANTS
    TOPIC_MAX_SUBS = 3
    MESH_INGRESS_SUBS_PER_CLIENT = 2
    c1 = c1
    c2 = c2
    c3 = c3
    m1 = m1
    m2 = m2
    f1 = f1
    f2 = f2
    None = None
    Broker = Broker
    Client <- MCClient
    Mesh <- MCMesh
    Filter <- MCFilter
    MeshFilter <- MCMeshFilter
    QoS = {1, 2}
    BATCH = 2
    MaxResync = 1
SYMMETRY MCSymmetry
INVARIANTS
    AdvertHighest
    AdvertExact
    NoStaleAdvert
