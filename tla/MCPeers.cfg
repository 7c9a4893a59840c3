SPECIFICATION Spec
CONSTANTS
    Identities = {p1, p2, p3, p4}
    NumPeersSend = 3
    MinPeers = 2
    MaxPeers = 2
INVARIANTS
    TypeOK
    BoundedPeers
    SkipsOnlyBehindForgotten
PROPERTY
    GoneAreForgotten
CHECK_DEADLOCK FALSE
