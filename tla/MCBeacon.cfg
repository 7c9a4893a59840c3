SPECIFICATION Spec
CONSTANTS
    Clients = {p1, p2, p3}
    NumPeersSend = 2
    MaxRound = 13
INVARIANTS
    TypeOK
    ListedRecently
    NotifiedAreListed
CHECK_DEADLOCK FALSE
