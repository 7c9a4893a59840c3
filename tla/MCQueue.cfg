SPECIFICATION Spec
CONSTANTS
    Clients = {p1, p2, p3}
    NumPeersSend = 2
    MaxRound = 13
INVARIANT
    QueueHoldsRequests
CHECK_DEADLOCK FALSE
