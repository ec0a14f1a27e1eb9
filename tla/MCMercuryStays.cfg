SPECIFICATION Spec
CONSTANTS
    Users = {u1}
    Reconnect = Reconnect
    Sockets = {s1, s2}
    MaxRetries = 1
    InitialMaxRetries = 1
    Cancels = FALSE
    None = None
SYMMETRY MercurySymmetry
INVARIANTS
    StaysDisconnected
\* A client that is disconnected, with no call in progress, has nothing to do.
CHECK_DEADLOCK FALSE
