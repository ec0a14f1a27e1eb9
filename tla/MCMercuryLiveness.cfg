SPECIFICATION FairSpec
CONSTANTS
    Users = {u1}
    Reconnect = Reconnect
    Sockets = {s1, s2}
    MaxRetries = 1
    InitialMaxRetries = 0
    Cancels = TRUE
    None = None
PROPERTIES
    LossNoticed
    ReconnectEnds
    ImplementsConnection
\* A client that is disconnected, with no call in progress, has nothing to do.
CHECK_DEADLOCK FALSE
