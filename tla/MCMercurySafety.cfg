SPECIFICATION UsageSpec
CONSTANTS
    Users = {u1}
    Reconnect = Reconnect
    Sockets = {s1, s2, s3}
    MaxRetries = 1
    InitialMaxRetries = 0
    Cancels = FALSE
    None = None
SYMMETRY UsageSymmetry
INVARIANTS
    TypeOK
    ConnectedIsServed
    ConnectingHasAttempt
    OneConnection
    DisconnectedIsQuiet
\* A client that is disconnected, with no call in progress, has nothing to do.
CHECK_DEADLOCK FALSE
