SPECIFICATION FairSpec
CONSTANTS
    Calls = {c1, c2}
    Uris = {k1, k2}
    Malformed = {}
    CacheEnabled = TRUE
    MaxPushes = 0
    None = None
\* A client with no call in progress has nothing to do.
CHECK_DEADLOCK FALSE
PROPERTIES
    EveryCallEnds
    ImplementsKeyRetrieval
