SPECIFICATION Spec
CONSTANTS
    Calls = {c1, c2}
    Uris = {k1, k2}
    Malformed = {}
    CacheEnabled = TRUE
    MaxPushes = 1
    None = None
\* A client with no call in progress has nothing to do.
CHECK_DEADLOCK FALSE
INVARIANT
    ReplyToPendingIsReadable
