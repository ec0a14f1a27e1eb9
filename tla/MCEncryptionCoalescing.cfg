SPECIFICATION Spec
CONSTANTS
    Calls = {c1, c2, c3}
    Uris = {k1, bad}
    Malformed = {bad}
    CacheEnabled = TRUE
    MaxPushes = 1
    None = None
SYMMETRY CallSymmetry
\* A client with no call in progress has nothing to do.
CHECK_DEADLOCK FALSE
INVARIANT
    SingleFlight
PROPERTY
    NoRefetch
