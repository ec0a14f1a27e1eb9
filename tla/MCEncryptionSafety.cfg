SPECIFICATION Spec
CONSTANTS
    Calls = {c1, c2}
    Uris = {k1, k2}
    Malformed = {}
    CacheEnabled = TRUE
    MaxPushes = 1
    None = None
SYMMETRY CallSymmetry
\* A client with no call in progress has nothing to do.
CHECK_DEADLOCK FALSE
INVARIANTS
    TypeOK
    KeyMatchesUri
    PendingOwned
    AwaitedIsRegistered
    AnswerCorrelated
    ExchangeExclusive
    FailedSessionGone
