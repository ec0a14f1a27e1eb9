SPECIFICATION FairSpec
CONSTANTS
    Calls = {c1, c2, c3}
    Ops = {"set_url", "connect", "get_key", "close"}
    None = None
INVARIANTS
    TypeOK
    NoLoopLeft
    OneCloser
    UrlInForce
PROPERTIES
    CloseEnds
    WaitersReleased
\* Once all calls have ended nothing happens any more.
CHECK_DEADLOCK FALSE
