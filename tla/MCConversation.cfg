SPECIFICATION FairSpec
CONSTANTS
    Events = {e1, e2}
    k1 = k1
    raw = raw
    h1 = h1
    h2 = h2
    Keys = {k1}
    RawHandlers = {raw}
    Handlers = {h1, h2}
    Frames <- MCFrames
    Topic <- MCTopic
    Registered = {raw, h1, h2}
    Changing = {h2, "conversation.activity"}
    Copied = {e1}
    Internal = Internal
    None = None
INVARIANTS
    TypeOK
    InOrder
PROPERTIES
    PlaintextStays
    KeyAlongsideIsUsed
    EveryActivityHandled
\* When all events have arrived and been handled there is nothing left to do.
CHECK_DEADLOCK FALSE
