SPECIFICATION Spec
CONSTANTS
    Calls = {c1, c2, c3, c4}
    Ops = {"register", "unregister", "refresh", "wait", "callback"}
    MaxRetries = 1
    None = None
SYMMETRY DeviceSymmetry
INVARIANTS
    TypeOK
    NoMissedRegistration
    DeviceAlive
    NoStrayDevice
\* A client with no call in progress has nothing to do.
CHECK_DEADLOCK FALSE
