SPECIFICATION Spec
CONSTANTS
    Calls = {c1, c2}
    Ops = {"register"}
    MaxRetries = 0
    None = None
SYMMETRY DeviceSymmetry
INVARIANTS
    OneRegistration
\* Once all calls have ended nothing happens any more.
CHECK_DEADLOCK FALSE
