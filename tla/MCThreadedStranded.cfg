SPECIFICATION Spec
CONSTANTS
    Calls = {c1, c2, c3}
    Ops = {"connect", "get_key", "close"}
    None = None
SYMMETRY ThreadedSymmetry
INVARIANTS
    NobodyStranded
\* Once all calls have ended nothing happens any more.
CHECK_DEADLOCK FALSE
