SPECIFICATION Spec
CONSTANTS
    Requests = {r1, r2}
    None = None
    RequestsFail = TRUE
    RedisFails = TRUE
SYMMETRY Symmetry
INVARIANTS IInv StaleExplained
CHECK_DEADLOCK FALSE
