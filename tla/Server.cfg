SPECIFICATION Spec
CONSTANTS
    Sockets = {s1, s2}
    Users = {u1, u2}
    None = None
    MaxConnections = 2
    MaxSignals = 2
INVARIANTS IInv RefusedUntouched DatabaseOutlastsClients
PROPERTIES Answered Stops
CHECK_DEADLOCK FALSE
