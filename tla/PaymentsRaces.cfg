SPECIFICATION Spec
CONSTANTS
    Invoices = {i1, i2}
    Txns = {t1, t2}
    Requests = {r1, r2}
    None = None
    SendsPending = TRUE
    RequestsFail = TRUE
SYMMETRY Symmetry
INVARIANTS IInv PaymentExplained
PROPERTIES ImplementsSettlement
CHECK_DEADLOCK FALSE
