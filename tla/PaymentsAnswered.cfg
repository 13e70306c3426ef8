SPECIFICATION FairSpec
CONSTANTS
    Invoices = {i1}
    Txns = {t1, t2}
    Requests = {r1, r2}
    None = None
    SendsPending = FALSE
    RequestsFail = FALSE
INVARIANTS AnsweredSuccessSettles
PROPERTIES PaidPaymentSettles
CHECK_DEADLOCK FALSE
