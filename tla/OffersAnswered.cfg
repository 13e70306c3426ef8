SPECIFICATION FairSpec
CONSTANTS
    Cases = {c1}
    Lawyers = {l1, l2}
    OfferIds = {o1, o2}
    Requests = {r1, r2}
    None = None
    NewStatuses = {"open"}
    OfferBodies = {"pending", "accepted"}
    CaseBodies <- PlainBodies
    Leaving = {}
    AdminDeletes = FALSE
    RequestsFail = FALSE
PROPERTIES RequestsEnd WonReachesCase
CHECK_DEADLOCK FALSE
