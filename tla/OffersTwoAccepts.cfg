SPECIFICATION Spec
CONSTANTS
    Cases = {c1}
    Lawyers = {l1, l2}
    OfferIds = {o1, o2}
    Requests = {r1, r2}
    None = None
    NewStatuses = {}
    OfferBodies = {"pending"}
    CaseBodies <- PlainBodies
    Leaving = {}
    AdminDeletes = FALSE
    RequestsFail = FALSE
INVARIANTS OneAcceptedOffer
CHECK_DEADLOCK FALSE
