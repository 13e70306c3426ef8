SPECIFICATION Spec
CONSTANTS
    Cases = {c1, c2}
    Lawyers = {l1, l2}
    OfferIds = {o1, o2}
    Requests = {r1}
    None = None
    NewStatuses = {"completed", "cancelled"}
    OfferBodies = {"pending", "accepted"}
    CaseBodies <- FullBodies
    Leaving = {l1, l2}
    AdminDeletes = TRUE
    RequestsFail = FALSE
SYMMETRY Symmetry
INVARIANTS OneAcceptedOffer AcceptanceSettlesCase CaseFollowsAcceptance CountersAgree
PROPERTIES ImplementsHiring
CHECK_DEADLOCK FALSE
