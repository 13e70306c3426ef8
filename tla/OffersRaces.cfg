SPECIFICATION Spec
CONSTANTS
    Cases = {c1}
    Lawyers = {l1, l2}
    OfferIds = {o1, o2}
    Requests = {r1, r2}
    None = None
    NewStatuses = {"open"}
    OfferBodies = {"pending", "accepted"}
    CaseBodies <- NamingBodies
    Leaving = {l1, l2}
    AdminDeletes = TRUE
    RequestsFail = TRUE
SYMMETRY Symmetry
INVARIANTS IInv OneOfferPerLawyerAndCase AcceptedOfferWasWon AcceptanceToldAfterRecorded OffersCountBounded
PROPERTIES DecisionsStand
CHECK_DEADLOCK FALSE
