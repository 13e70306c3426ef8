SPECIFICATION Spec
CONSTANTS
    Rows = {d1, d2, d3}
    Limits = {1, 2}
    DefaultLimit = 1
    Client = client
    Admin = admin
    Lawyers = {l1, l2}
    PageSize = 1
    MaxMessages = 2
    ReviewIds = {v1, v2}
    Reviewed = {k1, k2}
    MaxTotal = 2
    Requests = {r1, r2}
    None = None
    RequestsFail = TRUE
SYMMETRY Symmetry
INVARIANTS IInv ReadWasShown TotalExplained WalkComplete WalkShowsOnce
CHECK_DEADLOCK FALSE
