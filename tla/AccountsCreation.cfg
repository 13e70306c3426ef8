SPECIFICATION Spec
CONSTANTS
    Users = {u1, u2, u3}
    Emails = {e1, e2}
    Passwords = {p1}
    Tokens = {t1}
    Resets = {}
    Requests = {r1, r2}
    None = None
    Paths = {"createClient", "createAdmin"}
    NewRoles = {"lawyer"}
    Legacy = {u1}
    RequestsFail = TRUE
SYMMETRY Symmetry
INVARIANTS OneAccountPerEmail ProfilesComplete
CHECK_DEADLOCK FALSE
