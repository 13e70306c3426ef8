SPECIFICATION Spec
CONSTANTS
    Users = {u1}
    Emails = {e1}
    Passwords = {p1, p2}
    Tokens = {t1, t2}
    Resets = {k1}
    Requests = {r1, r2}
    None = None
    Paths = {"register_client"}
    NewRoles = {}
    Legacy = {}
    RequestsFail = TRUE
SYMMETRY Symmetry
INVARIANTS IInv SpentTokensRevoked CredentialsWork
CHECK_DEADLOCK FALSE
