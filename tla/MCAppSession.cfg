SPECIFICATION Spec
CONSTANTS
    u = u
    v = v
    e = e
    f = f
    Accounts <- Typed
    Attempts = {i1, i2}
    Requests = {r1, r2}
    None = None
SYMMETRY Sym
CHECK_DEADLOCK FALSE
INVARIANTS
    TypeOK
    AccountsAreDistinct
    CacheIsOwn
    RegistrationIsSeen
