CONSTANTS
    signed = signed
    opaque = opaque
    silent = silent
    foreign = foreign
    None = None
    Token = {signed, opaque, silent, foreign}
    Request = {r1, r2}
    Jwt = {signed}
    Fit = {signed, opaque, silent}
    Expiry <- Expiries
    HasJwks = TRUE
    HasIntrospection = TRUE
    KeysFail = TRUE
    Cap = 1
    Timeout = 1
    MaxEntries = 1
    Horizon = 3
SPECIFICATION Spec
SYMMETRY Symmetry
INVARIANTS TypeOK NoExpiredAccepted RevocationNoticed CacheBounded RejectedForCause
CHECK_DEADLOCK FALSE
