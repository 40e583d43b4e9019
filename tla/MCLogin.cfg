CONSTANTS
    u1 = u1
    b1 = b1
    r1 = r1
    r2 = r2
    n2 = n2
    id1 = id1
    User = {u1}
    Name = {n1, n2}
    Claims = {n1}
    Wishes <- NameAndDefault
    Instance = {i1}
    Gid = {g1}
    Alias = {a1}
    Pid = {p1}
    RowId = {id1}
    None = None
    Keep = Keep
    Browser = {b1}
    Owner <- TheOne
    Replica = {r1, r2}
    Offset <- OneAhead
    Skew = 1
    Call = {c1, c2}
    Secret = TRUE
    TTL = 2
    CookieTTL = 2
    MaxFlows = 2
    MaxSessions = 2
    MaxSettings = 1
    MaxRestarts = 1
    Horizon = 3
SPECIFICATION FairSpec
INVARIANTS LoginTypeOK LoginUnderstood
PROPERTIES SettingsKept AdmittedRightly KeptInTime RefusedChangesNothing StoreSpec EventuallyPurged
CHECK_DEADLOCK FALSE
