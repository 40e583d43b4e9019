CONSTANTS
    User = {u1, u2}
    Name = {n1}
    Instance = {i1, i2}
    Gid = {g1, g2}
    Alias = {a1, g1}
    Pid = {p1}
    RowId = {r1, r2, r3}
    None = None
SPECIFICATION StoreSpec
SYMMETRY Symmetry
INVARIANTS StoreTypeOK RowsUnique AliasWins DefaultIsOwn
PROPERTIES RowIdentity AccessSpec
CHECK_DEADLOCK FALSE
