CONSTANTS
    User = {u1, u2}
    Name = {n1}
    i1 = i1
    g1 = g1
    g2 = g2
    p1 = p1
    p2 = p2
    p3 = p3
    a1 = a1
    a2 = a2
    Instance = {i1}
    Gid = {g1, g2}
    Alias = {a1, g2}
    Pid = {p1, p2, p3}
    RowId = {r1, r2}
    Call = {c1, c2}
    None = None
    Tools = {"join", "create", "leave", "repin", "rename", "default"}
    Faults = {"lost", "readback", "db", "crash"}
    Founded <- OneGroup
    Candidates <- OneTry
SPECIFICATION Spec
SYMMETRY Symmetry
INVARIANTS ToolsTypeOK HeldRowsAreOwn PinsBelong
PROPERTY StoreSpec
CHECK_DEADLOCK FALSE
