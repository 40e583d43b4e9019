CONSTANTS
    User = {u1}
    Name = {n1}
    i1 = i1
    g1 = g1
    g2 = g2
    p1 = p1
    p2 = p2
    p3 = p3
    a1 = a1
    a2 = a2
    Instance = {i1}
    Gid = {g1}
    Alias = {a1}
    Pid = {p1, p2, p3}
    RowId = {r1, r2}
    Call = {c1, c2}
    None = None
    Tools = {"join", "edit", "spliit"}
    Faults = {}
    Founded <- OneGroup
    Candidates <- OneTry
SPECIFICATION Spec
SYMMETRY Symmetry
PROPERTY SpentStay
CHECK_DEADLOCK FALSE
