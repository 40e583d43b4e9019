CONSTANTS
    c1 = c1
    anna = anna
    None = None
    Caller = {c1}
    Person = {anna, bob}
    Me <- AllAnna
    Amount = {m1}
    LastDate = 0
    Split = {even}
    Even = even
    Repeats = {FALSE}
    MaxExpenses = 4
    Window = 1
    PageSize = 1
    MaxPages = 3
    Limit = 2
    Filters = {anna}
    Changes <- Moves
    Tools <- OnlyList
    Fails = FALSE
SPECIFICATION Spec
INVARIANT ListComplete
CHECK_DEADLOCK FALSE
