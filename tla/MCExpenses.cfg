CONSTANTS
    c1 = c1
    anna = anna
    None = None
    Caller = {c1, c2}
    Person = {anna}
    Me <- AllAnna
    Amount = {m1}
    LastDate = 2
    Split = {even, shares}
    Even = even
    Repeats = {FALSE}
    MaxExpenses = 3
    Window = 1
    PageSize = 1
    MaxPages = 2
    Limit = 1
    Filters = {None}
    Changes <- Moves
    Tools <- Reader
    Fails = TRUE
SPECIFICATION Spec
INVARIANTS ExpensesTypeOK CheckCatches UnfilteredComplete
PROPERTIES SplitKept
CHECK_DEADLOCK FALSE
