\* One invoice: a draft that is posted after it was paid.
SPECIFICATION Spec
CONSTANTS
    None = None
    Contested = Contested
    p1 = p1
    p2 = p2
    i1 = i1
    i2 = i2
    Invoices = {i1}
    Agents = {"a1"}
    Procs = {p1, p2}
    LineChoices <- SomeLines
    Amounts = {60}
    Grain = 10
    RoundsUp <- Halves
    CreditLimit <- Limits
    Ops = {"create", "post", "pay"}
    MaxRevisions = 2
PROPERTY
    SettledIsFinal
CHECK_DEADLOCK FALSE
