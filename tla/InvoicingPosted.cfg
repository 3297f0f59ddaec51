\* One invoice: an edit of a draft that is posted meanwhile.
SPECIFICATION Spec
CONSTANTS
    None = None
    Contested = Contested
    p1 = p1
    p2 = p2
    i1 = i1
    i2 = i2
    Invoices = {i1}
    Agents = {"a1"}
    Procs = {p1, p2}
    LineChoices <- SomeLines
    Amounts = {36, 40}
    Grain = 10
    RoundsUp <- Halves
    CreditLimit <- Limits
    Ops = {"create", "edit", "post"}
    MaxRevisions = 2
PROPERTY
    PostedIsImmutable
CHECK_DEADLOCK FALSE
