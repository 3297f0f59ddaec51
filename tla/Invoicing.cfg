\* Two invoices, two requests in progress: everything the invoices promise.
SPECIFICATION Spec
CONSTANTS
    None = None
    Contested = Contested
    p1 = p1
    p2 = p2
    i1 = i1
    i2 = i2
    Invoices = {i1, i2}
    Agents = {"a1"}
    Procs = {p1, p2}
    LineChoices <- SomeLines
    Amounts = {36, 40}
    Grain = 10
    RoundsUp <- Halves
    CreditLimit <- Limits
    Ops = {"create", "customer", "edit", "post", "cancel", "pay"}
    MaxRevisions = 2
SYMMETRY Symmetric
INVARIANTS
    TypeOK
    PaidInFull
    TotalsMatchLines
    CreditIsKept
PROPERTIES
    FirmInvoicesStayFirm
    LedgerSpec
CHECK_DEADLOCK FALSE
