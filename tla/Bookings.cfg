\* Two bookings, two requests and a checkout; the second number has a digit more.
SPECIFICATION Spec
CONSTANTS
    b1 = b1
    b2 = b2
    s1 = s1
    p1 = p1
    p2 = p2
    None = None
    Contested = Contested
    Bookings = {b1, b2}
    Sessions = {s1}
    Procs = {p1, p2}
    LastPadded = 1
INVARIANTS
    TypeOK
    DrivenOncePaid
    NumbersAreFresh
PROPERTIES
    PaymentsArrive
    LedgerSpec
CHECK_DEADLOCK FALSE
