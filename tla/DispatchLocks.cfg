\* One job, two requests in progress, the calendar and the locks.
SPECIFICATION Spec
CONSTANTS
    NoTime = NoTime
    NoFlight = NoFlight
    None = None
    Keep = Keep
    v1 = v1
    d1 = d1
    p1 = p1
    p2 = p2
    s1 = s1
    Jobs = {j1}
    Vehicles = {v1}
    Drivers = {d1}
    Reps = {r1}
    Suppliers = {s1}
    Procs = {p1, p2}
    Capacity <- SmallFleet
    OwnerOf <- Owned1
    Schedules <- OneArrival
    PaxCounts = {1}
    Roles = {"dispatcher"}
    Ops = {"create", "assign", "driver", "rep", "no_show", "collect", "liquidate", "supplier", "lock", "clock"}
    MaxAssignments = 1
    LockTabs = {"driver"}
SYMMETRY ProcSymmetry
PROPERTIES
    SealedJobsStayQuiet
CHECK_DEADLOCK FALSE
