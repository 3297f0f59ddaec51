\* One job, two requests in progress: what survives every interleaving.
SPECIFICATION Spec
CONSTANTS
    NoTime = NoTime
    NoFlight = NoFlight
    None = None
    Keep = Keep
    v1 = v1
    d1 = d1
    p1 = p1
    p2 = p2
    s1 = s1
    Jobs = {j1}
    Vehicles = {v1}
    Drivers = {d1}
    Reps = {r1}
    Suppliers = {s1}
    Procs = {p1, p2}
    Capacity <- SmallFleet
    OwnerOf <- Owned1
    Schedules <- OneArrival
    PaxCounts = {1}
    Roles = {"dispatcher", "manager"}
    Ops = {"create", "assign", "unassign", "status", "driver", "rep", "no_show", "fee"}
    MaxAssignments = 2
    LockTabs = {}
SYMMETRY ProcSymmetry
INVARIANTS
    TypeOK
    NoAssignedJobIsPending
    OneGeneratedFee
    LogsKeepTheirAssignment
    NoShowIsEvidenced
CHECK_DEADLOCK FALSE
