\* One job, one request at a time: cash handed in and then un-collected.
SPECIFICATION Spec
CONSTANTS
    NoTime = NoTime
    NoFlight = NoFlight
    None = None
    Keep = Keep
    v1 = v1
    d1 = d1
    p1 = p1
    p2 = p2
    s1 = s1
    Jobs = {j1}
    Vehicles = {v1}
    Drivers = {d1}
    Reps = {}
    Suppliers = {s1}
    Procs = {p1}
    Capacity <- SmallFleet
    OwnerOf <- Owned1
    Schedules <- OneArrival
    PaxCounts = {1}
    Roles = {"manager"}
    Ops = {"create", "assign", "reassign", "status", "driver", "collect", "liquidate", "lock", "clock"}
    MaxAssignments = 1
    LockTabs = {}
INVARIANTS
    LiquidatedCashWasCollected
CHECK_DEADLOCK FALSE
