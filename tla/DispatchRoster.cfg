\* Two jobs, one request at a time: the agenda of a rep.
SPECIFICATION Spec
CONSTANTS
    NoTime = NoTime
    NoFlight = NoFlight
    None = None
    Keep = Keep
    v1 = v1
    d1 = d1
    p1 = p1
    p2 = p2
    s1 = s1
    Jobs = {j1, j2}
    Vehicles = {v1}
    Drivers = {}
    Reps = {r1}
    Suppliers = {s1}
    Procs = {p1}
    Capacity <- SmallFleet
    OwnerOf <- Owned1
    Schedules <- Agenda
    PaxCounts = {1}
    Roles = {"manager"}
    Ops = {"create", "assign", "reassign", "unassign", "edit", "toggle"}
    MaxAssignments = 2
    LockTabs = {}
INVARIANTS
    RepsKeepTheGap
CHECK_DEADLOCK FALSE
