\* One job, two requests that take turns where they have to: seats, reports, no-shows, deletion.
SPECIFICATION Spec
CONSTANTS
    NoTime = NoTime
    NoFlight = NoFlight
    None = None
    Keep = Keep
    v1 = v1
    d1 = d1
    p1 = p1
    p2 = p2
    s1 = s1
    Jobs = {j1}
    Vehicles = {v1}
    Drivers = {d1}
    Reps = {}
    Suppliers = {s1}
    Procs = {p1, p2}
    Capacity <- SmallFleet
    OwnerOf <- Owned1
    Schedules <- OneArrival
    PaxCounts = {2, 3}
    Roles = {"manager"}
    Ops = {"create", "assign", "reassign", "unassign", "edit", "status", "driver", "no_show", "remove"}
    MaxAssignments = 1
    LockTabs = {}
CONSTRAINTS
    TurnsTaken
    OneThing
SYMMETRY ProcSymmetry
INVARIANTS
    SeatsForEverybody
    DriverNoShowIsAccountedFor
    CompletedJobsRemain
PROPERTIES
    DriverReportsStand
CHECK_DEADLOCK FALSE
