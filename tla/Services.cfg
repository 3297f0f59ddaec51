SPECIFICATION Spec
CONSTANTS
    Users = {u1}
    Roles = {desk}
    SystemRoles = {}
    Admin = Admin
    page = page
    button = button
    Keys = {page, button}
    Above <- KeysAbove
    TTL = 1
    MaxTime = 1
    Guards = {g1}
    Edits = {e1, e2}
    None = None
    NoUser = NoUser
    Jobs = {j1, j2}
    Runs = {c1, c2}
    Hours = 1
    MaxMessages = 2
    Off = Off
    Drivers = {d1}
    Reps = {r1}
    n1 = n1
    Numbers = {n1, n2}
    Accounts = {a1, a2}
    Tasks = {t1, t2}
    NoAccount = NoAccount
    NoNumber = NoNumber
    egypt = egypt
    cairo = cairo
    luxor = luxor
    giza = giza
    Places = {egypt, cairo, luxor, giza}
    Parent <- LocationTree
    Level <- LocationLevel
    Root = Root
    LastLevel = 2
    Requests = {q1, q2}
    Chauffeurs = {d1}
    Vehicles = {v1, v2, v3}
    Assigners = {t1, t2}
INVARIANTS
    PermissionsTypeOK
    GrantsAreClosed
    NothingIsStale
    RemindersTypeOK
    NobodyIsRemindedTwice
    StaffTypeOK
    OneAccountEach
    RetiredAreOut
    LocationsTypeOK
    NoOrphans
    OnePrimary
PROPERTIES
    SentStaysSent
    EverybodyIsTried
CHECK_DEADLOCK FALSE
