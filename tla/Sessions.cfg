\* A browser and a phone of one user, two calls at a time.
SPECIFICATION Spec
CONSTANTS
    tab = tab
    phone = phone
    none = none
    c1 = c1
    c2 = c2
    Apps = {tab, phone}
    Phones = {phone}
    NoApp = none
    Calls = {c1, c2}
    MaxPairs = 2
INVARIANTS
    TypeOK
    OneRefreshServesAll
PROPERTIES
    CallsSettle
    WithdrawnMeansWithdrawn
    LoggedOutStaysOut
CHECK_DEADLOCK FALSE
