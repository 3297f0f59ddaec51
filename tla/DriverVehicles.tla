--------------------------- MODULE DriverVehicles ---------------------------
(***************************************************************************)
(* The vehicles a driver drives, one of them the primary.  A pair keeps    *)
(* its row when it is unassigned, and rows are unique by driver and        *)
(* vehicle: a pair that was unassigned is never assigned again.            *)
(***************************************************************************)

CONSTANTS
    Chauffeurs,     \* drivers
    Vehicles,
    Assigners       \* requests that can be in progress at once

VARIABLES
    pair,           \* driver_vehicles
    assigning,      \* assignVehicle, in progress
    crowded         \* history: drivers two requests assigned vehicles to at once

vehiclesVars == <<pair, assigning, crowded>>

NoAssignment == [at |-> "none"]

\* A pair has no row, is assigned as the primary or another vehicle, or was unassigned.
PairStates == {"never", "primary", "other", "ended"}

Assigns(s, d) == assigning[s] # NoAssignment /\ assigning[s].d = d

-----------------------------------------------------------------------------
AssignLoad(s, d, v, primary) ==
    /\ assigning[s] = NoAssignment
    /\ pair[d][v] \in {"never", "ended"}
    /\ assigning' = [assigning EXCEPT ![s] =
                       [at |-> IF primary THEN "unset" ELSE "create",
                        d |-> d, v |-> v, primary |-> primary]]
    /\ crowded' = IF \E o \in Assigners : Assigns(o, d) THEN crowded \cup {d} ELSE crowded
    /\ UNCHANGED pair

\* Mutant: the old primary is left as it is.
MutDemoted(state) == state

Demoted(state) == IF state = "primary" THEN "other" ELSE state

\* updateMany, before the row is created and without a transaction around both.
UnsetPrimary(s) ==
    /\ assigning[s].at = "unset"
    /\ pair' = [pair EXCEPT ![assigning[s].d] = [v \in Vehicles |-> Demoted(@[v])]]
    /\ assigning' = [assigning EXCEPT ![s].at = "create"]
    /\ UNCHANGED crowded

\* The row is unique, also when it was unassigned.
CreatePair(s) ==
    LET r == assigning[s] IN
    /\ r.at = "create"
    /\ pair[r.d][r.v] = "never"
    /\ pair' = [pair EXCEPT ![r.d][r.v] = IF r.primary THEN "primary" ELSE "other"]
    /\ assigning' = [assigning EXCEPT ![s] = NoAssignment]
    /\ UNCHANGED crowded

\* An error, also that of the unique key: what was unset stays so.
FailToAssign(s) ==
    /\ assigning[s] # NoAssignment
    /\ assigning' = [assigning EXCEPT ![s] = NoAssignment]
    /\ UNCHANGED <<pair, crowded>>

\* Its load and its update are of one row, which is not deleted.
Unassign(d, v) ==
    /\ pair[d][v] \in {"primary", "other"}
    /\ pair' = [pair EXCEPT ![d][v] = "ended"]
    /\ UNCHANGED <<assigning, crowded>>

VehiclesInit ==
    /\ pair = [d \in Chauffeurs |-> [v \in Vehicles |-> "never"]]
    /\ assigning = [s \in Assigners |-> NoAssignment]
    /\ crowded = {}

VehiclesNext ==
    \/ \E d \in Chauffeurs, v \in Vehicles :
        \/ \E s \in Assigners, primary \in BOOLEAN : AssignLoad(s, d, v, primary)
        \/ Unassign(d, v)
    \/ \E s \in Assigners : UnsetPrimary(s) \/ CreatePair(s) \/ FailToAssign(s)

VehiclesSpec == VehiclesInit /\ [][VehiclesNext]_vehiclesVars

-----------------------------------------------------------------------------
\* A driver has one primary vehicle at most, whatever is assigned, unassigned and fails half
\* way, unless two requests assigned vehicles to the driver at once.
OnePrimary ==
    \A d \in Chauffeurs \ crowded : \A v, w \in Vehicles :
        pair[d][v] = "primary" /\ pair[d][w] = "primary" => v = w

=============================================================================
