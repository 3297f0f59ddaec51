---------------------------- MODULE MCServices ----------------------------
(***************************************************************************)
(* The smaller services of the backend.  They share no state, so that what *)
(* one does says nothing about another: a behaviour picks one of them, and *)
(* the others rest in their initial state.                                 *)
(***************************************************************************)
EXTENDS Permissions, Reminders, Staff, Locations, DriverVehicles, TLC

CONSTANTS page, button, egypt, cairo, luxor, giza, n1

VARIABLE focus

KeysAbove == (page :> {}) @@ (button :> {page})
LocationTree == (egypt :> Root) @@ (cairo :> egypt) @@ (luxor :> egypt) @@ (giza :> cairo)
LocationLevel == (egypt :> 0) @@ (cairo :> 1) @@ (luxor :> 1) @@ (giza :> 2)

servicesVars == <<focus, permissionsVars, remindersVars, staffVars, locationsVars, vehiclesVars>>

Init ==
    /\ focus \in {"permissions", "reminders", "staff", "locations", "vehicles"}
    /\ PermissionsInit
    /\ RemindersInit
    /\ StaffInit /\ number = [p \in People |-> n1]
    /\ LocationsInit
    /\ VehiclesInit

Permissions ==
    /\ focus = "permissions" /\ PermissionsNext
    /\ UNCHANGED <<focus, remindersVars, staffVars, locationsVars, vehiclesVars>>

Reminders ==
    /\ focus = "reminders" /\ RemindersNext
    /\ UNCHANGED <<focus, permissionsVars, staffVars, locationsVars, vehiclesVars>>

Staff ==
    /\ focus = "staff" /\ StaffNext
    /\ UNCHANGED <<focus, permissionsVars, remindersVars, locationsVars, vehiclesVars>>

Locations ==
    /\ focus = "locations" /\ LocationsNext
    /\ UNCHANGED <<focus, permissionsVars, remindersVars, staffVars, vehiclesVars>>

DriverVehicles ==
    /\ focus = "vehicles" /\ VehiclesNext
    /\ UNCHANGED <<focus, permissionsVars, remindersVars, staffVars, locationsVars>>

Next == Permissions \/ Reminders \/ Staff \/ Locations \/ DriverVehicles

Spec == Init /\ [][Next]_servicesVars /\ RemindersFairness

=============================================================================
