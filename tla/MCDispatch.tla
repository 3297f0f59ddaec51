----------------------------- MODULE MCDispatch -----------------------------
(* Values of the constants of Dispatch for TLC: small agendas and fleets. *)
EXTENDS Dispatch, TLC

CONSTANTS v1, d1, p1, p2, s1

Sched(day, service, flight, arrival, departure, pickUp) ==
    [day |-> day, service |-> service, flight |-> flight, arrival |-> arrival,
     departure |-> departure, pickUp |-> pickUp]

\* One arrival: the agenda plays no part.
OneArrival == {Sched(1, "ARR", "MS1", 10, NoTime, NoTime)}

\* Two arrivals on flights two hours apart, one exactly three hours after the first,
\* a departure whose pick-up makes it clash with the first, and an excursion.
Agenda ==
    {Sched(1, "ARR", "MS1", 10, NoTime, NoTime),
     Sched(1, "ARR", "MS2", 12, NoTime, NoTime),
     Sched(1, "ARR", "MS3", 13, NoTime, NoTime),
     Sched(1, "DEP", "MS4", NoTime, 17, 9),
     Sched(1, "EXCURSION", NoFlight, NoTime, NoTime, NoTime)}

SmallFleet == [v \in {v1} |-> 2]

Owned1 == [v \in {v1} |-> s1]

\* Requests on one job take turns where they would have to.
TurnsTaken ==
    /\ EditsAwaitBookings /\ RemovalsAwaitUpdates /\ UpdatesTakeTurns
    /\ ReassignmentsTakeTurns /\ ReportsTakeTurns

\* Bounds: no job has cash to collect, an edit changes the passengers only (the agenda has
\* a run of its own) and a reassignment the vehicle or the driver.
OneThing ==
    /\ \A j \in Jobs : job[j] # None => ~job[j].required
    /\ \A p \in Procs :
         /\ req[p].at = "edit" => req[p].cash = Keep /\ req[p].sched = Keep
         /\ req[p].at = "reassign_check" => Keep \in {req[p].vehicle, req[p].driver}

ProcSymmetry == Permutations({p1, p2})
=============================================================================
