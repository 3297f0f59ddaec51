------------------------------ MODULE JobRules ------------------------------
(***************************************************************************)
(* The constant tables and pure checks that the job handlers of            *)
(* backend/src share: which status may follow which, for the office and    *)
(* for the two portals, and when two jobs are too close together for one   *)
(* representative.                                                         *)
(***************************************************************************)
EXTENDS Integers

CONSTANTS
    NoTime,     \* a time column that is NULL
    NoFlight    \* a job without a flight row, or a flight without a number

JobStatus == {"PENDING", "ASSIGNED", "IN_PROGRESS", "COMPLETED", "CANCELLED", "NO_SHOW"}

PortalStatus == {"PENDING", "IN_PROGRESS", "COMPLETED", "CANCELLED", "NO_SHOW"}

Terminal == {"COMPLETED", "CANCELLED", "NO_SHOW"}

\* Mutant: the office takes an assigned job back to PENDING.
MutValidTransitions ==
    [PENDING     |-> {"ASSIGNED", "CANCELLED"},
     ASSIGNED    |-> {"PENDING", "IN_PROGRESS", "CANCELLED", "NO_SHOW"},
     IN_PROGRESS |-> {"COMPLETED", "CANCELLED", "NO_SHOW"},
     COMPLETED   |-> {},
     CANCELLED   |-> {},
     NO_SHOW     |-> {}]

\* What the office may set next (VALID_TRANSITIONS).
ValidTransitions ==
    [PENDING     |-> {"ASSIGNED", "CANCELLED"},
     ASSIGNED    |-> {"IN_PROGRESS", "CANCELLED", "NO_SHOW"},
     IN_PROGRESS |-> {"COMPLETED", "CANCELLED", "NO_SHOW"},
     COMPLETED   |-> {},
     CANCELLED   |-> {},
     NO_SHOW     |-> {}]

\* Mutants: a no-show without the endpoint of its own, and a report taken back.
MutNoShowTransitions ==
    [PENDING     |-> {"IN_PROGRESS", "COMPLETED", "CANCELLED", "NO_SHOW"},
     IN_PROGRESS |-> {"COMPLETED", "CANCELLED", "NO_SHOW"},
     COMPLETED   |-> {},
     CANCELLED   |-> {},
     NO_SHOW     |-> {}]

MutReopenTransitions ==
    [PENDING     |-> {"IN_PROGRESS", "COMPLETED", "CANCELLED"},
     IN_PROGRESS |-> {"COMPLETED", "CANCELLED"},
     COMPLETED   |-> {"IN_PROGRESS"},
     CANCELLED   |-> {},
     NO_SHOW     |-> {}]

\* What a driver may set next; NO_SHOW has an endpoint of its own.
DriverTransitions ==
    [PENDING     |-> {"IN_PROGRESS", "COMPLETED", "CANCELLED"},
     IN_PROGRESS |-> {"COMPLETED", "CANCELLED"},
     COMPLETED   |-> {},
     CANCELLED   |-> {},
     NO_SHOW     |-> {}]

\* What a rep may set next. A rep never is IN_PROGRESS; the lookup of a status
\* without an entry falls back to the empty list in the code.
RepTransitions ==
    [PENDING     |-> {"COMPLETED", "CANCELLED"},
     IN_PROGRESS |-> {},
     COMPLETED   |-> {},
     CANCELLED   |-> {},
     NO_SHOW     |-> {}]

-----------------------------------------------------------------------------
(***************************************************************************)
(* Schedules.  A time is a number of hours or NoTime.                      *)
(***************************************************************************)

Hours == Nat \cup {NoTime}

\* The time a job is reckoned from: arrivals by the landing, departures by the
\* pick-up or else the take-off, everything else has none.
JobReferenceTime(s) ==
    IF s.service = "ARR" THEN s.arrival
    ELSE IF s.service = "DEP"
         THEN IF s.pickUp # NoTime THEN s.pickUp ELSE s.departure
         ELSE NoTime

SameFlight(s, t) ==
    /\ s.flight # NoFlight
    /\ s.flight = t.flight
    /\ JobReferenceTime(s) # NoTime
    /\ JobReferenceTime(s) = JobReferenceTime(t)

\* Mutant: two hours are enough.
MutThreeHours == 2

THREE_HOURS == 3

\* Mutant: only the earlier jobs of the day are kept away from.
MutGapTooShort(s, t) ==
    LET a == JobReferenceTime(s)
        b == JobReferenceTime(t)
    IN  a = NoTime \/ b = NoTime \/ (a - b < THREE_HOURS /\ a >= b)

\* The gap test admits a difference of exactly three hours.
GapTooShort(s, t) ==
    LET a == JobReferenceTime(s)
        b == JobReferenceTime(t)
    IN  a = NoTime \/ b = NoTime \/ (a - b < THREE_HOURS /\ b - a < THREE_HOURS)

\* One rep cannot do both jobs.
RepClash(s, t) == ~SameFlight(s, t) /\ GapTooShort(s, t)

=============================================================================
