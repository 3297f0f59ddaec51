------------------------------ MODULE Dispatch ------------------------------
(***************************************************************************)
(* The life of a traffic job: the dispatch console, the job editor, the    *)
(* driver, rep and supplier portals, the job locks and the cash desk, all  *)
(* of which read and write the same rows of the database.                  *)
(*                                                                         *)
(* Every handler reads the rows it checks first and writes afterwards, in  *)
(* a transaction that repeats none of the checks.  The database runs at    *)
(* READ COMMITTED, so between the two any other request may commit.  A     *)
(* request is therefore a process with at least two steps: a step that     *)
(* loads and checks, keeping what the handler holds in local variables in  *)
(* req[p], and a step that commits.  A handler that throws, a transaction  *)
(* the database aborts and a server that dies are all Drop(p).             *)
(***************************************************************************)
EXTENDS JobRules, FiniteSets

CONSTANTS
    Jobs, Vehicles, Drivers, Reps, Suppliers,
    Procs,              \* requests that can be in progress at once
    Capacity,           \* seats of a vehicle's type
    OwnerOf,            \* the supplier that owns a vehicle, or None
    Schedules,          \* the schedules the office can give to a job
    PaxCounts,          \* the passenger counts the office can give to a job
    Roles,              \* who works in the office: "dispatcher", "manager"
    Ops,                \* the operations a configuration exercises
    MaxAssignments,     \* bound on the assignment rows ever created
    LockTabs,           \* the tabs of the job locks a configuration exercises
    None,               \* NULL
    Keep                \* a field the request leaves undefined

Tabs == {"dispatcher", "driver", "rep", "supplier"}

Job == [status : JobStatus, deleted : BOOLEAN, sched : Schedules, pax : PaxCounts,
        required : BOOLEAN, collected : BOOLEAN, liquidated : BOOLEAN,
        overdue : BOOLEAN,      \* more than 48 hours past jobDate
        weekOld : BOOLEAN,      \* created more than a week ago
        unlocked : SUBSET Tabs]

Assignment == [id : Nat, vehicle : Vehicles, driver : Drivers \cup {None},
               rep : Reps \cup {None}, driverStatus : PortalStatus,
               repStatus : PortalStatus, supplierStatus : PortalStatus]

ASSUME FleetAssumption ==
    /\ Capacity \in [Vehicles -> Nat]
    /\ OwnerOf \in [Vehicles -> Suppliers \cup {None}]

ASSUME AgendaAssumption ==
    /\ PaxCounts \subseteq Nat
    /\ \A s \in Schedules : s.arrival \in Hours /\ s.departure \in Hours /\ s.pickUp \in Hours

ASSUME BoundsAssumption == MaxAssignments \in Nat /\ LockTabs \subseteq Tabs

\* NULL is neither a person nor a row.
ASSUME NullAssumption ==
    /\ None \notin Drivers \cup Reps
    /\ None \notin Job /\ None \notin Assignment

Log == [job : Jobs, id : Nat, by : {"DRIVER", "REP"}, who : Drivers \cup Reps,
        from : PortalStatus, to : PortalStatus]

Evidence == [job : Jobs, by : {"DRIVER", "REP"}]

VARIABLES
    job,        \* traffic_jobs: [Jobs -> Job \cup {None}], None before it is created
    asg,        \* traffic_assignments, by their unique trafficJobId
    logs,       \* status_change_logs
    evidence,   \* no_show_evidence
    fees,       \* rep_fees of a job and rep: how many were generated, how many entered by hand
    inactive,   \* vehicles, drivers and reps switched off
    nextId,     \* the id of the next assignment row
    unvetted,   \* history: what was edited since the assignment was checked against it
    req         \* the requests in progress

db == <<job, asg, logs, evidence, fees, inactive, nextId, unvetted>>
vars == <<job, asg, logs, evidence, fees, inactive, nextId, unvetted, req>>

Idle == [at |-> "idle"]

-----------------------------------------------------------------------------
(***************************************************************************)
(* Requests in progress: the locals that live across an await.             *)
(***************************************************************************)

AssignReq == [at : {"assign_check", "assign"}, job : Jobs, vehicle : Vehicles,
              driver : Drivers \cup {None}, rep : Reps \cup {None},
              sched : Schedules, pax : PaxCounts]

ReassignReq == [at : {"reassign_check", "reassign"}, job : Jobs, id : Nat,
                vehicle : Vehicles \cup {Keep}, driver : Drivers \cup {None, Keep},
                rep : Reps \cup {None, Keep}, oldDriver : Drivers \cup {None},
                oldRep : Reps \cup {None}, sched : Schedules, pax : PaxCounts]

UnassignReq == [at : {"unassign"}, job : Jobs, id : Nat]

StatusReq == [at : {"status"}, job : Jobs, to : JobStatus]

SyncReq == [at : {"sync"}, job : Jobs, to : Terminal, held : BOOLEAN, rep : Reps \cup {None},
            fee : BOOLEAN]

EditReq == [at : {"edit"}, job : Jobs, sched : Schedules \cup {Keep}, pax : PaxCounts,
            cash : {"yes", "no", Keep}]

RowReq == [at : {"remove", "liquidate"}, job : Jobs]

CollectReq == [at : {"collect"}, job : Jobs, collected : BOOLEAN]

PortalReq == [at : {"driver", "rep", "driver_no_show", "rep_no_show"}, job : Jobs, id : Nat,
              who : Drivers \cup Reps, from : PortalStatus, to : PortalStatus]

SupplierReq == [at : {"supplier"}, job : Jobs, id : Nat]

PortalSteps == {"driver", "rep", "driver_no_show", "rep_no_show", "collect", "supplier"}

Request == {Idle} \cup AssignReq \cup ReassignReq \cup UnassignReq \cup StatusReq
             \cup SyncReq \cup EditReq \cup RowReq \cup CollectReq \cup PortalReq
             \cup SupplierReq

Ready(p, op) == op \in Ops /\ req[p] = Idle

\* The request goes on holding r, or is over.
Hold(p, r) == req' = [req EXCEPT ![p] = r]
Done(p) == Hold(p, Idle)

Exists(j) == job[j] # None
Live(j) == Exists(j) /\ ~job[j].deleted

\* The row of an assignment, which a request loaded earlier, is still there.
RowOf(j, id) == asg[j] # None /\ asg[j].id = id

\* Between the two writes of its transaction, a status update holds the lock of
\* the job's row: no other request can write the row until it commits or aborts.
RowFree(j) == \A p \in Procs : ~(req[p].at = "sync" /\ req[p].job = j)

\* The 48-hour locks: checkDispatcherTimelock and its three portal twins.
OfficeMayAssign(role, j) ==
    role = "dispatcher" => ~job[j].overdue \/ "dispatcher" \in job[j].unlocked

\* Mutant: a portal whose lock was left out.
MutPortalOpen(tab, j) == tab = "driver" \/ ~job[j].overdue \/ tab \in job[j].unlocked

PortalOpen(tab, j) == ~job[j].overdue \/ tab \in job[j].unlocked

-----------------------------------------------------------------------------
(***************************************************************************)
(* The dispatch console.                                                   *)
(***************************************************************************)

\* A job that occupies its rep on its day.
Occupies(k) == ~job[k].deleted /\ job[k].status \notin {"CANCELLED", "COMPLETED"}

\* Schedule s fits what rep r already does; assignment `except` is left aside.
RepAvailable(r, s, except) ==
    \A k \in Jobs :
        /\ asg[k] # None /\ asg[k].rep = r /\ asg[k].id # except
        /\ Occupies(k)
        /\ job[k].sched.day = s.day
        => ~RepClash(s, job[k].sched)

\* Mutant: the passengers are not counted.
MutVehicleFits(v, n) == v \notin inactive

VehicleFits(v, n) == v \notin inactive /\ n <= Capacity[v]

RepFits(r, s, except) ==
    /\ s.service # "EXCURSION"
    /\ r \notin inactive
    /\ RepAvailable(r, s, except)

AssignLoad(p, role, j, v, d, r) ==
    /\ Ready(p, "assign")
    /\ Live(j)
    /\ OfficeMayAssign(role, j)
    /\ job[j].status # "CANCELLED"
    /\ asg[j] = None
    /\ Hold(p, [at |-> "assign_check", job |-> j, vehicle |-> v, driver |-> d, rep |-> r,
                sched |-> job[j].sched, pax |-> job[j].pax])
    /\ UNCHANGED db

\* Vehicles and drivers have no availability rule: their two checks are empty.
AssignCheck(p) ==
    LET q == req[p] IN
    /\ q.at = "assign_check"
    /\ VehicleFits(q.vehicle, q.pax)
    /\ q.driver \notin inactive
    /\ q.rep # None => RepFits(q.rep, q.sched, 0)
    /\ Hold(p, [q EXCEPT !.at = "assign"])
    /\ UNCHANGED db

\* Mutant: the portals start at the office's status.
MutNewAssignment(v, d, r) ==
    [id |-> nextId, vehicle |-> v, driver |-> d, rep |-> r, driverStatus |-> "ASSIGNED",
     repStatus |-> "ASSIGNED", supplierStatus |-> "PENDING"]

\* The row as it is created, with the defaults of its columns.
NewAssignment(v, d, r) ==
    [id |-> nextId, vehicle |-> v, driver |-> d, rep |-> r, driverStatus |-> "PENDING",
     repStatus |-> "PENDING", supplierStatus |-> "PENDING"]

\* trafficJobId is unique: the row is refused if another request was faster.
AssignCommit(p) ==
    LET q == req[p] IN
    /\ q.at = "assign"
    /\ nextId <= MaxAssignments
    /\ asg[q.job] = None
    /\ RowFree(q.job)
    /\ asg' = [asg EXCEPT ![q.job] = NewAssignment(q.vehicle, q.driver, q.rep)]
    /\ job' = [job EXCEPT ![q.job].status = "ASSIGNED"]
    /\ nextId' = nextId + 1
    /\ unvetted' = [unvetted EXCEPT ![q.job] = {}]
    /\ Done(p)
    /\ UNCHANGED <<logs, evidence, fees, inactive>>

\* A reassignment looks at the assignment row alone: not at the job's status, and
\* not at its deletedAt.  v, d and r are Keep where the request leaves them out.
ReassignLoad(p, role, j, v, d, r) ==
    /\ Ready(p, "reassign")
    /\ asg[j] # None
    /\ OfficeMayAssign(role, j)
    /\ ~(v = Keep /\ d = Keep /\ r = Keep)
    /\ Hold(p, [at |-> "reassign_check", job |-> j, id |-> asg[j].id,
                vehicle |-> v, driver |-> d, rep |-> r,
                oldDriver |-> asg[j].driver, oldRep |-> asg[j].rep,
                sched |-> job[j].sched, pax |-> job[j].pax])
    /\ UNCHANGED db

ReassignCheck(p) ==
    LET q == req[p] IN
    /\ q.at = "reassign_check"
    /\ q.vehicle # Keep => VehicleFits(q.vehicle, q.pax)
    /\ q.driver \notin inactive
    /\ q.rep \in Reps => RepFits(q.rep, q.sched, q.id)
    /\ Hold(p, [q EXCEPT !.at = "reassign"])
    /\ UNCHANGED db

\* Whether a driver or rep is new, and starts over at PENDING, is decided against
\* the row as it was loaded.
Replaced(new, old) == new # Keep /\ new # old
Given(new, old) == IF new = Keep THEN old ELSE new

ReassignCommit(p) ==
    LET q == req[p]
        a == asg[q.job]
    IN
    /\ q.at = "reassign"
    /\ RowOf(q.job, q.id)
    /\ asg' = [asg EXCEPT ![q.job] =
         [a EXCEPT !.vehicle = Given(q.vehicle, a.vehicle),
                   !.driver = Given(q.driver, a.driver),
                   !.driverStatus = IF Replaced(q.driver, q.oldDriver) THEN "PENDING" ELSE @,
                   !.rep = Given(q.rep, a.rep),
                   !.repStatus = IF Replaced(q.rep, q.oldRep) THEN "PENDING" ELSE @]]
    /\ unvetted' = [unvetted EXCEPT ![q.job] = @ \ (
                      (IF q.vehicle # Keep THEN {"seats"} ELSE {})
                        \cup (IF q.rep # Keep THEN {"rep"} ELSE {}))]
    /\ Done(p)
    /\ UNCHANGED <<job, logs, evidence, fees, inactive, nextId>>

UnassignLoad(p, role, j) ==
    /\ Ready(p, "unassign")
    /\ asg[j] # None
    /\ OfficeMayAssign(role, j)
    /\ Hold(p, [at |-> "unassign", job |-> j, id |-> asg[j].id])
    /\ UNCHANGED db

\* Mutant: the log's foreign key lets the assignment go.
MutUnreferenced(id) == TRUE

\* The foreign key of the status log restricts the deletion of an assignment.
Unreferenced(id) == \A l \in logs : l.id # id

UnassignCommit(p) ==
    LET q == req[p] IN
    /\ q.at = "unassign"
    /\ RowOf(q.job, q.id)
    /\ Unreferenced(q.id)
    /\ RowFree(q.job)
    /\ asg' = [asg EXCEPT ![q.job] = None]
    /\ job' = [job EXCEPT ![q.job].status = "PENDING"]
    /\ unvetted' = [unvetted EXCEPT ![q.job] = {}]
    /\ Done(p)
    /\ UNCHANGED <<logs, evidence, fees, inactive, nextId>>

-----------------------------------------------------------------------------
(***************************************************************************)
(* The job editor.                                                         *)
(***************************************************************************)

CreateJob(j, s, n, cash) ==
    /\ "create" \in Ops
    /\ job[j] = None
    /\ job' = [job EXCEPT ![j] =
         [status |-> "PENDING", deleted |-> FALSE, sched |-> s, pax |-> n,
          required |-> cash, collected |-> FALSE, liquidated |-> FALSE,
          overdue |-> FALSE, weekOld |-> FALSE, unlocked |-> {}]]
    /\ UNCHANGED <<asg, logs, evidence, fees, inactive, nextId, unvetted, req>>

\* The passenger count is written even when the request leaves it out: with the
\* count that was loaded.
EditLoad(p, j, s, n, cash) ==
    /\ Ready(p, "edit")
    /\ Live(j)
    /\ ~job[j].weekOld
    /\ Hold(p, [at |-> "edit", job |-> j, sched |-> s,
                pax |-> IF n = Keep THEN job[j].pax ELSE n, cash |-> cash])
    /\ UNCHANGED db

\* Neither the seats of the vehicle nor the agenda of the rep is looked at again.
\* Moving a job to another day may bring it into or out of the 48-hour lock.
EditCommit(p) ==
    LET q == req[p]
        r == job[q.job]
        s == Given(q.sched, r.sched)
    IN
    /\ q.at = "edit"
    /\ RowFree(q.job)
    /\ \E late \in IF s.day = r.sched.day THEN {r.overdue} ELSE BOOLEAN :
         job' = [job EXCEPT ![q.job] =
           [r EXCEPT !.sched = s, !.pax = q.pax, !.overdue = late,
                     !.required = IF q.cash = Keep THEN @ ELSE q.cash = "yes",
                     !.collected = IF q.cash = "no" THEN FALSE ELSE @]]
    /\ unvetted' = [unvetted EXCEPT ![q.job] = @
                      \cup (IF s # r.sched THEN {"rep"} ELSE {})
                      \cup (IF q.pax # r.pax THEN {"seats"} ELSE {})]
    /\ Done(p)
    /\ UNCHANGED <<asg, logs, evidence, fees, inactive, nextId>>

StatusLoad(p, j, to) ==
    /\ Ready(p, "status")
    /\ Live(j)
    /\ to \in ValidTransitions[job[j].status]
    /\ Hold(p, [at |-> "status", job |-> j, to |-> to])
    /\ UNCHANGED db

\* Mutant: the fee is created without looking for an earlier one.
MutFeeMissing(j, r) == TRUE

FeeMissing(j, r) == fees[j][r].auto + fees[j][r].manual = 0

\* The transaction's first statement takes the lock of the job's row and reads the
\* assignment back.  Unless the status is terminal there is nothing more to do.
\* Otherwise the rep of a completed arrival is to be paid, if no fee is found.
StatusWrite(p) ==
    LET q == req[p]
        held == asg[q.job] # None
        rep == IF held THEN asg[q.job].rep ELSE None
        due == /\ q.to = "COMPLETED"
               /\ job[q.job].sched.service = "ARR"
               /\ rep # None
               /\ FeeMissing(q.job, rep)
    IN
    /\ q.at = "status"
    /\ RowFree(q.job)
    /\ IF q.to \in Terminal
       THEN /\ Hold(p, [at |-> "sync", job |-> q.job, to |-> q.to, held |-> held,
                        rep |-> rep, fee |-> due])
            /\ UNCHANGED db
       ELSE /\ job' = [job EXCEPT ![q.job].status = q.to]
            /\ Done(p)
            /\ UNCHANGED <<asg, logs, evidence, fees, inactive, nextId, unvetted>>

\* The rest of the transaction, and its commit: both portals follow the office, and
\* the fee is entered.
StatusSync(p) ==
    LET q == req[p] IN
    /\ q.at = "sync"
    /\ job' = [job EXCEPT ![q.job].status = q.to]
    /\ asg' = IF q.held
              THEN [asg EXCEPT ![q.job] = [@ EXCEPT !.driverStatus = q.to, !.repStatus = q.to]]
              ELSE asg
    /\ fees' = IF q.fee
               THEN [fees EXCEPT ![q.job][q.rep].auto = @ + 1]
               ELSE fees
    /\ Done(p)
    /\ UNCHANGED <<logs, evidence, inactive, nextId, unvetted>>

\* Mutant: any job can be deleted.
MutRemovable(j) == TRUE

Removable(j) == job[j].status # "COMPLETED"

RemoveLoad(p, j) ==
    /\ Ready(p, "remove")
    /\ Live(j)
    /\ Removable(j)
    /\ Hold(p, [at |-> "remove", job |-> j])
    /\ UNCHANGED db

RemoveCommit(p) ==
    LET q == req[p] IN
    /\ q.at = "remove"
    /\ RowFree(q.job)
    /\ job' = [job EXCEPT ![q.job].deleted = TRUE]
    /\ Done(p)
    /\ UNCHANGED <<asg, logs, evidence, fees, inactive, nextId, unvetted>>

-----------------------------------------------------------------------------
(***************************************************************************)
(* The portals.  They look at the assignment, never at the job's own       *)
(* status or deletedAt, and the office's status is not touched by them.    *)
(***************************************************************************)

PortalHold(p, at, j, who, from, to) ==
    Hold(p, [at |-> at, job |-> j, id |-> asg[j].id, who |-> who, from |-> from, to |-> to])

DriverUpdateLoad(p, d, j, to) ==
    /\ Ready(p, "driver")
    /\ asg[j] # None /\ asg[j].driver = d
    /\ PortalOpen("driver", j)
    /\ to \in DriverTransitions[asg[j].driverStatus]
    /\ to = "COMPLETED" => ~job[j].required \/ job[j].collected
    /\ PortalHold(p, "driver", j, d, asg[j].driverStatus, to)
    /\ UNCHANGED db

RepUpdateLoad(p, r, j, to) ==
    /\ Ready(p, "rep")
    /\ asg[j] # None /\ asg[j].rep = r
    /\ PortalOpen("rep", j)
    /\ to \in RepTransitions[asg[j].repStatus]
    /\ PortalHold(p, "rep", j, r, asg[j].repStatus, to)
    /\ UNCHANGED db

DriverNoShowLoad(p, d, j) ==
    /\ Ready(p, "no_show")
    /\ asg[j] # None /\ asg[j].driver = d
    /\ PortalOpen("driver", j)
    /\ asg[j].driverStatus \in {"PENDING", "IN_PROGRESS"}
    /\ PortalHold(p, "driver_no_show", j, d, asg[j].driverStatus, "NO_SHOW")
    /\ UNCHANGED db

RepNoShowLoad(p, r, j) ==
    /\ Ready(p, "no_show")
    /\ asg[j] # None /\ asg[j].rep = r
    /\ PortalOpen("rep", j)
    /\ asg[j].repStatus = "PENDING"
    /\ PortalHold(p, "rep_no_show", j, r, asg[j].repStatus, "NO_SHOW")
    /\ UNCHANGED db

\* The two writes of every portal transaction: the status, on the assignment the
\* request loaded whoever holds it now, and the log of the change.
Report(q, by) ==
    /\ RowOf(q.job, q.id)
    /\ asg' = [asg EXCEPT ![q.job] = IF by = "DRIVER" THEN [@ EXCEPT !.driverStatus = q.to]
                                                       ELSE [@ EXCEPT !.repStatus = q.to]]
    /\ logs' = logs \cup {[job |-> q.job, id |-> q.id, by |-> by, who |-> q.who,
                           from |-> q.from, to |-> q.to]}

DriverUpdateCommit(p) ==
    /\ req[p].at = "driver"
    /\ Report(req[p], "DRIVER")
    /\ Done(p)
    /\ UNCHANGED <<job, evidence, fees, inactive, nextId, unvetted>>

RepUpdateCommit(p) ==
    /\ req[p].at = "rep"
    /\ Report(req[p], "REP")
    /\ Done(p)
    /\ UNCHANGED <<job, evidence, fees, inactive, nextId, unvetted>>

\* Mutant: a second piece of evidence for the job is taken for a repeated call.
MutEvidenceFree(e) == TRUE

\* The unique key of the evidence: one from the driver and one from the rep.
EvidenceFree(e) == e \notin evidence

NoShowCommit(p, by) ==
    LET q == req[p]
        e == [job |-> q.job, by |-> by]
    IN
    /\ q.at = IF by = "DRIVER" THEN "driver_no_show" ELSE "rep_no_show"
    /\ Report(q, by)
    /\ EvidenceFree(e)
    /\ evidence' = evidence \cup {e}
    /\ Done(p)
    /\ UNCHANGED <<job, fees, inactive, nextId, unvetted>>

MarkCollectedLoad(p, d, j, collected) ==
    /\ Ready(p, "collect")
    /\ asg[j] # None /\ asg[j].driver = d
    /\ job[j].required
    /\ PortalOpen("driver", j)
    /\ Hold(p, [at |-> "collect", job |-> j, collected |-> collected])
    /\ UNCHANGED db

\* Written by job id: whoever drives the job by now, and liquidated or not.
MarkCollectedCommit(p) ==
    LET q == req[p] IN
    /\ q.at = "collect"
    /\ RowFree(q.job)
    /\ job' = [job EXCEPT ![q.job].collected = q.collected]
    /\ Done(p)
    /\ UNCHANGED <<asg, logs, evidence, fees, inactive, nextId, unvetted>>

SupplierCompleteLoad(p, s, j) ==
    /\ Ready(p, "supplier")
    /\ asg[j] # None /\ OwnerOf[asg[j].vehicle] = s
    /\ PortalOpen("supplier", j)
    /\ asg[j].supplierStatus # "COMPLETED"
    /\ Hold(p, [at |-> "supplier", job |-> j, id |-> asg[j].id])
    /\ UNCHANGED db

SupplierCompleteCommit(p) ==
    LET q == req[p] IN
    /\ q.at = "supplier"
    /\ RowOf(q.job, q.id)
    /\ asg' = [asg EXCEPT ![q.job] = [@ EXCEPT !.supplierStatus = "COMPLETED"]]
    /\ Done(p)
    /\ UNCHANGED <<job, logs, evidence, fees, inactive, nextId, unvetted>>

-----------------------------------------------------------------------------
(***************************************************************************)
(* The cash desk, the locks, the fleet and the calendar.                   *)
(***************************************************************************)

LiquidateLoad(p, j) ==
    /\ Ready(p, "liquidate")
    /\ Live(j)
    /\ job[j].required /\ job[j].collected /\ ~job[j].liquidated
    /\ Hold(p, [at |-> "liquidate", job |-> j])
    /\ UNCHANGED db

LiquidateCommit(p) ==
    LET q == req[p] IN
    /\ q.at = "liquidate"
    /\ RowFree(q.job)
    /\ job' = [job EXCEPT ![q.job].liquidated = TRUE]
    /\ Done(p)
    /\ UNCHANGED <<asg, logs, evidence, fees, inactive, nextId, unvetted>>

\* A rep's fee entered by hand; Finance looks for no other.
CreateRepFee(j, r) ==
    /\ "fee" \in Ops
    /\ Live(j)
    /\ job[j].sched.service = "ARR"
    /\ fees[j][r].manual = 0    \* bound: one fee by hand
    /\ fees' = [fees EXCEPT ![j][r].manual = @ + 1]
    /\ UNCHANGED <<job, asg, logs, evidence, inactive, nextId, unvetted, req>>

UnlockJob(tab, j) ==
    /\ "lock" \in Ops
    /\ Live(j) /\ RowFree(j)
    /\ job' = [job EXCEPT ![j].unlocked = @ \cup {tab}]
    /\ UNCHANGED <<asg, logs, evidence, fees, inactive, nextId, unvetted, req>>

LockJob(tab, j) ==
    /\ "lock" \in Ops
    /\ Live(j) /\ RowFree(j)
    /\ job' = [job EXCEPT ![j].unlocked = @ \ {tab}]
    /\ UNCHANGED <<asg, logs, evidence, fees, inactive, nextId, unvetted, req>>

\* toggleStatus of a vehicle, a driver or a rep.
ToggleStatus(x) ==
    /\ "toggle" \in Ops
    /\ inactive' = IF x \in inactive THEN inactive \ {x} ELSE inactive \cup {x}
    /\ UNCHANGED <<job, asg, logs, evidence, fees, nextId, unvetted, req>>

\* Two days after the service date, and a week after the job was created.
BecomeOverdue(j) ==
    /\ "clock" \in Ops
    /\ Exists(j) /\ ~job[j].overdue
    /\ job' = [job EXCEPT ![j].overdue = TRUE]
    /\ UNCHANGED <<asg, logs, evidence, fees, inactive, nextId, unvetted, req>>

BecomeWeekOld(j) ==
    /\ "clock" \in Ops
    /\ Exists(j) /\ ~job[j].weekOld
    /\ job' = [job EXCEPT ![j].weekOld = TRUE]
    /\ UNCHANGED <<asg, logs, evidence, fees, inactive, nextId, unvetted, req>>

\* The handler threw, the database aborted the transaction (a vanished row, a unique
\* or foreign key, a deadlock) or the server died: nothing was written.
Drop(p) ==
    /\ req[p] # Idle
    /\ Done(p)
    /\ UNCHANGED db

-----------------------------------------------------------------------------
Init ==
    /\ job = [j \in Jobs |-> None]
    /\ asg = [j \in Jobs |-> None]
    /\ logs = {}
    /\ evidence = {}
    /\ fees = [j \in Jobs |-> [r \in Reps |-> [auto |-> 0, manual |-> 0]]]
    /\ inactive = {}
    /\ nextId = 1
    /\ unvetted = [j \in Jobs |-> {}]
    /\ req = [p \in Procs |-> Idle]

Console(p) ==
    \/ \E role \in Roles, j \in Jobs :
         \/ \E v \in Vehicles, d \in Drivers \cup {None}, r \in Reps \cup {None} :
              AssignLoad(p, role, j, v, d, r)
         \/ \E v \in Vehicles \cup {Keep}, d \in Drivers \cup {None, Keep},
               r \in Reps \cup {None, Keep} : ReassignLoad(p, role, j, v, d, r)
         \/ UnassignLoad(p, role, j)
    \/ AssignCheck(p) \/ AssignCommit(p)
    \/ ReassignCheck(p) \/ ReassignCommit(p)
    \/ UnassignCommit(p)

Editor(p) ==
    \/ \E j \in Jobs :
         \/ \E s \in Schedules \cup {Keep}, n \in PaxCounts \cup {Keep},
               cash \in {"yes", "no", Keep} : EditLoad(p, j, s, n, cash)
         \/ \E to \in JobStatus : StatusLoad(p, j, to)
         \/ RemoveLoad(p, j)
    \/ EditCommit(p) \/ StatusWrite(p) \/ StatusSync(p) \/ RemoveCommit(p)

Portals(p) ==
    \/ \E j \in Jobs, d \in Drivers :
         \/ \E to \in PortalStatus : DriverUpdateLoad(p, d, j, to)
         \/ DriverNoShowLoad(p, d, j)
         \/ \E collected \in BOOLEAN : MarkCollectedLoad(p, d, j, collected)
    \/ \E j \in Jobs, r \in Reps :
         \/ \E to \in PortalStatus : RepUpdateLoad(p, r, j, to)
         \/ RepNoShowLoad(p, r, j)
    \/ \E j \in Jobs, s \in Suppliers : SupplierCompleteLoad(p, s, j)
    \/ DriverUpdateCommit(p) \/ RepUpdateCommit(p)
    \/ \E by \in {"DRIVER", "REP"} : NoShowCommit(p, by)
    \/ MarkCollectedCommit(p) \/ SupplierCompleteCommit(p)

CashDesk(p) == (\E j \in Jobs : LiquidateLoad(p, j)) \/ LiquidateCommit(p)

Instant ==
    \/ \E j \in Jobs :
         \/ \E s \in Schedules, n \in PaxCounts, cash \in BOOLEAN : CreateJob(j, s, n, cash)
         \/ \E r \in Reps : CreateRepFee(j, r)
         \/ \E tab \in LockTabs : UnlockJob(tab, j) \/ LockJob(tab, j)
         \/ BecomeOverdue(j)
         \/ BecomeWeekOld(j)
    \/ \E x \in Vehicles \cup Drivers \cup Reps : ToggleStatus(x)

Next == Instant \/ \E p \in Procs : Console(p) \/ Editor(p) \/ Portals(p) \/ CashDesk(p) \/ Drop(p)

Spec == Init /\ [][Next]_vars

-----------------------------------------------------------------------------
(***************************************************************************)
(* Properties.                                                             *)
(***************************************************************************)

\* Every row and every request is of its kind.
TypeOK ==
    /\ job \in [Jobs -> Job \cup {None}]
    /\ asg \in [Jobs -> Assignment \cup {None}]
    /\ logs \subseteq Log
    /\ evidence \subseteq Evidence
    /\ fees \in [Jobs -> [Reps -> [auto : Nat, manual : Nat]]]
    /\ inactive \subseteq Vehicles \cup Drivers \cup Reps
    /\ nextId \in Nat \ {0}
    /\ unvetted \in [Jobs -> SUBSET {"rep", "seats"}]
    /\ req \in [Procs -> Request]

(* --- with any number of requests in progress --- *)

\* A job that somebody has been assigned to is never shown as PENDING, the red row
\* of the dispatch grid, whatever stale status a late request writes.
NoAssignedJobIsPending ==
    \A j \in Jobs : asg[j] # None => job[j] # None /\ job[j].status # "PENDING"

\* Completing an arrival pays its rep once: however many status updates race, and
\* however often the job is reopened by unassigning it, a job and rep have at most
\* one generated fee.
OneGeneratedFee == \A j \in Jobs, r \in Reps : fees[j][r].auto <= 1

\* What a driver or a rep reported stays attached to the assignment they hold: the
\* assignment of a logged change is there for good, under the same id.
LogsKeepTheirAssignment == \A l \in logs : RowOf(l.job, l.id)

\* A no-show on the record of a portal has its photos and position, the evidence
\* never stands alone, and each side of a job reports at most one no-show: what
\* the unique key and the transaction of submitNoShow are for.
NoShowIsEvidenced ==
    LET NoShows == {l \in logs : l.to = "NO_SHOW"} IN
    /\ \A l \in NoShows : [job |-> l.job, by |-> l.by] \in evidence
    /\ \A e \in evidence : \E l \in NoShows : l.job = e.job /\ l.by = e.by
    /\ \A l, m \in NoShows : l.job = m.job /\ l.by = m.by => l = m

\* An overdue job that nobody unlocked, once no portal request on it is in progress,
\* stays quiet until it is unlocked or moved to another day: no report, no evidence
\* and no collected cash come in, whatever the office does meanwhile.
Quiet(j) ==
    /\ Exists(j) /\ job[j].overdue /\ job[j].unlocked = {}
    /\ \A p \in Procs : req[p].at \in PortalSteps => req[p].job # j
SealedJobsStayQuiet ==
    [][\A j \in Jobs :
         Quiet(j) =>
           /\ Quiet(j)' \/ ~job'[j].overdue \/ job'[j].unlocked # {}
           /\ \A l \in logs' \ logs : l.job # j
           /\ \A e \in evidence' \ evidence : e.job # j
           /\ job'[j].collected => job[j].collected]_vars

(* --- with requests that take turns --- *)

\* These do not survive every overlap.  The conditions below say which requests on one
\* job would have to wait for which: the locks that the handlers do not take.

BookingSteps == {"assign_check", "assign", "reassign_check", "reassign"}
ReassignSteps == {"reassign_check", "reassign"}
UpdateSteps == {"status", "sync"}
DriverSteps == {"driver", "driver_no_show"}

\* No request in one of the steps S overlaps, on one job, with another in one of T.
Apart(S, T) ==
    \A p, o \in Procs :
        p # o /\ req[p].at \in S /\ req[o].at \in T => req[p].job # req[o].job

EditsAwaitBookings == Apart(BookingSteps, {"edit"})
RemovalsAwaitUpdates == Apart(UpdateSteps, {"remove"})
UpdatesTakeTurns == Apart(UpdateSteps, UpdateSteps)
ReassignmentsTakeTurns == Apart(ReassignSteps, ReassignSteps)
ReportsTakeTurns == Apart(DriverSteps, DriverSteps \cup UpdateSteps)

\* A request that is about to write an assignment with a rep it has checked.
Books(q) == q.at \in {"assign", "reassign"} /\ q.rep \in Reps

\* Between the check of a rep and the commit, nobody gives the rep another job.
RepsAreBookedInTurn ==
    \A p, o \in Procs :
        Books(req[p]) /\ Books(req[o]) /\ req[p].rep = req[o].rep => req[p].job = req[o].job


\* Two jobs one person can do: both have a time, and they are the same flight or at
\* least three hours apart, whichever comes first.
TogetherOrApart(s, t) ==
    LET a == JobReferenceTime(s)
        b == JobReferenceTime(t)
    IN  /\ NoTime \notin {a, b}
        /\ \/ a = b /\ s.flight = t.flight /\ s.flight # NoFlight
           \/ a + 3 <= b
           \/ b + 3 <= a

\* No rep is sent to two flights less than three hours apart on one day, as long as
\* neither job was rescheduled after its rep had been checked.
RepsKeepTheGap ==
    \A j, k \in Jobs :
        /\ j # k
        /\ asg[j] # None /\ asg[k] # None
        /\ asg[j].rep = asg[k].rep /\ asg[j].rep # None
        /\ Occupies(j) /\ Occupies(k)
        /\ job[j].sched.day = job[k].sched.day
        /\ "rep" \notin unvetted[j] \cup unvetted[k]
        => TogetherOrApart(job[j].sched, job[k].sched)

\* A vehicle has a seat for every passenger it was assigned to carry, until the
\* passenger count of the job is edited.
SeatsForEverybody ==
    \A j \in Jobs :
        asg[j] # None /\ "seats" \notin unvetted[j] => job[j].pax <= Capacity[asg[j].vehicle]

\* A driver's closing report stands: as long as the driver keeps the job, only the
\* office closing the job itself overrules it.
DriverReportsStand ==
    [][\A j \in Jobs :
         /\ asg[j] # None /\ asg'[j] # None
         /\ asg[j].id = asg'[j].id /\ asg[j].driver = asg'[j].driver
         /\ asg[j].driverStatus \in Terminal
         /\ asg'[j].driverStatus # asg[j].driverStatus
         => job'[j].status \in Terminal /\ asg'[j].driverStatus = job'[j].status]_vars

\* A driver shown as NO_SHOW either sent the evidence or was put there by an office
\* that closed the whole job as a no-show.
DriverNoShowIsAccountedFor ==
    \A j \in Jobs :
        asg[j] # None /\ asg[j].driverStatus = "NO_SHOW"
        => [job |-> j, by |-> "DRIVER"] \in evidence \/ job[j].status = "NO_SHOW"

\* Neither is a completed job deleted nor a deleted one completed.  The status is all that
\* remove looks at: work that was finished, taken back to PENDING by unassigning and then
\* deleted is outside this.
CompletedJobsRemain ==
    \A j \in Jobs : job[j] # None => ~(job[j].deleted /\ job[j].status = "COMPLETED")

(* --- what the documents claim and the code does not do --- *)

\* finance.service.ts refuses to liquidate cash its driver did not collect.
LiquidatedCashWasCollected ==
    \A j \in Jobs : job[j] # None /\ job[j].required /\ job[j].liquidated => job[j].collected

=============================================================================
