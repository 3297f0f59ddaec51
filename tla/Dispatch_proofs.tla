-------------------------- MODULE Dispatch_proofs --------------------------
(***************************************************************************)
(* Proofs about Dispatch for any number of jobs, people, vehicles and      *)
(* requests in progress.                                                   *)
(*                                                                         *)
(* IInv, the inductive invariant, adds to the invariants of Dispatch what  *)
(* every request in progress may rely on (RequestOK) and that the row lock *)
(* of a job has one holder (OneWriter).                                    *)
(*                                                                         *)
(* The first theorems hold of every behaviour.  The properties that an     *)
(* overlap can break follow after "Requests that take turns": every step   *)
(* is first shown to have one of three shapes, and each property has an    *)
(* inductive invariant of its own on top of IInv.                          *)
(***************************************************************************)
EXTENDS Dispatch, TLAPS

TypeDb ==
    /\ job \in [Jobs -> Job \cup {None}]
    /\ asg \in [Jobs -> Assignment \cup {None}]
    /\ logs \subseteq Log
    /\ evidence \subseteq Evidence
    /\ fees \in [Jobs -> [Reps -> [auto : Nat, manual : Nat]]]
    /\ inactive \subseteq Vehicles \cup Drivers \cup Reps
    /\ nextId \in Nat \ {0}
    /\ unvetted \in [Jobs -> SUBSET {"rep", "seats"}]

\* What a request found and may rely on until it commits.
RequestOK(r) ==
    /\ r \in Request
    /\ r # Idle => Exists(r.job)
    /\ r.at \in {"status", "sync"} => r.to # "PENDING"
    /\ r.at \in {"driver", "rep"} => r.to # "NO_SHOW"
    /\ r.at \in {"driver_no_show", "rep_no_show"} => r.to = "NO_SHOW"
    /\ r.at = "sync" => (r.held => asg[r.job] # None)
    /\ r.at = "sync" => (r.fee => r.rep \in Reps /\ fees[r.job][r.rep].auto = 0)

OneWriter ==
    \A p, o \in Procs :
        req[p].at = "sync" /\ req[o].at = "sync" /\ req[p].job = req[o].job => p = o

Requests ==
    /\ req \in [Procs -> Request]
    /\ \A p \in Procs : RequestOK(req[p])
    /\ OneWriter

Rows ==
    /\ TypeDb
    /\ NoAssignedJobIsPending
    /\ OneGeneratedFee
    /\ LogsKeepTheirAssignment
    /\ NoShowIsEvidenced

IInv == Rows /\ Requests

-----------------------------------------------------------------------------
(***************************************************************************)
(* The tables, and the kinds of requests.                                  *)
(***************************************************************************)

\* No status is followed by PENDING in the office.
LEMMA NoWayBackToPending ==
    \A s \in JobStatus : "PENDING" \notin ValidTransitions[s] /\ ValidTransitions[s] \subseteq JobStatus
BY DEF JobStatus, ValidTransitions

\* A portal's status update never reports a no-show.
LEMMA NoShowHasItsEndpoint ==
    \A s \in PortalStatus :
        /\ "NO_SHOW" \notin DriverTransitions[s] /\ DriverTransitions[s] \subseteq PortalStatus
        /\ "NO_SHOW" \notin RepTransitions[s] /\ RepTransitions[s] \subseteq PortalStatus
BY DEF PortalStatus, DriverTransitions, RepTransitions

\* The step a request is at tells which kind of request it is.
LEMMA RequestKinds ==
    ASSUME NEW q \in Request
    PROVE  /\ q.at = "idle" <=> q = Idle
           /\ q.at \in {"assign_check", "assign"} => q \in AssignReq
           /\ q.at \in {"reassign_check", "reassign"} => q \in ReassignReq
           /\ q.at = "unassign" => q \in UnassignReq
           /\ q.at = "status" => q \in StatusReq
           /\ q.at = "sync" => q \in SyncReq
           /\ q.at = "edit" => q \in EditReq
           /\ q.at \in {"remove", "liquidate"} => q \in RowReq
           /\ q.at = "collect" => q \in CollectReq
           /\ q.at \in {"driver", "rep", "driver_no_show", "rep_no_show"} => q \in PortalReq
           /\ q.at = "supplier" => q \in SupplierReq
           /\ q # Idle => q.job \in Jobs
BY DEF Request, Idle, AssignReq, ReassignReq, UnassignReq, StatusReq, SyncReq, EditReq,
       RowReq, CollectReq, PortalReq, SupplierReq

-----------------------------------------------------------------------------
(***************************************************************************)
(* What every step does to the requests in progress.                       *)
(***************************************************************************)

\* A load holds a new request and leaves the rows alone.
LEMMA LoadKeepsIInv ==
    ASSUME IInv, NEW p \in Procs, NEW r, RequestOK(r), Hold(p, r), UNCHANGED db,
           r.at = "sync" => RowFree(r.job)
    PROVE  IInv'
<1>1. Rows'
  BY DEF IInv, Rows, db, TypeDb, NoAssignedJobIsPending, OneGeneratedFee,
         LogsKeepTheirAssignment, NoShowIsEvidenced, RowOf
<1>2. req' \in [Procs -> Request]
  BY DEF IInv, Requests, RequestOK, Hold
<1>3. \A o \in Procs : req'[o] = IF o = p THEN r ELSE req[o]
  BY DEF IInv, Requests, Hold
<1>4. ASSUME NEW o \in Procs PROVE RequestOK(req[o])'
  <2>1. RequestOK(req'[o])
    BY <1>3 DEF IInv, Requests
  <2>2. QED
    BY <2>1 DEF RequestOK, db, Exists
<1>5. OneWriter'
  BY <1>3 DEF OneWriter, IInv, Requests, RowFree
<1>6. QED
  BY <1>1, <1>2, <1>4, <1>5 DEF IInv, Requests

\* A step that ends some requests and leaves the others alone keeps what these rely
\* on, as long as no job disappears and the jobs whose row is locked keep their
\* assignment and get no fee.
LEMMA OthersKeepTheirRequests ==
    ASSUME IInv,
           \A o \in Procs : req'[o] = Idle \/ req'[o] = req[o],
           req' \in [Procs -> Request],
           \A j \in Jobs : Exists(j) => Exists(j)',
           \A o \in Procs : req'[o] = req[o] /\ req[o].at = "sync" =>
               /\ asg[req[o].job] # None => asg'[req[o].job] # None
               /\ \A r \in Reps : fees'[req[o].job][r].auto = fees[req[o].job][r].auto
    PROVE  Requests'
<1>1. Idle \in Request /\ Idle.at = "idle"
  BY DEF Idle, Request
<1>2. ASSUME NEW o \in Procs PROVE RequestOK(req[o])'
  <2>1. RequestOK(req[o])
    BY DEF IInv, Requests
  <2>2. CASE req'[o] = Idle
    BY <1>1, <2>2 DEF RequestOK
  <2>3. CASE req'[o] = req[o]
    <3>1. req[o] # Idle => req[o].job \in Jobs
      BY <2>1, RequestKinds DEF RequestOK
    <3>2. req[o] # Idle => job'[req[o].job] # None
      BY <2>1, <3>1 DEF RequestOK, Exists
    <3>3. QED
      BY <2>1, <2>3, <3>1, <3>2 DEF RequestOK, Exists
  <2>4. QED
    BY <2>2, <2>3
<1>3. OneWriter'
  BY <1>1 DEF OneWriter, IInv, Requests
<1>4. QED
  BY <1>2, <1>3 DEF Requests

\* The end of a request.
LEMMA DoneEndsOne ==
    ASSUME IInv, NEW p \in Procs, Done(p), req[p] # Idle
    PROVE  /\ req' \in [Procs -> Request]
           /\ \A o \in Procs : req'[o] = Idle \/ req'[o] = req[o]
           /\ \A o \in Procs : req'[o] = req[o] => o # p
BY DEF IInv, Requests, Done, Hold, Request

-----------------------------------------------------------------------------
(***************************************************************************)
(* The dispatch console.                                                   *)
(***************************************************************************)

\* The first step of each request of the dispatch console only loads rows.
LEMMA ConsoleLoads ==
    ASSUME IInv, NEW p \in Procs, NEW role \in Roles, NEW j \in Jobs
    PROVE  /\ \A v \in Vehicles, d \in Drivers \cup {None}, r \in Reps \cup {None} :
                AssignLoad(p, role, j, v, d, r) => IInv'
           /\ \A v \in Vehicles \cup {Keep}, d \in Drivers \cup {None, Keep},
                 r \in Reps \cup {None, Keep} : ReassignLoad(p, role, j, v, d, r) => IInv'
           /\ UnassignLoad(p, role, j) => IInv'
<1>1. /\ job[j] # None => job[j] \in Job
      /\ asg[j] # None => asg[j] \in Assignment /\ job[j] # None
  BY DEF IInv, Rows, TypeDb, NoAssignedJobIsPending
<1>2. ASSUME NEW v \in Vehicles, NEW d \in Drivers \cup {None}, NEW r \in Reps \cup {None},
             AssignLoad(p, role, j, v, d, r)
      PROVE  IInv'
  <2> DEFINE q == [at |-> "assign_check", job |-> j, vehicle |-> v, driver |-> d, rep |-> r,
                   sched |-> job[j].sched, pax |-> job[j].pax]
  <2>1. Hold(p, q) /\ UNCHANGED db /\ job[j] # None
    BY <1>2 DEF AssignLoad, Live, Exists
  <2>2. q \in AssignReq
    BY <1>1, <2>1 DEF AssignReq, Job
  <2>3. RequestOK(q)
    BY <2>1, <2>2 DEF RequestOK, Request, Exists
  <2>4. q.at # "sync"
    OBVIOUS
  <2> HIDE DEF q
  <2>5. QED
    BY <2>1, <2>3, <2>4, LoadKeepsIInv
<1>3. ASSUME NEW v \in Vehicles \cup {Keep}, NEW d \in Drivers \cup {None, Keep},
             NEW r \in Reps \cup {None, Keep}, ReassignLoad(p, role, j, v, d, r)
      PROVE  IInv'
  <2> DEFINE q == [at |-> "reassign_check", job |-> j, id |-> asg[j].id,
                   vehicle |-> v, driver |-> d, rep |-> r,
                   oldDriver |-> asg[j].driver, oldRep |-> asg[j].rep,
                   sched |-> job[j].sched, pax |-> job[j].pax]
  <2>1. Hold(p, q) /\ UNCHANGED db /\ asg[j] # None
    BY <1>3 DEF ReassignLoad
  <2>2. q \in ReassignReq
    BY <1>1, <2>1 DEF ReassignReq, Job, Assignment
  <2>3. RequestOK(q)
    BY <1>1, <2>1, <2>2 DEF RequestOK, Request, Exists
  <2>4. q.at # "sync"
    OBVIOUS
  <2> HIDE DEF q
  <2>5. QED
    BY <2>1, <2>3, <2>4, LoadKeepsIInv
<1>4. ASSUME UnassignLoad(p, role, j) PROVE IInv'
  <2> DEFINE q == [at |-> "unassign", job |-> j, id |-> asg[j].id]
  <2>1. Hold(p, q) /\ UNCHANGED db /\ asg[j] # None
    BY <1>4 DEF UnassignLoad
  <2>2. q \in UnassignReq
    BY <1>1, <2>1 DEF UnassignReq, Assignment
  <2>3. RequestOK(q)
    BY <1>1, <2>1, <2>2 DEF RequestOK, Request, Exists
  <2>4. q.at # "sync"
    OBVIOUS
  <2> HIDE DEF q
  <2>5. QED
    BY <2>1, <2>3, <2>4, LoadKeepsIInv
<1>5. QED
  BY <1>2, <1>3, <1>4

\* The checks of assignJob and reassignJob write nothing.
LEMMA ConsoleChecks ==
    ASSUME IInv, NEW p \in Procs, AssignCheck(p) \/ ReassignCheck(p)
    PROVE  IInv'
<1>1. RequestOK(req[p])
  BY DEF IInv, Requests
<1>2. CASE AssignCheck(p)
  <2> DEFINE q == [req[p] EXCEPT !.at = "assign"]
  <2>1. Hold(p, q) /\ UNCHANGED db /\ req[p] \in AssignReq /\ Exists(req[p].job)
    BY <1>1, <1>2, RequestKinds DEF AssignCheck, RequestOK, Idle
  <2>2. q \in AssignReq /\ q.at = "assign" /\ q.job = req[p].job
    BY <2>1 DEF AssignReq
  <2>3. RequestOK(q)
    BY <2>1, <2>2 DEF RequestOK, Request
  <2>4. q.at # "sync"
    BY <2>2
  <2> HIDE DEF q
  <2>5. QED
    BY <2>1, <2>3, <2>4, LoadKeepsIInv
<1>3. CASE ReassignCheck(p)
  <2> DEFINE q == [req[p] EXCEPT !.at = "reassign"]
  <2>1. Hold(p, q) /\ UNCHANGED db /\ req[p] \in ReassignReq /\ Exists(req[p].job)
    BY <1>1, <1>3, RequestKinds DEF ReassignCheck, RequestOK, Idle
  <2>2. q \in ReassignReq /\ q.at = "reassign" /\ q.job = req[p].job
    BY <2>1 DEF ReassignReq
  <2>3. RequestOK(q)
    BY <2>1, <2>2 DEF RequestOK, Request
  <2>4. q.at # "sync"
    BY <2>2
  <2> HIDE DEF q
  <2>5. QED
    BY <2>1, <2>3, <2>4, LoadKeepsIInv
<1>4. QED
  BY <1>2, <1>3

\* A write to one row of the jobs, and to one row of the assignments.
LEMMA JobWrite ==
    ASSUME TypeDb, NEW j \in Jobs, NEW r \in Job, job' = [job EXCEPT ![j] = r]
    PROVE  /\ job' \in [Jobs -> Job \cup {None}]
           /\ job'[j] = r /\ r # None
           /\ \A k \in Jobs \ {j} : job'[k] = job[k]
           /\ \A k \in Jobs : Exists(k) => Exists(k)'
<1>1. r # None
  BY NullAssumption
<1>2. QED
  BY <1>1 DEF TypeDb, Exists

LEMMA AsgWrite ==
    ASSUME TypeDb, NEW j \in Jobs, NEW a \in Assignment \cup {None},
           asg' = [asg EXCEPT ![j] = a]
    PROVE  /\ asg' \in [Jobs -> Assignment \cup {None}]
           /\ asg'[j] = a
           /\ \A k \in Jobs \ {j} : asg'[k] = asg[k]
BY DEF TypeDb

\* A commit that touches the rows of job j alone, under the job's lock or without
\* taking its assignment away, leaves every other request what it relies on.
LEMMA CommitKeepsRequests ==
    ASSUME IInv, NEW p \in Procs, req[p] # Idle, Done(p), NEW j \in Jobs,
           \A k \in Jobs : Exists(k) => Exists(k)',
           \A k \in Jobs \ {j} : asg'[k] = asg[k] /\ fees'[k] = fees[k],
           \/ \A o \in Procs \ {p} : req[o].at = "sync" => req[o].job # j
           \/ (asg[j] # None => asg'[j] # None) /\ fees'[j] = fees[j]
    PROVE  Requests'
<1>1. \A o \in Procs : req[o].at = "sync" => req[o].job \in Jobs
  BY RequestKinds DEF IInv, Requests, RequestOK, Idle
<1>2. QED
  BY <1>1, DoneEndsOne, OthersKeepTheirRequests

\* assignJob's transaction: a new row with a new id, on a job that had none.
LEMMA AssignCommitKeepsIInv ==
    ASSUME IInv, NEW p \in Procs, AssignCommit(p)
    PROVE  IInv'
<1> DEFINE q == req[p]
           r == [job[q.job] EXCEPT !.status = "ASSIGNED"]
           a == NewAssignment(q.vehicle, q.driver, q.rep)
<1>1. q \in AssignReq /\ q.job \in Jobs /\ job[q.job] \in Job
  BY RequestKinds DEF AssignCommit, IInv, Requests, RequestOK, Idle, Rows, TypeDb, Exists
<1>2. a \in Assignment
  BY <1>1 DEF AssignReq, NewAssignment, Assignment, PortalStatus, IInv, Rows, TypeDb
<1>3. r \in Job /\ r.status = "ASSIGNED"
  BY <1>1 DEF Job, JobStatus
<1>4. /\ q.at = "assign" /\ RowFree(q.job) /\ asg[q.job] = None /\ Done(p)
      /\ asg' = [asg EXCEPT ![q.job] = a]
      /\ job' = [job EXCEPT ![q.job] = r]
      /\ nextId' = nextId + 1
      /\ unvetted' = [unvetted EXCEPT ![q.job] = {}]
      /\ UNCHANGED <<logs, evidence, fees, inactive>>
  BY DEF AssignCommit
<1>5. TypeDb
  BY DEF IInv, Rows
<1> HIDE DEF q, r, a
<1>6. /\ job' \in [Jobs -> Job \cup {None}]
      /\ job'[q.job] = r /\ r # None
      /\ \A k \in Jobs \ {q.job} : job'[k] = job[k]
      /\ \A k \in Jobs : Exists(k) => Exists(k)'
  BY <1>1, <1>3, <1>4, <1>5, JobWrite
<1>7. /\ asg' \in [Jobs -> Assignment \cup {None}]
      /\ asg'[q.job] = a
      /\ \A k \in Jobs \ {q.job} : asg'[k] = asg[k]
  BY <1>1, <1>2, <1>4, <1>5, AsgWrite
<1>8. TypeDb'
  <2>1. nextId' \in Nat \ {0}
    BY <1>4, <1>5 DEF TypeDb
  <2>2. unvetted' \in [Jobs -> SUBSET {"rep", "seats"}]
    BY <1>4, <1>5 DEF TypeDb
  <2>3. QED
    BY <1>4, <1>5, <1>6, <1>7, <2>1, <2>2 DEF TypeDb
<1>9. NoAssignedJobIsPending'
  BY <1>3, <1>6, <1>7 DEF NoAssignedJobIsPending, IInv, Rows
<1>10. LogsKeepTheirAssignment'
  BY <1>1, <1>4, <1>5, <1>7 DEF LogsKeepTheirAssignment, RowOf, IInv, Rows, TypeDb, Log
<1>11. OneGeneratedFee' /\ NoShowIsEvidenced'
  BY <1>4 DEF OneGeneratedFee, NoShowIsEvidenced, IInv, Rows
<1>12. Requests'
  <2>1. \A o \in Procs : req[o].at = "sync" => req[o].job # q.job
    BY <1>4 DEF RowFree
  <2>2. req[p] # Idle
    BY <1>4 DEF Idle, q
  <2>3. QED
    BY <1>1, <1>4, <1>6, <1>7, <2>1, <2>2, CommitKeepsRequests
<1>13. QED
  BY <1>8, <1>9, <1>10, <1>11, <1>12 DEF IInv, Rows

\* reassignJob's transaction: the row keeps its id, whoever holds it.
LEMMA ReassignCommitKeepsIInv ==
    ASSUME IInv, NEW p \in Procs, ReassignCommit(p)
    PROVE  IInv'
<1> DEFINE q == req[p]
           old == asg[q.job]
           a == [old EXCEPT
                   !.vehicle = Given(q.vehicle, old.vehicle),
                   !.driver = Given(q.driver, old.driver),
                   !.driverStatus = IF Replaced(q.driver, q.oldDriver) THEN "PENDING" ELSE @,
                   !.rep = Given(q.rep, old.rep),
                   !.repStatus = IF Replaced(q.rep, q.oldRep) THEN "PENDING" ELSE @]
<1>1. q \in ReassignReq /\ q.job \in Jobs
  BY RequestKinds DEF ReassignCommit, IInv, Requests, RequestOK, Idle
<1>2. old \in Assignment /\ old # None
  BY <1>1 DEF ReassignCommit, RowOf, IInv, Rows, TypeDb
<1>3. a \in Assignment /\ a.id = old.id
  <2>1. Given(q.vehicle, old.vehicle) \in Vehicles
    BY <1>1, <1>2 DEF ReassignReq, Assignment, Given
  <2>2. Given(q.driver, old.driver) \in Drivers \cup {None}
    BY <1>1, <1>2 DEF ReassignReq, Assignment, Given
  <2>3. Given(q.rep, old.rep) \in Reps \cup {None}
    BY <1>1, <1>2 DEF ReassignReq, Assignment, Given
  <2>4. QED
    BY <1>2, <2>1, <2>2, <2>3 DEF Assignment, PortalStatus
<1>4. /\ q.at = "reassign" /\ Done(p)
      /\ asg' = [asg EXCEPT ![q.job] = a]
      /\ unvetted' = [unvetted EXCEPT ![q.job] = @ \ (
                        (IF q.vehicle # Keep THEN {"seats"} ELSE {})
                          \cup (IF q.rep # Keep THEN {"rep"} ELSE {}))]
      /\ UNCHANGED <<job, logs, evidence, fees, inactive, nextId>>
  BY DEF ReassignCommit
<1>5. TypeDb
  BY DEF IInv, Rows
<1> HIDE DEF q, a, old
<1>6. /\ asg' \in [Jobs -> Assignment \cup {None}]
      /\ asg'[q.job] = a
      /\ \A k \in Jobs \ {q.job} : asg'[k] = asg[k]
  BY <1>1, <1>3, <1>4, <1>5, AsgWrite
<1>7. TypeDb'
  <2>1. unvetted' \in [Jobs -> SUBSET {"rep", "seats"}]
    BY <1>4, <1>5 DEF TypeDb
  <2>2. QED
    BY <1>4, <1>5, <1>6, <2>1 DEF TypeDb
<1>8. NoAssignedJobIsPending'
  BY <1>2, <1>4, <1>6 DEF NoAssignedJobIsPending, IInv, Rows, old
<1>9. a # None
  BY <1>3, NullAssumption
<1>10. LogsKeepTheirAssignment'
  <2>1. ASSUME NEW l \in logs PROVE asg'[l.job] # None /\ asg'[l.job].id = l.id
    <3>1. l.job \in Jobs /\ asg[l.job] # None /\ asg[l.job].id = l.id
      BY <1>5 DEF LogsKeepTheirAssignment, RowOf, IInv, Rows, TypeDb, Log
    <3>2. QED
      BY <1>3, <1>6, <1>9, <3>1 DEF old
  <2>2. QED
    BY <1>4, <2>1 DEF LogsKeepTheirAssignment, RowOf
<1>11. OneGeneratedFee' /\ NoShowIsEvidenced'
  BY <1>4 DEF OneGeneratedFee, NoShowIsEvidenced, IInv, Rows
<1>12. Requests'
  <2>1. \A k \in Jobs : Exists(k) => Exists(k)'
    BY <1>4 DEF Exists
  <2>2. req[p] # Idle
    BY <1>4 DEF Idle, q
  <2>3. QED
    BY <1>1, <1>4, <1>6, <1>9, <2>1, <2>2, CommitKeepsRequests
<1>13. QED
  BY <1>7, <1>8, <1>10, <1>11, <1>12 DEF IInv, Rows

\* unassignJob's transaction: only a row without a logged change goes.
LEMMA UnassignCommitKeepsIInv ==
    ASSUME IInv, NEW p \in Procs, UnassignCommit(p)
    PROVE  IInv'
<1> DEFINE q == req[p]
           r == [job[q.job] EXCEPT !.status = "PENDING"]
<1>1. q \in UnassignReq /\ q.job \in Jobs /\ job[q.job] \in Job
  BY RequestKinds DEF UnassignCommit, IInv, Requests, RequestOK, Idle, Rows, TypeDb, Exists
<1>2. r \in Job
  BY <1>1 DEF Job, JobStatus
<1>3. /\ q.at = "unassign" /\ RowFree(q.job) /\ RowOf(q.job, q.id) /\ Unreferenced(q.id)
      /\ Done(p)
      /\ asg' = [asg EXCEPT ![q.job] = None]
      /\ job' = [job EXCEPT ![q.job] = r]
      /\ unvetted' = [unvetted EXCEPT ![q.job] = {}]
      /\ UNCHANGED <<logs, evidence, fees, inactive, nextId>>
  BY DEF UnassignCommit
<1>4. TypeDb
  BY DEF IInv, Rows
<1> HIDE DEF q, r
<1>5. /\ job' \in [Jobs -> Job \cup {None}]
      /\ job'[q.job] = r /\ r # None
      /\ \A k \in Jobs \ {q.job} : job'[k] = job[k]
      /\ \A k \in Jobs : Exists(k) => Exists(k)'
  BY <1>1, <1>2, <1>3, <1>4, JobWrite
<1>6. /\ asg' \in [Jobs -> Assignment \cup {None}]
      /\ asg'[q.job] = None
      /\ \A k \in Jobs \ {q.job} : asg'[k] = asg[k]
  BY <1>1, <1>3, <1>4, AsgWrite
<1>7. TypeDb'
  <2>1. unvetted' \in [Jobs -> SUBSET {"rep", "seats"}]
    BY <1>3, <1>4 DEF TypeDb
  <2>2. QED
    BY <1>3, <1>4, <1>5, <1>6, <2>1 DEF TypeDb
<1>8. NoAssignedJobIsPending'
  BY <1>5, <1>6 DEF NoAssignedJobIsPending, IInv, Rows
<1>9. LogsKeepTheirAssignment'
  <2>1. ASSUME NEW l \in logs PROVE l.job \in Jobs \ {q.job}
    BY <1>3, <1>4 DEF LogsKeepTheirAssignment, RowOf, Unreferenced, IInv, Rows, TypeDb, Log
  <2>2. QED
    BY <1>3, <1>6, <2>1 DEF LogsKeepTheirAssignment, RowOf, IInv, Rows
<1>10. OneGeneratedFee' /\ NoShowIsEvidenced'
  BY <1>3 DEF OneGeneratedFee, NoShowIsEvidenced, IInv, Rows
<1>11. Requests'
  <2>1. \A o \in Procs : req[o].at = "sync" => req[o].job # q.job
    BY <1>3 DEF RowFree
  <2>2. req[p] # Idle
    BY <1>3 DEF Idle, q
  <2>3. QED
    BY <1>1, <1>3, <1>5, <1>6, <2>1, <2>2, CommitKeepsRequests
<1>12. QED
  BY <1>7, <1>8, <1>9, <1>10, <1>11 DEF IInv, Rows

-----------------------------------------------------------------------------
(***************************************************************************)
(* Everything that writes to a row of the jobs alone.                      *)
(***************************************************************************)

\* A write to a job's row that keeps it from PENDING where it was not PENDING.
LEMMA JobRowStep ==
    ASSUME IInv, NEW j \in Jobs, NEW r \in Job, job' = [job EXCEPT ![j] = r],
           asg[j] # None => r.status # "PENDING",
           unvetted' \in [Jobs -> SUBSET {"rep", "seats"}],
           UNCHANGED <<asg, logs, evidence, fees, inactive, nextId>>,
           req' \in [Procs -> Request],
           \A o \in Procs : req'[o] = Idle \/ req'[o] = req[o]
    PROVE  IInv'
<1>1. TypeDb
  BY DEF IInv, Rows
<1>2. /\ job' \in [Jobs -> Job \cup {None}]
      /\ job'[j] = r /\ r # None
      /\ \A k \in Jobs \ {j} : job'[k] = job[k]
      /\ \A k \in Jobs : Exists(k) => Exists(k)'
  BY <1>1, JobWrite
<1>3. TypeDb'
  BY <1>1, <1>2 DEF TypeDb
<1>4. NoAssignedJobIsPending'
  BY <1>2 DEF NoAssignedJobIsPending, IInv, Rows
<1>5. LogsKeepTheirAssignment' /\ OneGeneratedFee' /\ NoShowIsEvidenced'
  BY DEF LogsKeepTheirAssignment, RowOf, OneGeneratedFee, NoShowIsEvidenced, IInv, Rows
<1>6. Requests'
  BY <1>2, OthersKeepTheirRequests
<1>7. QED
  BY <1>3, <1>4, <1>5, <1>6 DEF IInv, Rows

\* A request that holds a job finds its row again.
LEMMA HeldJob ==
    ASSUME IInv, NEW p \in Procs, req[p].at # "idle"
    PROVE  /\ req[p] \in Request /\ req[p] # Idle /\ req[p].job \in Jobs
           /\ job[req[p].job] \in Job
           /\ asg[req[p].job] # None => job[req[p].job].status # "PENDING"
BY RequestKinds DEF IInv, Requests, RequestOK, Idle, Rows, TypeDb, Exists, NoAssignedJobIsPending

\* The job editor's update changes neither the status nor the assignment.
LEMMA EditCommitKeepsIInv ==
    ASSUME IInv, NEW p \in Procs, EditCommit(p)
    PROVE  IInv'
<1> DEFINE q == req[p]
           old == job[q.job]
           s == Given(q.sched, old.sched)
<1>1. q \in EditReq /\ q # Idle /\ q.job \in Jobs /\ old \in Job
  BY RequestKinds, HeldJob DEF EditCommit
<1>2. PICK late \in IF s.day = old.sched.day THEN {old.overdue} ELSE BOOLEAN :
        job' = [job EXCEPT ![q.job] =
          [old EXCEPT !.sched = s, !.pax = q.pax, !.overdue = late,
                      !.required = IF q.cash = Keep THEN @ ELSE q.cash = "yes",
                      !.collected = IF q.cash = "no" THEN FALSE ELSE @]]
  BY DEF EditCommit
<1> DEFINE r == [old EXCEPT !.sched = s, !.pax = q.pax, !.overdue = late,
                            !.required = IF q.cash = Keep THEN @ ELSE q.cash = "yes",
                            !.collected = IF q.cash = "no" THEN FALSE ELSE @]
<1>3. r \in Job /\ r.status = old.status
  <2>1. s \in Schedules /\ q.pax \in PaxCounts /\ late \in BOOLEAN
    BY <1>1 DEF EditReq, Job, Given
  <2>2. (IF q.cash = Keep THEN old.required ELSE q.cash = "yes") \in BOOLEAN
    BY <1>1 DEF Job
  <2>3. (IF q.cash = "no" THEN FALSE ELSE old.collected) \in BOOLEAN
    BY <1>1 DEF Job
  <2>4. QED
    BY <1>1, <2>1, <2>2, <2>3 DEF Job
<1>4. asg[q.job] # None => r.status # "PENDING"
  BY <1>3, HeldJob DEF EditCommit
<1>5. unvetted' \in [Jobs -> SUBSET {"rep", "seats"}]
  BY DEF EditCommit, IInv, Rows, TypeDb
<1>6. /\ req' \in [Procs -> Request]
      /\ \A o \in Procs : req'[o] = Idle \/ req'[o] = req[o]
  BY <1>1, DoneEndsOne DEF EditCommit
<1>7. UNCHANGED <<asg, logs, evidence, fees, inactive, nextId>>
  BY DEF EditCommit
<1>8. job' = [job EXCEPT ![q.job] = r]
  BY <1>2
<1> HIDE DEF q, old, s, r
<1>9. QED
  BY <1>1, <1>3, <1>4, <1>5, <1>6, <1>7, <1>8, JobRowStep

\* Deleting a job, marking its cash collected, liquidating it.
LEMMA RowCommitsKeepIInv ==
    ASSUME IInv, NEW p \in Procs,
           RemoveCommit(p) \/ MarkCollectedCommit(p) \/ LiquidateCommit(p)
    PROVE  IInv'
<1> DEFINE q == req[p]
           old == job[q.job]
           r == IF q.at = "remove" THEN [old EXCEPT !.deleted = TRUE]
                ELSE IF q.at = "collect" THEN [old EXCEPT !.collected = q.collected]
                ELSE [old EXCEPT !.liquidated = TRUE]
<1>1. q \in Request /\ q # Idle /\ q.job \in Jobs /\ old \in Job
  BY HeldJob DEF RemoveCommit, MarkCollectedCommit, LiquidateCommit
<1>2. q.at = "collect" => q.collected \in BOOLEAN
  BY <1>1, RequestKinds DEF CollectReq
<1>3. r \in Job /\ r.status = old.status
  BY <1>1, <1>2 DEF Job
<1>4. asg[q.job] # None => r.status # "PENDING"
  BY <1>3, HeldJob DEF RemoveCommit, MarkCollectedCommit, LiquidateCommit
<1>5. /\ job' = [job EXCEPT ![q.job] = r] /\ Done(p)
      /\ UNCHANGED <<asg, logs, evidence, fees, inactive, nextId, unvetted>>
  BY DEF RemoveCommit, MarkCollectedCommit, LiquidateCommit
<1>6. /\ req' \in [Procs -> Request]
      /\ \A o \in Procs : req'[o] = Idle \/ req'[o] = req[o]
  BY <1>1, <1>5, DoneEndsOne
<1>7. unvetted' \in [Jobs -> SUBSET {"rep", "seats"}]
  BY <1>5 DEF IInv, Rows, TypeDb
<1> HIDE DEF q, old, r
<1>8. QED
  BY <1>1, <1>3, <1>4, <1>5, <1>6, <1>7, JobRowStep

-----------------------------------------------------------------------------
(***************************************************************************)
(* The job editor: its loads, and the status update under the row lock.    *)
(***************************************************************************)

\* The first step of each request of the job editor and of the cash desk only loads rows.
LEMMA EditorLoads ==
    ASSUME IInv, NEW p \in Procs, NEW j \in Jobs
    PROVE  /\ \A s \in Schedules \cup {Keep}, n \in PaxCounts \cup {Keep}, cash \in {"yes", "no", Keep} :
                EditLoad(p, j, s, n, cash) => IInv'
           /\ \A to \in JobStatus : StatusLoad(p, j, to) => IInv'
           /\ RemoveLoad(p, j) => IInv'
           /\ LiquidateLoad(p, j) => IInv'
<1>1. job[j] # None => job[j] \in Job
  BY DEF IInv, Rows, TypeDb
<1>2. ASSUME NEW s \in Schedules \cup {Keep}, NEW n \in PaxCounts \cup {Keep},
             NEW cash \in {"yes", "no", Keep}, EditLoad(p, j, s, n, cash)
      PROVE  IInv'
  <2> DEFINE q == [at |-> "edit", job |-> j, sched |-> s,
                   pax |-> IF n = Keep THEN job[j].pax ELSE n, cash |-> cash]
  <2>1. Hold(p, q) /\ UNCHANGED db /\ job[j] # None
    BY <1>2 DEF EditLoad, Live, Exists
  <2>2. q \in EditReq
    BY <1>1, <2>1 DEF EditReq, Job
  <2>3. RequestOK(q)
    BY <2>1, <2>2 DEF RequestOK, Request, Exists
  <2>4. q.at # "sync"
    OBVIOUS
  <2> HIDE DEF q
  <2>5. QED
    BY <2>1, <2>3, <2>4, LoadKeepsIInv
<1>3. ASSUME NEW to \in JobStatus, StatusLoad(p, j, to) PROVE IInv'
  <2> DEFINE q == [at |-> "status", job |-> j, to |-> to]
  <2>1. Hold(p, q) /\ UNCHANGED db /\ job[j] # None /\ to \in ValidTransitions[job[j].status]
    BY <1>3 DEF StatusLoad, Live, Exists
  <2>2. q \in StatusReq
    BY DEF StatusReq
  <2>3. job[j].status \in JobStatus
    BY <1>1, <2>1 DEF Job
  <2>4. to # "PENDING"
    BY <2>1, <2>3, NoWayBackToPending
  <2>5. RequestOK(q)
    BY <2>1, <2>2, <2>4 DEF RequestOK, Request, Exists
  <2>6. q.at # "sync"
    OBVIOUS
  <2> HIDE DEF q
  <2>7. QED
    BY <2>1, <2>5, <2>6, LoadKeepsIInv
<1>4. ASSUME NEW at \in {"remove", "liquidate"}, job[j] # None, UNCHANGED db,
             Hold(p, [at |-> at, job |-> j])
      PROVE  IInv'
  <2> DEFINE q == [at |-> at, job |-> j]
  <2>1. q \in RowReq
    BY DEF RowReq
  <2>2. RequestOK(q)
    BY <1>4, <2>1 DEF RequestOK, Request, Exists
  <2>3. q.at # "sync" /\ Hold(p, q)
    BY <1>4
  <2> HIDE DEF q
  <2>4. QED
    BY <1>4, <2>2, <2>3, LoadKeepsIInv
<1>5. RemoveLoad(p, j) => IInv'
  BY <1>4 DEF RemoveLoad, Live, Exists
<1>6. LiquidateLoad(p, j) => IInv'
  BY <1>4 DEF LiquidateLoad, Live, Exists
<1>7. QED
  BY <1>2, <1>3, <1>5, <1>6

\* Taking the lock: the request knows the assignment and whether a fee is due.
LEMMA StatusWriteKeepsIInv ==
    ASSUME IInv, NEW p \in Procs, StatusWrite(p)
    PROVE  IInv'
<1> DEFINE q == req[p]
           held == asg[q.job] # None
           rep == IF held THEN asg[q.job].rep ELSE None
           due == /\ q.to = "COMPLETED"
                  /\ job[q.job].sched.service = "ARR"
                  /\ rep # None
                  /\ FeeMissing(q.job, rep)
           n == [at |-> "sync", job |-> q.job, to |-> q.to, held |-> held,
                 rep |-> rep, fee |-> due]
           r == [job[q.job] EXCEPT !.status = q.to]
<1>1. /\ q \in StatusReq /\ q # Idle /\ q.job \in Jobs /\ job[q.job] \in Job
      /\ q.to # "PENDING"
  BY RequestKinds, HeldJob DEF StatusWrite, IInv, Requests, RequestOK
<1>2. CASE q.to \in Terminal
  <2>1. Hold(p, n) /\ UNCHANGED db /\ RowFree(n.job)
    BY <1>2 DEF StatusWrite
  <2>2. rep \in Reps \cup {None}
    BY <1>1 DEF IInv, Rows, TypeDb, Assignment
  <2>3. due \in BOOLEAN /\ held \in BOOLEAN
    OBVIOUS
  <2>4. due => rep \in Reps /\ fees[q.job][rep].auto = 0
    BY <1>1, <2>2 DEF FeeMissing, IInv, Rows, TypeDb
  <2>5. job[q.job] # None
    BY <1>1, NullAssumption
  <2> HIDE DEF due, rep
  <2>6. n \in SyncReq
    BY <1>1, <1>2, <2>2, <2>3 DEF SyncReq
  <2>7. RequestOK(n)
    BY <1>1, <2>4, <2>5, <2>6 DEF RequestOK, Request, Exists
  <2> HIDE DEF n
  <2>8. QED
    BY <2>1, <2>7, LoadKeepsIInv
<1>3. CASE q.to \notin Terminal
  <2>1. /\ job' = [job EXCEPT ![q.job] = r] /\ Done(p)
        /\ UNCHANGED <<asg, logs, evidence, fees, inactive, nextId, unvetted>>
    BY <1>3 DEF StatusWrite
  <2>2. r \in Job /\ r.status = q.to
    BY <1>1 DEF Job, StatusReq
  <2>3. /\ req' \in [Procs -> Request]
        /\ \A o \in Procs : req'[o] = Idle \/ req'[o] = req[o]
    BY <1>1, <2>1, DoneEndsOne
  <2>4. unvetted' \in [Jobs -> SUBSET {"rep", "seats"}]
    BY <2>1 DEF IInv, Rows, TypeDb
  <2> HIDE DEF r, q
  <2>5. QED
    BY <1>1, <2>1, <2>2, <2>3, <2>4, JobRowStep
<1>4. QED
  BY <1>2, <1>3

\* updateStatus commits under the job's row lock: the fee it found missing still is.
LEMMA StatusSyncKeepsIInv ==
    ASSUME IInv, NEW p \in Procs, StatusSync(p)
    PROVE  IInv'
<1> DEFINE q == req[p]
           r == [job[q.job] EXCEPT !.status = q.to]
           old == asg[q.job]
           a == IF q.held THEN [old EXCEPT !.driverStatus = q.to, !.repStatus = q.to] ELSE old
<1>1. /\ q \in SyncReq /\ q # Idle /\ q.job \in Jobs /\ job[q.job] \in Job
      /\ q.to # "PENDING" /\ q.at = "sync"
      /\ q.held => old # None
      /\ q.fee => q.rep \in Reps /\ fees[q.job][q.rep].auto = 0
  BY RequestKinds, HeldJob DEF StatusSync, IInv, Requests, RequestOK
<1>2. /\ job' = [job EXCEPT ![q.job] = r] /\ Done(p)
      /\ asg' = [asg EXCEPT ![q.job] = a]
      /\ UNCHANGED <<logs, evidence, inactive, nextId, unvetted>>
  BY DEF StatusSync, IInv, Rows, TypeDb
<1>3. r \in Job /\ r.status = q.to
  BY <1>1 DEF Job, SyncReq, JobStatus, Terminal
<1>4. /\ a \in Assignment \cup {None}
      /\ old # None => a # None /\ a.id = old.id
      /\ old = None => a = None
  <2>1. old \in Assignment \cup {None} /\ (old \in Assignment => old # None)
    BY <1>1, NullAssumption DEF IInv, Rows, TypeDb
  <2>2. CASE q.held
    <3>1. a \in Assignment /\ a.id = old.id
      BY <1>1, <2>1, <2>2 DEF Assignment, SyncReq, Terminal, PortalStatus
    <3>2. QED
      BY <1>1, <2>2, <3>1, NullAssumption
  <2>3. CASE ~q.held
    BY <2>1, <2>3
  <2>4. QED
    BY <2>2, <2>3
<1>5. TypeDb
  BY DEF IInv, Rows
<1>6. fees' = IF q.fee THEN [fees EXCEPT ![q.job][q.rep].auto = @ + 1] ELSE fees
  BY DEF StatusSync
<1>7. \A o \in Procs \ {p} : req[o].at = "sync" => req[o].job # q.job
  BY <1>1 DEF IInv, Requests, OneWriter
<1> HIDE DEF q, r, old, a
<1>8. /\ job' \in [Jobs -> Job \cup {None}]
      /\ job'[q.job] = r /\ r # None
      /\ \A k \in Jobs \ {q.job} : job'[k] = job[k]
      /\ \A k \in Jobs : Exists(k) => Exists(k)'
  BY <1>1, <1>2, <1>3, <1>5, JobWrite
<1>9. /\ asg' \in [Jobs -> Assignment \cup {None}]
      /\ asg'[q.job] = a
      /\ \A k \in Jobs \ {q.job} : asg'[k] = asg[k]
  BY <1>1, <1>2, <1>4, <1>5, AsgWrite
<1>10. /\ fees' \in [Jobs -> [Reps -> [auto : Nat, manual : Nat]]]
       /\ \A k \in Jobs \ {q.job} : fees'[k] = fees[k]
       /\ \A x \in Reps : fees'[q.job][x].auto <= 1
  <2>1. CASE q.fee
    <3> DEFINE row == [fees[q.job][q.rep] EXCEPT !.auto = @ + 1]
               pay == [fees[q.job] EXCEPT ![q.rep] = row]
    <3>1. row \in [auto : Nat, manual : Nat] /\ row.auto = 1
      BY <1>1, <1>5, <2>1 DEF TypeDb
    <3>2. fees' = [fees EXCEPT ![q.job] = pay]
      BY <1>6, <2>1
    <3> HIDE DEF row
    <3>3. pay \in [Reps -> [auto : Nat, manual : Nat]]
      BY <1>1, <1>5, <2>1, <3>1 DEF TypeDb
    <3>4. \A x \in Reps : pay[x].auto <= 1
      BY <1>1, <1>5, <2>1, <3>1 DEF TypeDb, OneGeneratedFee, IInv, Rows
    <3> HIDE DEF pay
    <3>5. QED
      BY <1>1, <1>5, <3>2, <3>3, <3>4 DEF TypeDb
  <2>2. CASE ~q.fee
    BY <1>1, <1>5, <1>6, <2>2 DEF TypeDb, OneGeneratedFee, IInv, Rows
  <2>3. QED
    BY <2>1, <2>2
<1>11. TypeDb'
  BY <1>2, <1>5, <1>8, <1>9, <1>10 DEF TypeDb
<1>12. NoAssignedJobIsPending'
  BY <1>1, <1>3, <1>8, <1>9 DEF NoAssignedJobIsPending, IInv, Rows
<1>13. OneGeneratedFee'
  BY <1>1, <1>10 DEF OneGeneratedFee, IInv, Rows
<1>14. LogsKeepTheirAssignment'
  <2>1. ASSUME NEW l \in logs PROVE asg'[l.job] # None /\ asg'[l.job].id = l.id
    <3>1. l.job \in Jobs /\ asg[l.job] # None /\ asg[l.job].id = l.id
      BY <1>5 DEF LogsKeepTheirAssignment, RowOf, IInv, Rows, TypeDb, Log
    <3>2. QED
      BY <1>4, <1>9, <3>1 DEF old
  <2>2. QED
    BY <1>2, <2>1 DEF LogsKeepTheirAssignment, RowOf
<1>15. NoShowIsEvidenced'
  BY <1>2 DEF NoShowIsEvidenced, IInv, Rows
<1>16. Requests'
  <2>1. req[p] # Idle
    BY <1>1 DEF q
  <2>2. QED
    BY <1>1, <1>2, <1>7, <1>8, <1>9, <1>10, <2>1, CommitKeepsRequests
<1>17. QED
  BY <1>11, <1>12, <1>13, <1>14, <1>15, <1>16 DEF IInv, Rows

-----------------------------------------------------------------------------
(***************************************************************************)
(* The portals.                                                            *)
(***************************************************************************)

\* A portal request that was let in remembers the assignment it reports on.
LEMMA ReportLoad ==
    ASSUME IInv, NEW p \in Procs, NEW j \in Jobs, asg[j] # None, UNCHANGED db,
           NEW at \in {"driver", "rep", "driver_no_show", "rep_no_show"},
           NEW who \in Drivers \cup Reps,
           NEW from \in PortalStatus, NEW to \in PortalStatus,
           at \in {"driver", "rep"} <=> to # "NO_SHOW",
           PortalHold(p, at, j, who, from, to)
    PROVE  IInv'
<1> DEFINE q == [at |-> at, job |-> j, id |-> asg[j].id, who |-> who, from |-> from, to |-> to]
<1>1. asg[j] \in Assignment /\ job[j] # None
  BY DEF IInv, Rows, TypeDb, NoAssignedJobIsPending
<1>2. q \in PortalReq
  BY <1>1 DEF PortalReq, Assignment
<1>3. RequestOK(q)
  BY <1>1, <1>2 DEF RequestOK, Request, Exists
<1>4. q.at # "sync" /\ Hold(p, q)
  BY DEF PortalHold
<1> HIDE DEF q
<1>5. QED
  BY <1>3, <1>4, LoadKeepsIInv

\* The first step of each portal request only loads rows.
LEMMA PortalLoads ==
    ASSUME IInv, NEW p \in Procs, NEW j \in Jobs
    PROVE  /\ \A d \in Drivers, to \in PortalStatus : DriverUpdateLoad(p, d, j, to) => IInv'
           /\ \A r \in Reps, to \in PortalStatus : RepUpdateLoad(p, r, j, to) => IInv'
           /\ \A d \in Drivers : DriverNoShowLoad(p, d, j) => IInv'
           /\ \A r \in Reps : RepNoShowLoad(p, r, j) => IInv'
           /\ \A d \in Drivers, collected \in BOOLEAN : MarkCollectedLoad(p, d, j, collected) => IInv'
           /\ \A s \in Suppliers : SupplierCompleteLoad(p, s, j) => IInv'
<1>1. asg[j] # None => asg[j] \in Assignment /\ job[j] # None
  BY DEF IInv, Rows, TypeDb, NoAssignedJobIsPending
<1>2. asg[j] # None => asg[j].driverStatus \in PortalStatus /\ asg[j].repStatus \in PortalStatus
  BY <1>1 DEF Assignment
<1>3. ASSUME NEW d \in Drivers, NEW to \in PortalStatus, DriverUpdateLoad(p, d, j, to) PROVE IInv'
  BY <1>2, <1>3, ReportLoad, NoShowHasItsEndpoint DEF DriverUpdateLoad
<1>4. ASSUME NEW r \in Reps, NEW to \in PortalStatus, RepUpdateLoad(p, r, j, to) PROVE IInv'
  BY <1>2, <1>4, ReportLoad, NoShowHasItsEndpoint DEF RepUpdateLoad
<1>5. "NO_SHOW" \in PortalStatus
  BY DEF PortalStatus
<1>6. ASSUME NEW d \in Drivers, DriverNoShowLoad(p, d, j) PROVE IInv'
  BY <1>2, <1>5, <1>6, ReportLoad DEF DriverNoShowLoad
<1>7. ASSUME NEW r \in Reps, RepNoShowLoad(p, r, j) PROVE IInv'
  BY <1>2, <1>5, <1>7, ReportLoad DEF RepNoShowLoad
<1>8. ASSUME NEW d \in Drivers, NEW collected \in BOOLEAN, MarkCollectedLoad(p, d, j, collected)
      PROVE  IInv'
  <2> DEFINE q == [at |-> "collect", job |-> j, collected |-> collected]
  <2>1. Hold(p, q) /\ UNCHANGED db /\ job[j] # None
    BY <1>1, <1>8 DEF MarkCollectedLoad
  <2>2. q \in CollectReq /\ q.at # "sync"
    BY DEF CollectReq
  <2>3. RequestOK(q)
    BY <2>1, <2>2 DEF RequestOK, Request, Exists
  <2> HIDE DEF q
  <2>4. QED
    BY <2>1, <2>2, <2>3, LoadKeepsIInv
<1>9. ASSUME NEW s \in Suppliers, SupplierCompleteLoad(p, s, j) PROVE IInv'
  <2> DEFINE q == [at |-> "supplier", job |-> j, id |-> asg[j].id]
  <2>1. Hold(p, q) /\ UNCHANGED db /\ job[j] # None /\ asg[j] \in Assignment
    BY <1>1, <1>9 DEF SupplierCompleteLoad
  <2>2. q \in SupplierReq /\ q.at # "sync"
    BY <2>1 DEF SupplierReq, Assignment
  <2>3. RequestOK(q)
    BY <2>1, <2>2 DEF RequestOK, Request, Exists
  <2> HIDE DEF q
  <2>4. QED
    BY <2>1, <2>2, <2>3, LoadKeepsIInv
<1>10. QED
  BY <1>3, <1>4, <1>6, <1>7, <1>8, <1>9

\* What the two writes of a report leave true.
LEMMA ReportKeeps ==
    ASSUME IInv, NEW p \in Procs, NEW by \in {"DRIVER", "REP"},
           req[p] \in PortalReq, Report(req[p], by), Done(p), req[p] # Idle,
           evidence' \subseteq Evidence,
           UNCHANGED <<job, fees, inactive, nextId, unvetted>>
    PROVE  /\ TypeDb' /\ NoAssignedJobIsPending' /\ OneGeneratedFee'
           /\ LogsKeepTheirAssignment' /\ Requests'
<1> DEFINE q == req[p]
           old == asg[q.job]
           a == IF by = "DRIVER" THEN [old EXCEPT !.driverStatus = q.to]
                                 ELSE [old EXCEPT !.repStatus = q.to]
           l == [job |-> q.job, id |-> q.id, by |-> by, who |-> q.who, from |-> q.from, to |-> q.to]
<1>1. q \in PortalReq /\ q.job \in Jobs
  BY DEF PortalReq
<1>2. old \in Assignment /\ old # None /\ old.id = q.id
  BY <1>1 DEF Report, RowOf, IInv, Rows, TypeDb
<1>3. a \in Assignment /\ a.id = q.id
  BY <1>1, <1>2 DEF Assignment, PortalReq
<1>4. a # None
  BY <1>3, NullAssumption
<1>5. asg' = [asg EXCEPT ![q.job] = a] /\ logs' = logs \cup {l}
  BY DEF Report
<1>6. l \in Log /\ l.job = q.job /\ l.id = q.id
  BY <1>1 DEF Log, PortalReq
<1>7. TypeDb
  BY DEF IInv, Rows
<1>8. Done(p) /\ q # Idle
  OBVIOUS
<1> HIDE DEF q, old, a, l
<1>9. /\ asg' \in [Jobs -> Assignment \cup {None}]
      /\ asg'[q.job] = a
      /\ \A k \in Jobs \ {q.job} : asg'[k] = asg[k]
  BY <1>1, <1>3, <1>5, <1>7, AsgWrite
<1>10. TypeDb'
  BY <1>5, <1>6, <1>7, <1>9 DEF TypeDb
<1>11. NoAssignedJobIsPending'
  BY <1>1, <1>2, <1>9 DEF NoAssignedJobIsPending, IInv, Rows, old
<1>12. OneGeneratedFee'
  BY DEF OneGeneratedFee, IInv, Rows
<1>13. LogsKeepTheirAssignment'
  <2>1. ASSUME NEW m \in logs PROVE asg'[m.job] # None /\ asg'[m.job].id = m.id
    <3>1. m.job \in Jobs /\ asg[m.job] # None /\ asg[m.job].id = m.id
      BY <1>7 DEF LogsKeepTheirAssignment, RowOf, IInv, Rows, TypeDb, Log
    <3>2. QED
      BY <1>2, <1>3, <1>4, <1>9, <3>1 DEF old
  <2>2. asg'[l.job] # None /\ asg'[l.job].id = l.id
    BY <1>1, <1>3, <1>4, <1>6, <1>9
  <2>3. QED
    BY <1>5, <2>1, <2>2 DEF LogsKeepTheirAssignment, RowOf
<1>14. Requests'
  <2>1. \A k \in Jobs : Exists(k) => Exists(k)'
    BY DEF Exists
  <2>2. QED
    BY <1>1, <1>4, <1>8, <1>9, <2>1, CommitKeepsRequests DEF q
<1>15. QED
  BY <1>10, <1>11, <1>12, <1>13, <1>14

\* A status update of a portal is never a no-show.
LEMMA UpdateCommitsKeepIInv ==
    ASSUME IInv, NEW p \in Procs, DriverUpdateCommit(p) \/ RepUpdateCommit(p)
    PROVE  IInv'
<1>1. PICK by \in {"DRIVER", "REP"} : Report(req[p], by)
  BY DEF DriverUpdateCommit, RepUpdateCommit
<1>2. /\ req[p].at \in {"driver", "rep"} /\ Done(p)
      /\ UNCHANGED <<job, evidence, fees, inactive, nextId, unvetted>>
  BY DEF DriverUpdateCommit, RepUpdateCommit
<1>3. req[p] \in PortalReq /\ req[p] # Idle /\ req[p].to # "NO_SHOW"
  BY <1>2, RequestKinds DEF IInv, Requests, RequestOK, Idle
<1>4. evidence' \subseteq Evidence
  BY <1>2 DEF IInv, Rows, TypeDb
<1>5. /\ TypeDb' /\ NoAssignedJobIsPending' /\ OneGeneratedFee'
      /\ LogsKeepTheirAssignment' /\ Requests'
  BY <1>1, <1>2, <1>3, <1>4, ReportKeeps
<1>6. NoShowIsEvidenced'
  <2>1. {l \in logs' : l.to = "NO_SHOW"} = {l \in logs : l.to = "NO_SHOW"}
    BY <1>1, <1>3 DEF Report
  <2>2. QED
    BY <1>2, <2>1 DEF NoShowIsEvidenced, IInv, Rows
<1>7. QED
  BY <1>5, <1>6 DEF IInv, Rows

\* A no-show and its evidence are written together, and the unique key of the
\* evidence refuses a second one.
LEMMA NoShowCommitKeepsIInv ==
    ASSUME IInv, NEW p \in Procs, NEW by \in {"DRIVER", "REP"}, NoShowCommit(p, by)
    PROVE  IInv'
<1> DEFINE q == req[p]
           e == [job |-> q.job, by |-> by]
           m == [job |-> q.job, id |-> q.id, by |-> by, who |-> q.who, from |-> q.from, to |-> q.to]
<1>1. /\ q.at \in {"driver_no_show", "rep_no_show"} /\ Done(p) /\ Report(q, by)
      /\ e \notin evidence /\ evidence' = evidence \cup {e}
      /\ UNCHANGED <<job, fees, inactive, nextId, unvetted>>
  BY DEF NoShowCommit, EvidenceFree
<1>2. q \in PortalReq /\ q # Idle /\ q.job \in Jobs
  BY <1>1, RequestKinds DEF IInv, Requests, RequestOK, Idle
<1>3. e \in Evidence
  BY <1>2 DEF Evidence
<1>4. evidence' \subseteq Evidence
  BY <1>1, <1>3 DEF IInv, Rows, TypeDb
<1>5. /\ TypeDb' /\ NoAssignedJobIsPending' /\ OneGeneratedFee'
      /\ LogsKeepTheirAssignment' /\ Requests'
  BY <1>1, <1>2, <1>4, ReportKeeps
<1>6. logs' = logs \cup {m} /\ m.job = q.job /\ m.by = by /\ e.job = q.job /\ e.by = by
  BY <1>1 DEF Report
<1>7. NoShowIsEvidenced
  BY DEF IInv, Rows
<1>8. logs \subseteq Log /\ evidence \subseteq Evidence
  BY DEF IInv, Rows, TypeDb
<1> HIDE DEF m
<1>9. m.to = "NO_SHOW"
  BY <1>1 DEF m, IInv, Requests, RequestOK
<1>10. NoShowIsEvidenced'
  <2> DEFINE NoShows == {l \in logs : l.to = "NO_SHOW"}
             After == {l \in logs' : l.to = "NO_SHOW"}
  <2>1. After = NoShows \cup {m}
    BY <1>6, <1>9
  <2>2. \A l \in NoShows : ~(l.job = q.job /\ l.by = by)
    BY <1>1, <1>7, <1>8 DEF NoShowIsEvidenced
  <2>3. \A l \in After : [job |-> l.job, by |-> l.by] \in evidence'
    BY <1>1, <1>6, <1>7, <2>1 DEF NoShowIsEvidenced
  <2>4. \A x \in evidence' : \E l \in After : l.job = x.job /\ l.by = x.by
    BY <1>1, <1>6, <1>7, <2>1 DEF NoShowIsEvidenced
  <2>5. \A l, n \in After : l.job = n.job /\ l.by = n.by => l = n
    BY <1>6, <1>7, <2>1, <2>2 DEF NoShowIsEvidenced
  <2>6. QED
    BY <2>3, <2>4, <2>5 DEF NoShowIsEvidenced
<1>11. QED
  BY <1>5, <1>10 DEF IInv, Rows

\* completeJob of the supplier portal changes the supplier's status alone.
LEMMA SupplierCommitKeepsIInv ==
    ASSUME IInv, NEW p \in Procs, SupplierCompleteCommit(p)
    PROVE  IInv'
<1> DEFINE q == req[p]
           old == asg[q.job]
           a == [old EXCEPT !.supplierStatus = "COMPLETED"]
<1>1. q \in SupplierReq /\ q # Idle /\ q.job \in Jobs
  BY RequestKinds DEF SupplierCompleteCommit, IInv, Requests, RequestOK, Idle
<1>2. old \in Assignment
  BY <1>1 DEF SupplierCompleteCommit, RowOf, IInv, Rows, TypeDb
<1>3. a \in Assignment /\ a.id = old.id
  BY <1>2 DEF Assignment, PortalStatus
<1>4. a # None /\ old # None
  BY <1>2, <1>3, NullAssumption
<1>5. /\ asg' = [asg EXCEPT ![q.job] = a] /\ Done(p)
      /\ UNCHANGED <<job, logs, evidence, fees, inactive, nextId, unvetted>>
  BY DEF SupplierCompleteCommit
<1>6. TypeDb
  BY DEF IInv, Rows
<1> HIDE DEF q, old, a
<1>7. /\ asg' \in [Jobs -> Assignment \cup {None}]
      /\ asg'[q.job] = a
      /\ \A k \in Jobs \ {q.job} : asg'[k] = asg[k]
  BY <1>1, <1>3, <1>5, <1>6, AsgWrite
<1>8. TypeDb'
  BY <1>5, <1>6, <1>7 DEF TypeDb
<1>9. NoAssignedJobIsPending' /\ OneGeneratedFee' /\ NoShowIsEvidenced'
  BY <1>4, <1>5, <1>7 DEF NoAssignedJobIsPending, OneGeneratedFee, NoShowIsEvidenced, IInv, Rows, old
<1>10. LogsKeepTheirAssignment'
  <2>1. ASSUME NEW l \in logs PROVE asg'[l.job] # None /\ asg'[l.job].id = l.id
    <3>1. l.job \in Jobs /\ asg[l.job] # None /\ asg[l.job].id = l.id
      BY <1>6 DEF LogsKeepTheirAssignment, RowOf, IInv, Rows, TypeDb, Log
    <3>2. QED
      BY <1>3, <1>4, <1>7, <3>1 DEF old
  <2>2. QED
    BY <1>5, <2>1 DEF LogsKeepTheirAssignment, RowOf
<1>11. Requests'
  <2>1. \A k \in Jobs : Exists(k) => Exists(k)'
    BY <1>5 DEF Exists
  <2>2. QED
    BY <1>1, <1>4, <1>5, <1>7, <2>1, CommitKeepsRequests DEF q
<1>12. QED
  BY <1>8, <1>9, <1>10, <1>11 DEF IInv, Rows

-----------------------------------------------------------------------------
(***************************************************************************)
(* Steps of one write, and requests that come to nothing.                  *)
(***************************************************************************)

\* A new job is PENDING and has no assignment.
LEMMA CreateJobKeepsIInv ==
    ASSUME IInv, NEW j \in Jobs, NEW s \in Schedules, NEW n \in PaxCounts, NEW cash \in BOOLEAN,
           CreateJob(j, s, n, cash)
    PROVE  IInv'
<1> DEFINE r == [status |-> "PENDING", deleted |-> FALSE, sched |-> s, pax |-> n,
                 required |-> cash, collected |-> FALSE, liquidated |-> FALSE,
                 overdue |-> FALSE, weekOld |-> FALSE, unlocked |-> {}]
<1>1. r \in Job
  BY DEF Job, JobStatus
<1>2. /\ job' = [job EXCEPT ![j] = r]
      /\ UNCHANGED <<asg, logs, evidence, fees, inactive, nextId, unvetted, req>>
  BY DEF CreateJob
<1>3. asg[j] = None
  BY DEF CreateJob, IInv, Rows, NoAssignedJobIsPending
<1>4. /\ unvetted' \in [Jobs -> SUBSET {"rep", "seats"}]
      /\ req' \in [Procs -> Request] /\ \A o \in Procs : req'[o] = req[o]
  BY <1>2 DEF IInv, Rows, TypeDb, Requests
<1> HIDE DEF r
<1>5. QED
  BY <1>1, <1>2, <1>3, <1>4, JobRowStep

\* The locks and the calendar.
LEMMA MarksKeepIInv ==
    ASSUME IInv, NEW j \in Jobs,
           \/ \E tab \in LockTabs : UnlockJob(tab, j) \/ LockJob(tab, j)
           \/ BecomeOverdue(j) \/ BecomeWeekOld(j)
    PROVE  IInv'
<1>1. /\ job[j] \in Job /\ asg[j] # None => job[j].status # "PENDING"
      /\ UNCHANGED <<asg, logs, evidence, fees, inactive, nextId, unvetted, req>>
  BY DEF UnlockJob, LockJob, BecomeOverdue, BecomeWeekOld, Live, Exists,
         IInv, Rows, TypeDb, NoAssignedJobIsPending
<1>2. job[j] \in Job
  BY DEF UnlockJob, LockJob, BecomeOverdue, BecomeWeekOld, Live, Exists, IInv, Rows, TypeDb
<1>3. /\ unvetted' \in [Jobs -> SUBSET {"rep", "seats"}]
      /\ req' \in [Procs -> Request] /\ \A o \in Procs : req'[o] = req[o]
  BY <1>1 DEF IInv, Rows, TypeDb, Requests
<1>4. ASSUME NEW r \in Job, job' = [job EXCEPT ![j] = r], r.status = job[j].status
      PROVE  IInv'
  BY <1>1, <1>3, <1>4, JobRowStep DEF IInv, Rows, NoAssignedJobIsPending
<1>5. ASSUME NEW tab \in LockTabs, UnlockJob(tab, j) PROVE IInv'
  <2> DEFINE r == [job[j] EXCEPT !.unlocked = @ \cup {tab}]
  <2>1. r \in Job /\ r.status = job[j].status
    BY <1>2, BoundsAssumption DEF Job
  <2>2. job' = [job EXCEPT ![j] = r]
    BY <1>5 DEF UnlockJob
  <2>3. QED
    BY <1>4, <2>1, <2>2
<1>6. ASSUME NEW tab \in LockTabs, LockJob(tab, j) PROVE IInv'
  <2> DEFINE r == [job[j] EXCEPT !.unlocked = @ \ {tab}]
  <2>1. r \in Job /\ r.status = job[j].status
    BY <1>2 DEF Job
  <2>2. job' = [job EXCEPT ![j] = r]
    BY <1>6 DEF LockJob
  <2>3. QED
    BY <1>4, <2>1, <2>2
<1>7. ASSUME BecomeOverdue(j) PROVE IInv'
  <2> DEFINE r == [job[j] EXCEPT !.overdue = TRUE]
  <2>1. r \in Job /\ r.status = job[j].status
    BY <1>2 DEF Job
  <2>2. job' = [job EXCEPT ![j] = r]
    BY <1>7 DEF BecomeOverdue
  <2>3. QED
    BY <1>4, <2>1, <2>2
<1>8. ASSUME BecomeWeekOld(j) PROVE IInv'
  <2> DEFINE r == [job[j] EXCEPT !.weekOld = TRUE]
  <2>1. r \in Job /\ r.status = job[j].status
    BY <1>2 DEF Job
  <2>2. job' = [job EXCEPT ![j] = r]
    BY <1>8 DEF BecomeWeekOld
  <2>3. QED
    BY <1>4, <2>1, <2>2
<1>9. QED
  BY <1>5, <1>6, <1>7, <1>8

\* A fee entered by hand is no generated fee; switching something off touches no row.
LEMMA FeesAndTogglesKeepIInv ==
    ASSUME IInv,
           \/ \E j \in Jobs, r \in Reps : CreateRepFee(j, r)
           \/ \E x \in Vehicles \cup Drivers \cup Reps : ToggleStatus(x)
    PROVE  IInv'
<1>1. /\ UNCHANGED <<job, asg, logs, evidence, nextId, unvetted, req>>
      /\ inactive' \subseteq Vehicles \cup Drivers \cup Reps
  BY DEF CreateRepFee, ToggleStatus, IInv, Rows, TypeDb
<1>2. /\ fees' \in [Jobs -> [Reps -> [auto : Nat, manual : Nat]]]
      /\ \A k \in Jobs, x \in Reps : fees'[k][x].auto = fees[k][x].auto
  <2>1. CASE \E x \in Vehicles \cup Drivers \cup Reps : ToggleStatus(x)
    BY <2>1 DEF ToggleStatus, IInv, Rows, TypeDb
  <2>2. ASSUME NEW j \in Jobs, NEW r \in Reps, CreateRepFee(j, r)
        PROVE  /\ fees' \in [Jobs -> [Reps -> [auto : Nat, manual : Nat]]]
               /\ \A k \in Jobs, x \in Reps : fees'[k][x].auto = fees[k][x].auto
    <3> DEFINE row == [fees[j][r] EXCEPT !.manual = @ + 1]
               pay == [fees[j] EXCEPT ![r] = row]
    <3>1. row \in [auto : Nat, manual : Nat] /\ row.auto = fees[j][r].auto
      BY DEF IInv, Rows, TypeDb
    <3>2. fees' = [fees EXCEPT ![j] = pay]
      BY <2>2 DEF CreateRepFee
    <3> HIDE DEF row
    <3>3. pay \in [Reps -> [auto : Nat, manual : Nat]]
      BY <3>1 DEF IInv, Rows, TypeDb
    <3>4. \A x \in Reps : pay[x].auto = fees[j][x].auto
      BY <3>1 DEF IInv, Rows, TypeDb
    <3> HIDE DEF pay
    <3>5. QED
      BY <3>2, <3>3, <3>4 DEF IInv, Rows, TypeDb
  <2>3. QED
    BY <2>1, <2>2
<1>3. TypeDb'
  BY <1>1, <1>2 DEF IInv, Rows, TypeDb
<1>4. NoAssignedJobIsPending' /\ LogsKeepTheirAssignment' /\ NoShowIsEvidenced' /\ OneGeneratedFee'
  BY <1>1, <1>2 DEF NoAssignedJobIsPending, LogsKeepTheirAssignment, RowOf,
         NoShowIsEvidenced, OneGeneratedFee, IInv, Rows
<1>5. Requests'
  <2>1. \A o \in Procs : req[o].at = "sync" => req[o].job \in Jobs
    BY RequestKinds DEF IInv, Requests, RequestOK, Idle
  <2>2. /\ req' \in [Procs -> Request]
        /\ \A o \in Procs : req'[o] = req[o]
        /\ \A k \in Jobs : Exists(k) => Exists(k)'
    BY <1>1 DEF IInv, Requests, Exists
  <2>3. QED
    BY <1>1, <1>2, <2>1, <2>2, OthersKeepTheirRequests
<1>6. QED
  BY <1>3, <1>4, <1>5 DEF IInv, Rows

\* A request that fails leaves everything as it was.
LEMMA DropKeepsIInv ==
    ASSUME IInv, NEW p \in Procs, Drop(p)
    PROVE  IInv'
<1>1. Idle \in Request /\ RequestOK(Idle) /\ Idle.at # "sync"
  BY DEF RequestOK, Request, Idle
<1>2. QED
  BY <1>1, LoadKeepsIInv DEF Drop, Done

-----------------------------------------------------------------------------
(***************************************************************************)
(* Sealed jobs.                                                            *)
(***************************************************************************)

\* What SealedJobsStayQuiet asks of one step and one quiet job.
StaysQuiet(j) ==
    /\ Quiet(j)' \/ ~job'[j].overdue \/ job'[j].unlocked # {}
    /\ \A l \in logs' \ logs : l.job # j
    /\ \A e \in evidence' \ evidence : e.job # j
    /\ job'[j].collected => job[j].collected

\* A step that holds no new portal request for the job, reports nothing and leaves
\* the job's row alone.
LEMMA StepBesideJob ==
    ASSUME IInv, NEW j \in Jobs, Quiet(j), job'[j] = job[j],
           UNCHANGED <<logs, evidence>>,
           \A o \in Procs : req'[o] # req[o] =>
               req'[o].at \notin PortalSteps \/ req'[o].job # j
    PROVE  StaysQuiet(j)
BY DEF StaysQuiet, Quiet, Exists

\* The end of a request that wrote the row of a job, and no more.
LEMMA StepOnRow ==
    ASSUME IInv, NEW j \in Jobs, Quiet(j), job'[j] # None,
           job'[j].collected => job[j].collected,
           UNCHANGED <<logs, evidence>>,
           \A o \in Procs : req'[o] # req[o] =>
               req'[o].at \notin PortalSteps \/ req'[o].job # j
    PROVE  StaysQuiet(j)
BY DEF StaysQuiet, Quiet, Exists

\* What a request holds next.
LEMMA HoldIsOne ==
    ASSUME IInv, NEW p \in Procs, NEW r, Hold(p, r)
    PROVE  \A o \in Procs : req'[o] = IF o = p THEN r ELSE req[o]
BY DEF IInv, Requests, Hold

\* The dispatch console opens no lock and reports nothing.
LEMMA ConsoleStaysQuiet ==
    ASSUME IInv, NEW j \in Jobs, Quiet(j), NEW p \in Procs, Console(p)
    PROVE  StaysQuiet(j)
<1>1. Idle.at = "idle"
  BY DEF Idle
<1>2. ASSUME NEW r, Hold(p, r), UNCHANGED db, r.at \notin PortalSteps
      PROVE  StaysQuiet(j)
  BY <1>2, HoldIsOne, StepBesideJob DEF db
<1>3. CASE \E role \in Roles, k \in Jobs :
             \/ \E v \in Vehicles, d \in Drivers \cup {None}, r \in Reps \cup {None} :
                  AssignLoad(p, role, k, v, d, r)
             \/ \E v \in Vehicles \cup {Keep}, d \in Drivers \cup {None, Keep},
                   r \in Reps \cup {None, Keep} : ReassignLoad(p, role, k, v, d, r)
             \/ UnassignLoad(p, role, k)
  <2>1. ASSUME NEW role \in Roles, NEW k \in Jobs, NEW v \in Vehicles,
               NEW d \in Drivers \cup {None}, NEW r \in Reps \cup {None},
               AssignLoad(p, role, k, v, d, r)
        PROVE  StaysQuiet(j)
    BY <1>2, <2>1 DEF AssignLoad, PortalSteps
  <2>2. ASSUME NEW role \in Roles, NEW k \in Jobs, NEW v \in Vehicles \cup {Keep},
               NEW d \in Drivers \cup {None, Keep}, NEW r \in Reps \cup {None, Keep},
               ReassignLoad(p, role, k, v, d, r)
        PROVE  StaysQuiet(j)
    BY <1>2, <2>2 DEF ReassignLoad, PortalSteps
  <2>3. ASSUME NEW role \in Roles, NEW k \in Jobs, UnassignLoad(p, role, k)
        PROVE  StaysQuiet(j)
    BY <1>2, <2>3 DEF UnassignLoad, PortalSteps
  <2>4. QED
    BY <1>3, <2>1, <2>2, <2>3
<1>4. CASE AssignCheck(p) \/ ReassignCheck(p)
  <2>1. CASE AssignCheck(p)
    <3>1. req[p] \in AssignReq /\ req[p].at = "assign_check"
      BY <2>1, RequestKinds DEF AssignCheck, IInv, Requests, RequestOK
    <3>2. [req[p] EXCEPT !.at = "assign"].at = "assign"
      BY <3>1 DEF AssignReq
    <3>3. QED
      BY <1>2, <2>1, <3>2 DEF AssignCheck, PortalSteps
  <2>2. CASE ReassignCheck(p)
    <3>1. req[p] \in ReassignReq /\ req[p].at = "reassign_check"
      BY <2>2, RequestKinds DEF ReassignCheck, IInv, Requests, RequestOK
    <3>2. [req[p] EXCEPT !.at = "reassign"].at = "reassign"
      BY <3>1 DEF ReassignReq
    <3>3. QED
      BY <1>2, <2>2, <3>2 DEF ReassignCheck, PortalSteps
  <2>3. QED
    BY <1>4, <2>1, <2>2
<1>5. ASSUME Done(p) PROVE \A o \in Procs : req'[o] # req[o] => req'[o].at \notin PortalSteps
  BY <1>1, <1>5, HoldIsOne DEF Done, PortalSteps
<1>6. CASE AssignCommit(p) \/ UnassignCommit(p)
  <2> DEFINE k == req[p].job
  <2>1. k \in Jobs /\ job[k] \in Job
    BY <1>6, HeldJob DEF AssignCommit, UnassignCommit
  <2>2. PICK st \in {"ASSIGNED", "PENDING"} : job' = [job EXCEPT ![k] = [job[k] EXCEPT !.status = st]]
    BY <1>6 DEF AssignCommit, UnassignCommit
  <2>3. [job[k] EXCEPT !.status = st] \in Job
    BY <2>1 DEF Job, JobStatus
  <2>4. [job[k] EXCEPT !.status = st].collected = job[k].collected
    BY <2>1 DEF Job
  <2>5. job'[j] # None /\ (job'[j].collected => job[j].collected)
    BY <2>1, <2>2, <2>3, <2>4, NullAssumption DEF IInv, Rows, TypeDb, Quiet, Exists
  <2>6. Done(p) /\ UNCHANGED <<logs, evidence>>
    BY <1>6 DEF AssignCommit, UnassignCommit
  <2>7. QED
    BY <1>5, <2>5, <2>6, StepOnRow
<1>7. CASE ReassignCommit(p)
  BY <1>5, <1>7, StepBesideJob DEF ReassignCommit
<1>8. QED
  BY <1>3, <1>4, <1>6, <1>7 DEF Console

\* The job editor leaves a sealed job sealed, unless it moves the job to another day.
LEMMA EditorStaysQuiet ==
    ASSUME IInv, NEW j \in Jobs, Quiet(j), NEW p \in Procs, Editor(p) \/ CashDesk(p)
    PROVE  StaysQuiet(j)
<1>1. ASSUME NEW r, Hold(p, r), UNCHANGED db, r.at \notin PortalSteps
      PROVE  StaysQuiet(j)
  BY <1>1, HoldIsOne, StepBesideJob DEF db
<1>2. ASSUME Done(p) PROVE \A o \in Procs : req'[o] # req[o] => req'[o].at \notin PortalSteps
  BY <1>2, HoldIsOne DEF Done, PortalSteps, Idle
<1>3. ASSUME NEW k \in Jobs, NEW s \in Schedules \cup {Keep}, NEW n \in PaxCounts \cup {Keep},
             NEW cash \in {"yes", "no", Keep}, EditLoad(p, k, s, n, cash)
      PROVE  StaysQuiet(j)
  BY <1>1, <1>3 DEF EditLoad, PortalSteps
<1>4. ASSUME NEW k \in Jobs, NEW to \in JobStatus, StatusLoad(p, k, to) PROVE StaysQuiet(j)
  BY <1>1, <1>4 DEF StatusLoad, PortalSteps
<1>5. ASSUME NEW k \in Jobs, RemoveLoad(p, k) PROVE StaysQuiet(j)
  BY <1>1, <1>5 DEF RemoveLoad, PortalSteps
<1>6. ASSUME NEW k \in Jobs, LiquidateLoad(p, k) PROVE StaysQuiet(j)
  BY <1>1, <1>6 DEF LiquidateLoad, PortalSteps
<1>7. ASSUME NEW k \in Jobs, NEW r \in Job, job' = [job EXCEPT ![k] = r],
             r.collected => job[k].collected, Done(p), UNCHANGED <<logs, evidence>>
      PROVE  StaysQuiet(j)
  <2>1. job'[j] # None /\ (job'[j].collected => job[j].collected)
    BY <1>7, NullAssumption DEF IInv, Rows, TypeDb, Quiet, Exists
  <2>2. QED
    BY <1>2, <1>7, <2>1, StepOnRow
<1>8. req[p].at # "idle" => req[p].job \in Jobs /\ job[req[p].job] \in Job
  BY HeldJob
<1>9. CASE EditCommit(p)
  <2> DEFINE q == req[p]
             old == job[q.job]
             s == Given(q.sched, old.sched)
  <2>1. q \in EditReq /\ q.job \in Jobs /\ old \in Job
    BY <1>8, <1>9, RequestKinds DEF EditCommit, IInv, Requests, RequestOK
  <2>2. PICK late \in IF s.day = old.sched.day THEN {old.overdue} ELSE BOOLEAN :
          job' = [job EXCEPT ![q.job] =
            [old EXCEPT !.sched = s, !.pax = q.pax, !.overdue = late,
                        !.required = IF q.cash = Keep THEN @ ELSE q.cash = "yes",
                        !.collected = IF q.cash = "no" THEN FALSE ELSE @]]
    BY <1>9 DEF EditCommit
  <2> DEFINE r == [old EXCEPT !.sched = s, !.pax = q.pax, !.overdue = late,
                              !.required = IF q.cash = Keep THEN @ ELSE q.cash = "yes",
                              !.collected = IF q.cash = "no" THEN FALSE ELSE @]
  <2>3. s \in Schedules /\ q.pax \in PaxCounts /\ late \in BOOLEAN
    BY <2>1 DEF EditReq, Job, Given
  <2>4. (IF q.cash = Keep THEN old.required ELSE q.cash = "yes") \in BOOLEAN
    BY <2>1 DEF Job
  <2>5. (IF q.cash = "no" THEN FALSE ELSE old.collected) \in BOOLEAN
    BY <2>1 DEF Job
  <2>6. r \in Job /\ r.collected = (IF q.cash = "no" THEN FALSE ELSE old.collected)
    BY <2>1, <2>3, <2>4, <2>5 DEF Job
  <2>7. job' = [job EXCEPT ![q.job] = r] /\ Done(p) /\ UNCHANGED <<logs, evidence>>
    BY <1>9, <2>2 DEF EditCommit
  <2>8. r.collected => old.collected
    BY <2>6
  <2> HIDE DEF r
  <2>9. QED
    BY <1>7, <2>1, <2>6, <2>7, <2>8
<1>10. CASE StatusWrite(p)
  <2>1. CASE req[p].to \in Terminal
    BY <1>1, <1>10, <2>1 DEF StatusWrite, PortalSteps
  <2>2. CASE req[p].to \notin Terminal
    <3> DEFINE r == [job[req[p].job] EXCEPT !.status = req[p].to]
    <3>1. req[p].job \in Jobs /\ job[req[p].job] \in Job /\ req[p].to \in JobStatus
      BY <1>8, <1>10, RequestKinds DEF StatusWrite, IInv, Requests, RequestOK, StatusReq
    <3>2. r \in Job /\ r.collected = job[req[p].job].collected
      BY <3>1 DEF Job
    <3>3. job' = [job EXCEPT ![req[p].job] = r] /\ Done(p) /\ UNCHANGED <<logs, evidence>>
      BY <1>10, <2>2 DEF StatusWrite
    <3> HIDE DEF r
    <3>4. QED
      BY <1>7, <3>1, <3>2, <3>3
  <2>3. QED
    BY <2>1, <2>2
<1>11. CASE StatusSync(p)
  <2> DEFINE r == [job[req[p].job] EXCEPT !.status = req[p].to]
  <2>1. req[p].job \in Jobs /\ job[req[p].job] \in Job /\ req[p].to \in JobStatus
    BY <1>8, <1>11, RequestKinds DEF StatusSync, IInv, Requests, RequestOK, SyncReq, Terminal, JobStatus
  <2>2. r \in Job /\ r.collected = job[req[p].job].collected
    BY <2>1 DEF Job
  <2>3. job' = [job EXCEPT ![req[p].job] = r] /\ Done(p) /\ UNCHANGED <<logs, evidence>>
    BY <1>11 DEF StatusSync
  <2> HIDE DEF r
  <2>4. QED
    BY <1>7, <2>1, <2>2, <2>3
<1>12. CASE RemoveCommit(p) \/ LiquidateCommit(p)
  <2> DEFINE old == job[req[p].job]
             r == IF req[p].at = "remove" THEN [old EXCEPT !.deleted = TRUE]
                  ELSE [old EXCEPT !.liquidated = TRUE]
  <2>1. req[p].job \in Jobs /\ old \in Job
    BY <1>8, <1>12 DEF RemoveCommit, LiquidateCommit
  <2>2. r \in Job /\ r.collected = old.collected
    BY <2>1 DEF Job
  <2>3. job' = [job EXCEPT ![req[p].job] = r] /\ Done(p) /\ UNCHANGED <<logs, evidence>>
    BY <1>12 DEF RemoveCommit, LiquidateCommit
  <2> HIDE DEF r
  <2>4. QED
    BY <1>7, <2>1, <2>2, <2>3
<1>13. QED
  BY <1>3, <1>4, <1>5, <1>6, <1>9, <1>10, <1>11, <1>12 DEF Editor, CashDesk

\* A new request of a portal finds the lock shut; a request that commits was made for
\* another job.
LEMMA PortalsStayQuiet ==
    ASSUME IInv, NEW j \in Jobs, Quiet(j), NEW p \in Procs, Portals(p)
    PROVE  StaysQuiet(j)
<1>1. \A tab : ~PortalOpen(tab, j)
  BY DEF PortalOpen, Quiet
<1>2. ASSUME NEW k \in Jobs, NEW r, Hold(p, r), UNCHANGED db, r.job = k, k # j
      PROVE  StaysQuiet(j)
  BY <1>2, HoldIsOne, StepBesideJob DEF db
<1>3. ASSUME NEW k \in Jobs, NEW d \in Drivers, NEW to \in PortalStatus, DriverUpdateLoad(p, d, k, to)
      PROVE  StaysQuiet(j)
  BY <1>1, <1>2, <1>3 DEF DriverUpdateLoad, PortalHold
<1>4. ASSUME NEW k \in Jobs, NEW r \in Reps, NEW to \in PortalStatus, RepUpdateLoad(p, r, k, to)
      PROVE  StaysQuiet(j)
  BY <1>1, <1>2, <1>4 DEF RepUpdateLoad, PortalHold
<1>5. ASSUME NEW k \in Jobs, NEW d \in Drivers, DriverNoShowLoad(p, d, k) PROVE StaysQuiet(j)
  BY <1>1, <1>2, <1>5 DEF DriverNoShowLoad, PortalHold
<1>6. ASSUME NEW k \in Jobs, NEW r \in Reps, RepNoShowLoad(p, r, k) PROVE StaysQuiet(j)
  BY <1>1, <1>2, <1>6 DEF RepNoShowLoad, PortalHold
<1>7. ASSUME NEW k \in Jobs, NEW d \in Drivers, NEW collected \in BOOLEAN,
             MarkCollectedLoad(p, d, k, collected)
      PROVE  StaysQuiet(j)
  BY <1>1, <1>2, <1>7 DEF MarkCollectedLoad
<1>8. ASSUME NEW k \in Jobs, NEW s \in Suppliers, SupplierCompleteLoad(p, s, k) PROVE StaysQuiet(j)
  BY <1>1, <1>2, <1>8 DEF SupplierCompleteLoad
<1>9. ASSUME Done(p) PROVE \A o \in Procs : req'[o] # req[o] => req'[o].at \notin PortalSteps
  BY <1>9, HoldIsOne DEF Done, PortalSteps, Idle
<1>10. req[p].at \in PortalSteps => req[p].job # j /\ req[p].job \in Jobs /\ job[req[p].job] \in Job
  BY HeldJob DEF Quiet, PortalSteps
<1>11. CASE \/ DriverUpdateCommit(p) \/ RepUpdateCommit(p)
            \/ \E by \in {"DRIVER", "REP"} : NoShowCommit(p, by)
  <2>1. /\ job' = job /\ Done(p) /\ req[p].job # j
        /\ \A l \in logs' \ logs : l.job = req[p].job
        /\ \A e \in evidence' \ evidence : e.job = req[p].job
    BY <1>10, <1>11 DEF DriverUpdateCommit, RepUpdateCommit, NoShowCommit, Report, PortalSteps
  <2>2. Quiet(j)'
    BY <1>9, <2>1 DEF Quiet, Exists
  <2>3. QED
    BY <2>1, <2>2 DEF StaysQuiet
<1>12. CASE MarkCollectedCommit(p)
  <2>1. job'[j] = job[j] /\ Done(p) /\ UNCHANGED <<logs, evidence>>
    BY <1>10, <1>12 DEF MarkCollectedCommit, PortalSteps, IInv, Rows, TypeDb
  <2>2. QED
    BY <1>9, <2>1, StepBesideJob
<1>13. CASE SupplierCompleteCommit(p)
  BY <1>9, <1>13, StepBesideJob DEF SupplierCompleteCommit
<1>14. QED
  BY <1>3, <1>4, <1>5, <1>6, <1>7, <1>8, <1>11, <1>12, <1>13 DEF Portals

\* Of the steps without a request, only unlocking a job lets its portals in.
LEMMA InstantStaysQuiet ==
    ASSUME IInv, NEW j \in Jobs, Quiet(j), Instant
    PROVE  StaysQuiet(j)
<1>1. job[j] \in Job /\ job[j] # None
  BY DEF Quiet, Exists, IInv, Rows, TypeDb
<1>2. UNCHANGED <<logs, evidence, req>>
  BY DEF Instant, CreateJob, CreateRepFee, UnlockJob, LockJob, BecomeOverdue, BecomeWeekOld, ToggleStatus
<1>3. ASSUME NEW k \in Jobs, NEW s \in Schedules, NEW n \in PaxCounts, NEW cash \in BOOLEAN,
             CreateJob(k, s, n, cash)
      PROVE  job'[j] = job[j]
  BY <1>1, <1>3 DEF CreateJob, IInv, Rows, TypeDb
<1>4. ASSUME NEW k \in Jobs, NEW r, job' = [job EXCEPT ![k] = r], r \in Job, r.collected = job[k].collected
      PROVE  job'[j] # None /\ (job'[j].collected => job[j].collected)
  BY <1>1, <1>4, NullAssumption DEF IInv, Rows, TypeDb
<1>5. ASSUME NEW k \in Jobs,
             \/ \E tab \in LockTabs : UnlockJob(tab, k) \/ LockJob(tab, k)
             \/ BecomeOverdue(k) \/ BecomeWeekOld(k)
      PROVE  job'[j] # None /\ (job'[j].collected => job[j].collected)
  <2>1. job[k] \in Job
    BY <1>5 DEF UnlockJob, LockJob, BecomeOverdue, BecomeWeekOld, Live, Exists, IInv, Rows, TypeDb
  <2>2. \A u \in SUBSET Tabs : /\ [job[k] EXCEPT !.unlocked = u] \in Job
                               /\ [job[k] EXCEPT !.unlocked = u].collected = job[k].collected
    BY <2>1 DEF Job
  <2>3. /\ [job[k] EXCEPT !.overdue = TRUE] \in Job
        /\ [job[k] EXCEPT !.overdue = TRUE].collected = job[k].collected
    BY <2>1 DEF Job
  <2>4. /\ [job[k] EXCEPT !.weekOld = TRUE] \in Job
        /\ [job[k] EXCEPT !.weekOld = TRUE].collected = job[k].collected
    BY <2>1 DEF Job
  <2>5. ASSUME NEW tab \in LockTabs, UnlockJob(tab, k)
        PROVE  job'[j] # None /\ (job'[j].collected => job[j].collected)
    <3>1. job[k].unlocked \cup {tab} \in SUBSET Tabs
      BY <2>1, BoundsAssumption DEF Job
    <3>2. job' = [job EXCEPT ![k] = [job[k] EXCEPT !.unlocked = job[k].unlocked \cup {tab}]]
      BY <2>5 DEF UnlockJob
    <3>3. QED
      BY <1>4, <2>2, <3>1, <3>2
  <2>6. ASSUME NEW tab \in LockTabs, LockJob(tab, k)
        PROVE  job'[j] # None /\ (job'[j].collected => job[j].collected)
    <3>1. job[k].unlocked \ {tab} \in SUBSET Tabs
      BY <2>1 DEF Job
    <3>2. job' = [job EXCEPT ![k] = [job[k] EXCEPT !.unlocked = job[k].unlocked \ {tab}]]
      BY <2>6 DEF LockJob
    <3>3. QED
      BY <1>4, <2>2, <3>1, <3>2
  <2>7. QED
    BY <1>4, <1>5, <2>3, <2>4, <2>5, <2>6 DEF BecomeOverdue, BecomeWeekOld
<1>6. job'[j] # None /\ (job'[j].collected => job[j].collected)
  BY <1>1, <1>3, <1>5 DEF Instant, CreateRepFee, ToggleStatus
<1>7. QED
  BY <1>2, <1>6, StepOnRow

-----------------------------------------------------------------------------
(***************************************************************************)
(* The theorems.                                                           *)
(***************************************************************************)

\* The empty database.
LEMMA InitIInv == Init => IInv
<1> SUFFICES ASSUME Init PROVE IInv
  OBVIOUS
<1>1. TypeDb
  BY DEF Init, TypeDb
<1>2. NoAssignedJobIsPending /\ OneGeneratedFee /\ LogsKeepTheirAssignment /\ NoShowIsEvidenced
  BY DEF Init, NoAssignedJobIsPending, OneGeneratedFee, LogsKeepTheirAssignment, NoShowIsEvidenced
<1>3. Requests
  BY DEF Init, Requests, RequestOK, OneWriter, Request, Idle
<1>4. QED
  BY <1>1, <1>2, <1>3 DEF IInv, Rows

\* Every step preserves the inductive invariant.
LEMMA StepIInv == IInv /\ [Next]_vars => IInv'
<1> SUFFICES ASSUME IInv, [Next]_vars PROVE IInv'
  OBVIOUS
<1>1. CASE Instant
  BY <1>1, CreateJobKeepsIInv, MarksKeepIInv, FeesAndTogglesKeepIInv DEF Instant
<1>2. ASSUME NEW p \in Procs, Console(p) PROVE IInv'
  BY <1>2, ConsoleLoads, ConsoleChecks, AssignCommitKeepsIInv, ReassignCommitKeepsIInv,
     UnassignCommitKeepsIInv DEF Console
<1>3. ASSUME NEW p \in Procs, Editor(p) PROVE IInv'
  BY <1>3, EditorLoads, EditCommitKeepsIInv, StatusWriteKeepsIInv, StatusSyncKeepsIInv,
     RowCommitsKeepIInv DEF Editor
<1>4. ASSUME NEW p \in Procs, Portals(p) PROVE IInv'
  BY <1>4, PortalLoads, UpdateCommitsKeepIInv, NoShowCommitKeepsIInv, RowCommitsKeepIInv,
     SupplierCommitKeepsIInv DEF Portals
<1>5. ASSUME NEW p \in Procs, CashDesk(p) PROVE IInv'
  BY <1>5, EditorLoads, RowCommitsKeepIInv DEF CashDesk
<1>6. ASSUME NEW p \in Procs, Drop(p) PROVE IInv'
  BY <1>6, DropKeepsIInv
<1>7. CASE UNCHANGED vars
  <2>1. UNCHANGED db /\ UNCHANGED req
    BY <1>7 DEF vars, db
  <2>2. Rows'
    BY <2>1 DEF IInv, Rows, db, TypeDb, NoAssignedJobIsPending, OneGeneratedFee,
           LogsKeepTheirAssignment, NoShowIsEvidenced, RowOf
  <2>3. Requests'
    BY <2>1 DEF IInv, Requests, RequestOK, OneWriter, Exists, db
  <2>4. QED
    BY <2>2, <2>3 DEF IInv
<1>8. QED
  BY <1>1, <1>2, <1>3, <1>4, <1>5, <1>6, <1>7 DEF Next

\* The inductive invariant holds throughout.
LEMMA Invariance == Spec => []IInv
BY InitIInv, StepIInv, PTL DEF Spec

\* Every row and every request stays of its kind, whatever interleaves.
THEOREM TypeCorrect == Spec => []TypeOK
<1>1. IInv => TypeOK
  BY DEF IInv, Rows, TypeDb, Requests, TypeOK
<1>2. QED
  BY <1>1, Invariance, PTL

\* An assigned job is never PENDING: assignJob, unassignJob and updateStatus may race.
THEOREM AssignedIsNotPending == Spec => []NoAssignedJobIsPending
<1>1. IInv => NoAssignedJobIsPending
  BY DEF IInv, Rows
<1>2. QED
  BY <1>1, Invariance, PTL

\* updateStatus generates at most one fee per job and rep: the row lock of its first
\* write makes the look for an earlier fee and the new fee one step.
THEOREM FeesAreGeneratedOnce == Spec => []OneGeneratedFee
<1>1. IInv => OneGeneratedFee
  BY DEF IInv, Rows
<1>2. QED
  BY <1>1, Invariance, PTL

\* unassignJob never takes away an assignment that a portal has reported on.
THEOREM ReportsKeepTheirAssignment == Spec => []LogsKeepTheirAssignment
<1>1. IInv => LogsKeepTheirAssignment
  BY DEF IInv, Rows
<1>2. QED
  BY <1>1, Invariance, PTL

\* submitNoShow of both portals: a no-show and its evidence, once per job and side.
THEOREM NoShowsAreEvidenced == Spec => []NoShowIsEvidenced
<1>1. IInv => NoShowIsEvidenced
  BY DEF IInv, Rows
<1>2. QED
  BY <1>1, Invariance, PTL

\* Once an overdue and locked job is quiet, only unlocking it or moving it to another
\* day lets its driver, rep or supplier in again.
THEOREM SealedJobsAreQuiet == Spec => SealedJobsStayQuiet
<1>1. ASSUME IInv, [Next]_vars, vars' # vars, NEW j \in Jobs, Quiet(j)
      PROVE  StaysQuiet(j)
  <2>1. ASSUME NEW p \in Procs, Drop(p) PROVE StaysQuiet(j)
    BY <1>1, <2>1, HoldIsOne, StepBesideJob DEF Drop, Done, db, Idle, PortalSteps
  <2>2. QED
    BY <1>1, <2>1, InstantStaysQuiet, ConsoleStaysQuiet, EditorStaysQuiet, PortalsStayQuiet DEF Next
<1>2. IInv /\ [Next]_vars =>
        [\A j \in Jobs : Quiet(j) =>
           /\ Quiet(j)' \/ ~job'[j].overdue \/ job'[j].unlocked # {}
           /\ \A l \in logs' \ logs : l.job # j
           /\ \A e \in evidence' \ evidence : e.job # j
           /\ job'[j].collected => job[j].collected]_vars
  BY <1>1 DEF StaysQuiet
<1>3. QED
  BY <1>2, Invariance, PTL DEF Spec, SealedJobsStayQuiet

-----------------------------------------------------------------------------
(***************************************************************************)
(* Requests that take turns.                                               *)
(*                                                                         *)
(* The remaining properties do not survive every overlap of two requests.  *)
(* Each is proved of the behaviours in which certain requests on one job   *)
(* do not overlap (EditsAwaitBookings and the conditions after it), while  *)
(* everything else interleaves freely.                                     *)
(***************************************************************************)

\* The passengers were counted, and their number has not been edited since.
Counted(q) ==
    /\ q.at \in BookingSteps => q.pax = job[q.job].pax
    /\ q.at = "assign" => q.pax <= Capacity[q.vehicle]
    /\ q.at = "reassign" /\ q.vehicle # Keep => q.pax <= Capacity[q.vehicle]

SeatsInv == SeatsForEverybody /\ \A p \in Procs : Counted(req[p])

\* A job that is being updated is not deleted, one that is being deleted not completed.
Removes(q) ==
    /\ q.at \in UpdateSteps => ~job[q.job].deleted
    /\ q.at = "remove" => job[q.job].status # "COMPLETED"

RemovalInv == CompletedJobsRemain /\ \A p \in Procs : Removes(req[p])

\* A job that is being updated is open, and the second write knows of its assignment.
Open(q) ==
    /\ q.at \in UpdateSteps => job[q.job].status \notin Terminal
    /\ q.at = "sync" => q.held = (asg[q.job] # None)

OpenInv == \A p \in Procs : Open(req[p])

\* Assignments are numbered as they are made, and a number stays with its job.
Numbered ==
    /\ \A j \in Jobs : asg[j] # None =>
         /\ 0 < asg[j].id /\ asg[j].id < nextId
         /\ \A k \in Jobs : asg[k] # None /\ asg[k].id = asg[j].id => k = j
    /\ \A p \in Procs : req[p].at \in ReassignSteps \cup DriverSteps =>
         /\ 0 < req[p].id /\ req[p].id < nextId
         /\ \A k \in Jobs : RowOf(k, req[p].id) => k = req[p].job

\* As long as the assignment is there, a driver's report is open, and a reassignment
\* knows the driver.
Attached(q) ==
    /\ q.at \in DriverSteps /\ RowOf(q.job, q.id) => asg[q.job].driverStatus \notin Terminal
    /\ q.at \in ReassignSteps /\ RowOf(q.job, q.id) => q.oldDriver = asg[q.job].driver

AttachedInv == \A p \in Procs : Attached(req[p])

\* Rep r was checked for job k, and k still occupies the rep.
Holds(k, r) ==
    asg[k] # None /\ asg[k].rep = r /\ Occupies(k) /\ "rep" \notin unvetted[k]

\* No two jobs a rep was checked for clash.
NoClashes ==
    \A j, k \in Jobs, r \in Reps :
        j # k /\ Holds(j, r) /\ Holds(k, r) /\ job[j].sched.day = job[k].sched.day
        => ~RepClash(job[j].sched, job[k].sched)

\* The job was not rescheduled since it was loaded, and the rep is free for it.
Fits(q) ==
    /\ q.at \in BookingSteps => q.sched = job[q.job].sched
    /\ Books(q) =>
         \A k \in Jobs \ {q.job} :
             Holds(k, q.rep) /\ job[k].sched.day = q.sched.day
             => ~RepClash(q.sched, job[k].sched)

AgendaInv == NoClashes /\ \A p \in Procs : Fits(req[p])

-----------------------------------------------------------------------------
(***************************************************************************)
(* What a step does, as far as it matters here: it happens without a       *)
(* request, or it loads and checks, or it writes to the rows of one job.   *)
(***************************************************************************)

SameAgenda(j) ==
    job'[j].deleted = job[j].deleted /\ job'[j].sched = job[j].sched /\ job'[j].pax = job[j].pax

SameHolders(j) ==
    /\ asg[j] # None /\ asg'[j] # None
    /\ asg'[j].id = asg[j].id /\ asg'[j].vehicle = asg[j].vehicle
    /\ asg'[j].driver = asg[j].driver /\ asg'[j].rep = asg[j].rep

\* New jobs, locks, fees by hand, the calendar and the fleet.
SideStep ==
    /\ UNCHANGED <<asg, unvetted, evidence, nextId, req>>
    /\ \A k \in Jobs :
         IF job[k] = None
         THEN job'[k] # None => ~job'[k].deleted
         ELSE job'[k] # None /\ job'[k].status = job[k].status /\ SameAgenda(k)

\* What a request knows when it goes on to step q.at.
Loaded(p, q) ==
    /\ q.at # "idle" => q.job \in Jobs
    /\ q.at \in {"assign_check", "reassign_check"} =>
         q.sched = job[q.job].sched /\ q.pax = job[q.job].pax
    /\ q.at \in {"assign", "reassign"} =>
         /\ req[p].at \in BookingSteps /\ q.job = req[p].job
         /\ q.sched = req[p].sched /\ q.pax = req[p].pax
         /\ q.at = "assign" \/ q.vehicle # Keep => q.pax <= Capacity[q.vehicle]
         /\ Books(q) =>
              RepAvailable(q.rep, q.sched, IF q.at = "assign" THEN 0 ELSE q.id)
    /\ q.at = "reassign_check" => RowOf(q.job, q.id) /\ q.oldDriver = asg[q.job].driver
    /\ q.at = "reassign" =>
         req[p].at = "reassign_check" /\ q.id = req[p].id /\ q.oldDriver = req[p].oldDriver
    /\ q.at = "status" => ~job[q.job].deleted /\ job[q.job].status \notin Terminal
    /\ q.at = "sync" =>
         req[p].at = "status" /\ q.job = req[p].job /\ q.held = (asg[q.job] # None)
    /\ q.at = "remove" => job[q.job].status # "COMPLETED"
    /\ q.at \in DriverSteps => RowOf(q.job, q.id) /\ asg[q.job].driverStatus \notin Terminal

\* A request goes on, or gives up.
LoadStep(p) == UNCHANGED db /\ \E q : Hold(p, q) /\ Loaded(p, q)

\* The row that assignJob creates.
Assigned(p, j) ==
    /\ req[p].at = "assign" /\ asg[j] = None /\ RowFree(j)
    /\ job'[j].status = "ASSIGNED" /\ SameAgenda(j)
    /\ asg'[j] # None /\ asg'[j].id = nextId /\ nextId' = nextId + 1
    /\ asg'[j].vehicle = req[p].vehicle /\ asg'[j].rep = req[p].rep
    /\ asg'[j].driverStatus = "PENDING"

\* The row that reassignJob changes, and what it was checked for.
Reassigned(p, j) ==
    LET q == req[p] IN
    /\ q.at = "reassign" /\ RowOf(j, q.id)
    /\ job'[j] = job[j] /\ nextId' = nextId
    /\ asg'[j] # None /\ asg'[j].id = asg[j].id
    /\ asg'[j].vehicle = Given(q.vehicle, asg[j].vehicle)
    /\ asg'[j].driver = Given(q.driver, asg[j].driver)
    /\ asg'[j].rep = Given(q.rep, asg[j].rep)
    /\ asg'[j].driverStatus = IF Replaced(q.driver, q.oldDriver) THEN "PENDING" ELSE asg[j].driverStatus
    /\ "seats" \notin unvetted'[j] => "seats" \notin unvetted[j] \/ q.vehicle # Keep
    /\ "rep" \notin unvetted'[j] => "rep" \notin unvetted[j] \/ q.rep # Keep

Unassigned(p, j) ==
    /\ req[p].at = "unassign" /\ RowFree(j)
    /\ job'[j].status = "PENDING" /\ SameAgenda(j)
    /\ asg'[j] = None /\ nextId' = nextId

Edited(p, j) ==
    /\ req[p].at = "edit"
    /\ job'[j].status = job[j].status /\ job'[j].deleted = job[j].deleted
    /\ asg'[j] = asg[j] /\ nextId' = nextId
    /\ unvetted[j] \subseteq unvetted'[j]
    /\ job'[j].pax = job[j].pax \/ "seats" \in unvetted'[j]
    /\ job'[j].sched = job[j].sched \/ "rep" \in unvetted'[j]

Removed(p, j) ==
    /\ req[p].at = "remove"
    /\ job'[j].status = job[j].status /\ job'[j].sched = job[j].sched /\ job'[j].pax = job[j].pax
    /\ job'[j].deleted
    /\ asg'[j] = asg[j] /\ unvetted'[j] = unvetted[j] /\ nextId' = nextId

\* The two ways a status update ends.
Updated(p, j) ==
    /\ req[p].at = "status" /\ job'[j].status \notin Terminal /\ SameAgenda(j)
    /\ asg'[j] = asg[j] /\ unvetted'[j] = unvetted[j] /\ nextId' = nextId

Closed(p, j) ==
    /\ req[p].at = "sync" /\ job'[j].status \in Terminal /\ SameAgenda(j)
    /\ IF req[p].held
       THEN SameHolders(j) /\ asg'[j].driverStatus = job'[j].status
       ELSE asg'[j] = asg[j]
    /\ unvetted'[j] = unvetted[j] /\ nextId' = nextId

\* What a driver reports.
Reported(p, j) ==
    /\ req[p].at \in DriverSteps /\ RowOf(j, req[p].id)
    /\ job'[j] = job[j] /\ SameHolders(j)
    /\ asg'[j].driverStatus = "NO_SHOW" => [job |-> j, by |-> "DRIVER"] \in evidence'
    /\ unvetted'[j] = unvetted[j] /\ nextId' = nextId

\* What a rep or supplier reports, and the cash.
Noted(p, j) ==
    /\ req[p].at \in {"rep", "rep_no_show", "supplier", "collect", "liquidate"}
    /\ job'[j].status = job[j].status /\ SameAgenda(j)
    /\ \/ asg'[j] = asg[j]
       \/ SameHolders(j) /\ asg'[j].driverStatus = asg[j].driverStatus
    /\ unvetted'[j] = unvetted[j] /\ nextId' = nextId

\* A request writes the rows of its own job, and is over.
WriteStep(p, j) ==
    /\ req[p] # Idle /\ req[p].job = j /\ Done(p)
    /\ job[j] # None /\ job'[j] # None
    /\ \A k \in Jobs \ {j} : job'[k] = job[k] /\ asg'[k] = asg[k] /\ unvetted'[k] = unvetted[k]
    /\ evidence \subseteq evidence'
    /\ \/ Assigned(p, j) \/ Reassigned(p, j) \/ Unassigned(p, j)
       \/ Edited(p, j) \/ Removed(p, j)
       \/ Updated(p, j) \/ Closed(p, j)
       \/ Reported(p, j) \/ Noted(p, j)

\* A closed job, and a closed report of a driver, go nowhere.
LEMMA ClosedStaysClosed ==
    /\ \A s \in JobStatus : s \in Terminal => ValidTransitions[s] = {}
    /\ \A s \in PortalStatus : s \in Terminal => DriverTransitions[s] = {}
    /\ \A s \in {"PENDING", "IN_PROGRESS"} : s \notin Terminal
BY DEF JobStatus, PortalStatus, Terminal, ValidTransitions, DriverTransitions

\* What is known of a request that goes on.
LEMMA KnownOf ==
    ASSUME IInv, NEW p \in Procs, req[p].at # "idle"
    PROVE  /\ req[p] \in Request /\ req[p] # Idle /\ req[p].job \in Jobs /\ RequestOK(req[p])
           /\ job[req[p].job] \in Job /\ job[req[p].job] # None
           /\ asg[req[p].job] # None => asg[req[p].job] \in Assignment
           /\ TypeDb
<1>1. /\ req[p] \in Request /\ req[p] # Idle /\ req[p].job \in Jobs
      /\ job[req[p].job] \in Job
  BY HeldJob
<1>2. QED
  BY <1>1, NullAssumption DEF IInv, Rows, Requests, TypeDb

-----------------------------------------------------------------------------
(***************************************************************************)
(* Loads.                                                                  *)
(***************************************************************************)

\* A request that gives up.
LEMMA DropIsALoad ==
    ASSUME NEW p \in Procs, Done(p), UNCHANGED db
    PROVE  LoadStep(p)
BY DEF Done, LoadStep, Loaded, Idle, DriverSteps

\* The dispatch console loads, and checks what it loaded.
LEMMA ConsoleLoadsAreLoads ==
    ASSUME IInv, NEW p \in Procs
    PROVE  /\ \A role \in Roles, j \in Jobs, v \in Vehicles, d \in Drivers \cup {None},
                 r \in Reps \cup {None} : AssignLoad(p, role, j, v, d, r) => LoadStep(p)
           /\ \A role \in Roles, j \in Jobs, v \in Vehicles \cup {Keep},
                 d \in Drivers \cup {None, Keep}, r \in Reps \cup {None, Keep} :
                   ReassignLoad(p, role, j, v, d, r) => LoadStep(p)
           /\ \A role \in Roles, j \in Jobs : UnassignLoad(p, role, j) => LoadStep(p)
           /\ AssignCheck(p) => LoadStep(p)
           /\ ReassignCheck(p) => LoadStep(p)
<1>1. ASSUME NEW role \in Roles, NEW j \in Jobs, NEW v \in Vehicles, NEW d \in Drivers \cup {None},
             NEW r \in Reps \cup {None}, AssignLoad(p, role, j, v, d, r)
      PROVE  LoadStep(p)
  <2> DEFINE q == [at |-> "assign_check", job |-> j, vehicle |-> v, driver |-> d, rep |-> r,
                   sched |-> job[j].sched, pax |-> job[j].pax]
  <2>1. Hold(p, q) /\ UNCHANGED db /\ Loaded(p, q)
    BY <1>1 DEF AssignLoad, Loaded, DriverSteps
  <2> HIDE DEF q
  <2>2. QED
    BY <2>1 DEF LoadStep
<1>2. ASSUME NEW role \in Roles, NEW j \in Jobs, NEW v \in Vehicles \cup {Keep},
             NEW d \in Drivers \cup {None, Keep}, NEW r \in Reps \cup {None, Keep},
             ReassignLoad(p, role, j, v, d, r)
      PROVE  LoadStep(p)
  <2> DEFINE q == [at |-> "reassign_check", job |-> j, id |-> asg[j].id,
                   vehicle |-> v, driver |-> d, rep |-> r,
                   oldDriver |-> asg[j].driver, oldRep |-> asg[j].rep,
                   sched |-> job[j].sched, pax |-> job[j].pax]
  <2>1. Hold(p, q) /\ UNCHANGED db /\ Loaded(p, q)
    BY <1>2 DEF ReassignLoad, Loaded, DriverSteps, RowOf
  <2> HIDE DEF q
  <2>2. QED
    BY <2>1 DEF LoadStep
<1>3. ASSUME NEW role \in Roles, NEW j \in Jobs, UnassignLoad(p, role, j) PROVE LoadStep(p)
  <2> DEFINE q == [at |-> "unassign", job |-> j, id |-> asg[j].id]
  <2>1. Hold(p, q) /\ UNCHANGED db /\ Loaded(p, q)
    BY <1>3 DEF UnassignLoad, Loaded, DriverSteps
  <2> HIDE DEF q
  <2>2. QED
    BY <2>1 DEF LoadStep
<1>4. ASSUME AssignCheck(p) PROVE LoadStep(p)
  <2> DEFINE q == [req[p] EXCEPT !.at = "assign"]
  <2>1. req[p] \in AssignReq /\ req[p].at = "assign_check"
    BY <1>4, KnownOf, RequestKinds DEF AssignCheck
  <2>2. /\ q.at = "assign" /\ q.job = req[p].job /\ q.sched = req[p].sched /\ q.pax = req[p].pax
        /\ q.vehicle = req[p].vehicle /\ q.rep = req[p].rep /\ q.job \in Jobs
    BY <2>1 DEF AssignReq
  <2>3. Hold(p, q) /\ UNCHANGED db
    BY <1>4 DEF AssignCheck
  <2> HIDE DEF q
  <2>4. Books(q) => RepAvailable(q.rep, q.sched, 0)
    BY <1>4, <2>2, NullAssumption DEF AssignCheck, RepFits, Books
  <2>5. q.pax <= Capacity[q.vehicle]
    BY <1>4, <2>2 DEF AssignCheck, VehicleFits
  <2>6. Loaded(p, q)
    BY <2>1, <2>2, <2>4, <2>5 DEF Loaded, BookingSteps, DriverSteps
  <2>7. QED
    BY <2>3, <2>6 DEF LoadStep
<1>5. ASSUME ReassignCheck(p) PROVE LoadStep(p)
  <2> DEFINE q == [req[p] EXCEPT !.at = "reassign"]
  <2>1. req[p] \in ReassignReq /\ req[p].at = "reassign_check"
    BY <1>5, KnownOf, RequestKinds DEF ReassignCheck
  <2>2. /\ q.at = "reassign" /\ q.job = req[p].job /\ q.sched = req[p].sched /\ q.pax = req[p].pax
        /\ q.vehicle = req[p].vehicle /\ q.rep = req[p].rep /\ q.job \in Jobs
        /\ q.id = req[p].id /\ q.oldDriver = req[p].oldDriver
    BY <2>1 DEF ReassignReq
  <2>3. Hold(p, q) /\ UNCHANGED db
    BY <1>5 DEF ReassignCheck
  <2> HIDE DEF q
  <2>4. Books(q) => RepAvailable(q.rep, q.sched, q.id)
    BY <1>5, <2>2 DEF ReassignCheck, RepFits, Books
  <2>5. q.vehicle # Keep => q.pax <= Capacity[q.vehicle]
    BY <1>5, <2>2 DEF ReassignCheck, VehicleFits
  <2>6. Loaded(p, q)
    BY <2>1, <2>2, <2>4, <2>5 DEF Loaded, BookingSteps, DriverSteps
  <2>7. QED
    BY <2>3, <2>6 DEF LoadStep
<1>6. QED
  BY <1>1, <1>2, <1>3, <1>4, <1>5

\* The job editor, the cash desk and the portals load what they check.
LEMMA OtherLoadsAreLoads ==
    ASSUME IInv, NEW p \in Procs, NEW j \in Jobs
    PROVE  /\ \A s \in Schedules \cup {Keep}, n \in PaxCounts \cup {Keep}, cash \in {"yes", "no", Keep} :
                EditLoad(p, j, s, n, cash) => LoadStep(p)
           /\ \A to \in JobStatus : StatusLoad(p, j, to) => LoadStep(p)
           /\ RemoveLoad(p, j) => LoadStep(p)
           /\ LiquidateLoad(p, j) => LoadStep(p)
           /\ \A d \in Drivers :
                /\ \A to \in PortalStatus : DriverUpdateLoad(p, d, j, to) => LoadStep(p)
                /\ DriverNoShowLoad(p, d, j) => LoadStep(p)
                /\ \A collected \in BOOLEAN : MarkCollectedLoad(p, d, j, collected) => LoadStep(p)
           /\ \A r \in Reps :
                /\ \A to \in PortalStatus : RepUpdateLoad(p, r, j, to) => LoadStep(p)
                /\ RepNoShowLoad(p, r, j) => LoadStep(p)
           /\ \A s \in Suppliers : SupplierCompleteLoad(p, s, j) => LoadStep(p)
<1>1. ASSUME NEW q, Hold(p, q), UNCHANGED db, q.job = j,
             q.at \in {"edit", "liquidate", "collect", "supplier"}
      PROVE  LoadStep(p)
  BY <1>1 DEF LoadStep, Loaded, DriverSteps
<1>2. ASSUME NEW to \in JobStatus, StatusLoad(p, j, to) PROVE LoadStep(p)
  <2> DEFINE q == [at |-> "status", job |-> j, to |-> to]
  <2>1. Hold(p, q) /\ UNCHANGED db /\ Live(j) /\ to \in ValidTransitions[job[j].status]
    BY <1>2 DEF StatusLoad
  <2>2. job[j].status \in JobStatus
    BY <2>1 DEF Live, Exists, IInv, Rows, TypeDb, Job
  <2>3. job[j].status \notin Terminal
    BY <2>1, <2>2, ClosedStaysClosed
  <2>4. Loaded(p, q)
    BY <2>1, <2>3 DEF Loaded, Live, DriverSteps
  <2> HIDE DEF q
  <2>5. QED
    BY <2>1, <2>4 DEF LoadStep
<1>3. ASSUME RemoveLoad(p, j) PROVE LoadStep(p)
  <2> DEFINE q == [at |-> "remove", job |-> j]
  <2>1. Hold(p, q) /\ UNCHANGED db /\ Loaded(p, q)
    BY <1>3 DEF RemoveLoad, Removable, Loaded, DriverSteps
  <2> HIDE DEF q
  <2>2. QED
    BY <2>1 DEF LoadStep
<1>4. ASSUME NEW at \in {"driver", "rep", "driver_no_show", "rep_no_show"}, NEW who, NEW from, NEW to,
             asg[j] # None, UNCHANGED db, PortalHold(p, at, j, who, from, to),
             at \in DriverSteps => asg[j].driverStatus \notin Terminal
      PROVE  LoadStep(p)
  <2> DEFINE q == [at |-> at, job |-> j, id |-> asg[j].id, who |-> who, from |-> from, to |-> to]
  <2>1. Hold(p, q) /\ Loaded(p, q)
    BY <1>4 DEF PortalHold, Loaded, DriverSteps, RowOf
  <2> HIDE DEF q
  <2>2. QED
    BY <1>4, <2>1 DEF LoadStep
<1>5. ASSUME NEW d \in Drivers, NEW to \in PortalStatus, DriverUpdateLoad(p, d, j, to)
      PROVE  LoadStep(p)
  <2>1. asg[j].driverStatus \in PortalStatus
    BY <1>5 DEF DriverUpdateLoad, IInv, Rows, TypeDb, Assignment
  <2>2. asg[j].driverStatus \notin Terminal
    BY <1>5, <2>1, ClosedStaysClosed DEF DriverUpdateLoad
  <2>3. QED
    BY <1>4, <1>5, <2>2 DEF DriverUpdateLoad
<1>6. ASSUME NEW d \in Drivers, DriverNoShowLoad(p, d, j) PROVE LoadStep(p)
  BY <1>4, <1>6, ClosedStaysClosed DEF DriverNoShowLoad
<1>7. ASSUME NEW r \in Reps, NEW to \in PortalStatus, RepUpdateLoad(p, r, j, to) PROVE LoadStep(p)
  BY <1>4, <1>7 DEF RepUpdateLoad, DriverSteps
<1>8. ASSUME NEW r \in Reps, RepNoShowLoad(p, r, j) PROVE LoadStep(p)
  BY <1>4, <1>8 DEF RepNoShowLoad, DriverSteps
<1>9. ASSUME NEW s \in Schedules \cup {Keep}, NEW n \in PaxCounts \cup {Keep},
             NEW cash \in {"yes", "no", Keep}, EditLoad(p, j, s, n, cash)
      PROVE  LoadStep(p)
  BY <1>1, <1>9 DEF EditLoad
<1>10. LiquidateLoad(p, j) => LoadStep(p)
  BY <1>1 DEF LiquidateLoad
<1>11. \A d \in Drivers, collected \in BOOLEAN : MarkCollectedLoad(p, d, j, collected) => LoadStep(p)
  BY <1>1 DEF MarkCollectedLoad
<1>12. \A s \in Suppliers : SupplierCompleteLoad(p, s, j) => LoadStep(p)
  BY <1>1 DEF SupplierCompleteLoad
<1>13. QED
  BY <1>2, <1>3, <1>5, <1>6, <1>7, <1>8, <1>9, <1>10, <1>11, <1>12

-----------------------------------------------------------------------------
(***************************************************************************)
(* Writes.                                                                 *)
(***************************************************************************)

\* assignJob writes an assignment to a job that has none, and to no other.
LEMMA AssignCommitIsAWrite ==
    ASSUME IInv, NEW p \in Procs, AssignCommit(p)
    PROVE  \E j \in Jobs : WriteStep(p, j)
<1> DEFINE q == req[p]
<1>1. PICK j \in Jobs : j = q.job
  BY KnownOf DEF AssignCommit
<1>2. q # Idle /\ q.at = "assign" /\ TypeDb /\ job[j] \in Job /\ job[j] # None
  BY <1>1, KnownOf DEF AssignCommit
<1> DEFINE r == [job[j] EXCEPT !.status = "ASSIGNED"]
           a == NewAssignment(q.vehicle, q.driver, q.rep)
<1>3. /\ job' = [job EXCEPT ![j] = r] /\ asg' = [asg EXCEPT ![j] = a]
      /\ unvetted' = [unvetted EXCEPT ![j] = {}]
      /\ nextId' = nextId + 1 /\ evidence' = evidence /\ Done(p) /\ asg[j] = None /\ RowFree(j)
  BY <1>1 DEF AssignCommit
<1>4. /\ r.status = "ASSIGNED" /\ r.deleted = job[j].deleted /\ r.pax = job[j].pax
      /\ r.sched = job[j].sched /\ r # None
  BY <1>2, NullAssumption DEF Job, JobStatus
<1>5. a.id = nextId /\ a.vehicle = q.vehicle /\ a.rep = q.rep /\ a.driverStatus = "PENDING"
  BY DEF NewAssignment
<1>6. a # None
  <2>1. q \in AssignReq
    BY <1>2, KnownOf, RequestKinds
  <2>2. a \in Assignment
    BY <1>2, <2>1 DEF AssignReq, NewAssignment, Assignment, PortalStatus, TypeDb
  <2>3. QED
    BY <2>2, NullAssumption
<1> HIDE DEF r, a
<1>7. /\ job'[j] = r /\ asg'[j] = a
      /\ \A k \in Jobs \ {j} : job'[k] = job[k] /\ asg'[k] = asg[k] /\ unvetted'[k] = unvetted[k]
  BY <1>2, <1>3 DEF TypeDb
<1>8. Assigned(p, j)
  BY <1>2, <1>3, <1>4, <1>5, <1>6, <1>7 DEF Assigned, SameAgenda
<1>9. QED
  BY <1>1, <1>2, <1>3, <1>4, <1>7, <1>8 DEF WriteStep

\* reassignJob writes what it was asked for to the row it loaded.
LEMMA ReassignCommitIsAWrite ==
    ASSUME IInv, NEW p \in Procs, ReassignCommit(p)
    PROVE  \E j \in Jobs : WriteStep(p, j)
<1> DEFINE q == req[p]
<1>1. PICK j \in Jobs : j = q.job
  BY KnownOf DEF ReassignCommit
<1> DEFINE old == asg[j]
           a == [old EXCEPT
                   !.vehicle = Given(q.vehicle, old.vehicle),
                   !.driver = Given(q.driver, old.driver),
                   !.driverStatus = IF Replaced(q.driver, q.oldDriver) THEN "PENDING" ELSE @,
                   !.rep = Given(q.rep, old.rep),
                   !.repStatus = IF Replaced(q.rep, q.oldRep) THEN "PENDING" ELSE @]
           u == unvetted[j] \ ((IF q.vehicle # Keep THEN {"seats"} ELSE {})
                                 \cup (IF q.rep # Keep THEN {"rep"} ELSE {}))
<1>2. q # Idle /\ q.at = "reassign" /\ TypeDb /\ job[j] \in Job /\ job[j] # None
  BY <1>1, KnownOf DEF ReassignCommit
<1>3. /\ asg' = [asg EXCEPT ![j] = a] /\ unvetted' = [unvetted EXCEPT ![j] = u]
      /\ UNCHANGED <<job, evidence, nextId>> /\ Done(p) /\ RowOf(j, q.id)
  BY <1>1 DEF ReassignCommit
<1>4. old \in Assignment
  BY <1>2, <1>3 DEF TypeDb, RowOf
<1>5. /\ a.id = old.id /\ a.vehicle = Given(q.vehicle, old.vehicle)
      /\ a.driver = Given(q.driver, old.driver) /\ a.rep = Given(q.rep, old.rep)
      /\ a.driverStatus = IF Replaced(q.driver, q.oldDriver) THEN "PENDING" ELSE old.driverStatus
  BY <1>4 DEF Assignment
<1>6. a # None
  <2>1. q \in ReassignReq
    BY <1>2, KnownOf, RequestKinds
  <2>2. /\ Given(q.vehicle, old.vehicle) \in Vehicles
        /\ Given(q.driver, old.driver) \in Drivers \cup {None}
        /\ Given(q.rep, old.rep) \in Reps \cup {None}
    BY <1>4, <2>1 DEF ReassignReq, Assignment, Given
  <2>3. a \in Assignment
    BY <1>4, <2>2 DEF Assignment, PortalStatus
  <2>4. QED
    BY <2>3, NullAssumption
<1>7. /\ "seats" \notin u => "seats" \notin unvetted[j] \/ q.vehicle # Keep
      /\ "rep" \notin u => "rep" \notin unvetted[j] \/ q.rep # Keep
  OBVIOUS
<1> HIDE DEF a, u
<1>8. /\ job'[j] = job[j] /\ asg'[j] = a /\ unvetted'[j] = u
      /\ \A k \in Jobs \ {j} : job'[k] = job[k] /\ asg'[k] = asg[k] /\ unvetted'[k] = unvetted[k]
  BY <1>2, <1>3 DEF TypeDb
<1>9. Reassigned(p, j)
  BY <1>2, <1>3, <1>5, <1>6, <1>7, <1>8 DEF Reassigned
<1>10. QED
  BY <1>1, <1>2, <1>3, <1>8, <1>9 DEF WriteStep

\* unassignJob leaves a job without an assignment.
LEMMA UnassignCommitIsAWrite ==
    ASSUME IInv, NEW p \in Procs, UnassignCommit(p)
    PROVE  \E j \in Jobs : WriteStep(p, j)
<1> DEFINE q == req[p]
<1>1. PICK j \in Jobs : j = q.job
  BY KnownOf DEF UnassignCommit
<1> DEFINE r == [job[j] EXCEPT !.status = "PENDING"]
<1>2. q # Idle /\ q.at = "unassign" /\ TypeDb /\ job[j] \in Job /\ job[j] # None
  BY <1>1, KnownOf DEF UnassignCommit
<1>3. /\ job' = [job EXCEPT ![j] = r] /\ asg' = [asg EXCEPT ![j] = None]
      /\ unvetted' = [unvetted EXCEPT ![j] = {}] /\ UNCHANGED <<evidence, nextId>> /\ Done(p)
      /\ RowFree(j)
  BY <1>1 DEF UnassignCommit
<1>4. /\ r.status = "PENDING" /\ r.deleted = job[j].deleted /\ r.pax = job[j].pax
      /\ r.sched = job[j].sched /\ r # None
  BY <1>2, NullAssumption DEF Job, JobStatus
<1> HIDE DEF r
<1>5. /\ job'[j] = r /\ asg'[j] = None
      /\ \A k \in Jobs \ {j} : job'[k] = job[k] /\ asg'[k] = asg[k] /\ unvetted'[k] = unvetted[k]
  BY <1>2, <1>3 DEF TypeDb
<1>6. Unassigned(p, j)
  BY <1>2, <1>3, <1>4, <1>5 DEF Unassigned, SameAgenda
<1>7. QED
  BY <1>1, <1>2, <1>3, <1>4, <1>5, <1>6 DEF WriteStep

\* The job editor's update: whatever it edits has to be looked at again.
LEMMA EditCommitIsAWrite ==
    ASSUME IInv, NEW p \in Procs, EditCommit(p)
    PROVE  \E j \in Jobs : WriteStep(p, j)
<1> DEFINE q == req[p]
<1>1. PICK j \in Jobs : j = q.job
  BY KnownOf DEF EditCommit
<1> DEFINE old == job[j]
           s == Given(q.sched, old.sched)
           u == unvetted[j] \cup (IF s # old.sched THEN {"rep"} ELSE {})
                            \cup (IF q.pax # old.pax THEN {"seats"} ELSE {})
<1>2. q # Idle /\ q \in EditReq /\ q.at = "edit" /\ TypeDb /\ old \in Job /\ old # None
  BY <1>1, KnownOf, RequestKinds DEF EditCommit
<1>3. PICK late \in IF s.day = old.sched.day THEN {old.overdue} ELSE BOOLEAN :
        job' = [job EXCEPT ![j] =
          [old EXCEPT !.sched = s, !.pax = q.pax, !.overdue = late,
                      !.required = IF q.cash = Keep THEN @ ELSE q.cash = "yes",
                      !.collected = IF q.cash = "no" THEN FALSE ELSE @]]
  BY <1>1 DEF EditCommit
<1> DEFINE r == [old EXCEPT !.sched = s, !.pax = q.pax, !.overdue = late,
                            !.required = IF q.cash = Keep THEN @ ELSE q.cash = "yes",
                            !.collected = IF q.cash = "no" THEN FALSE ELSE @]
<1>4. r.sched = s /\ r.pax = q.pax /\ r.status = old.status /\ r.deleted = old.deleted
  BY <1>2 DEF Job
<1>5. r # None
  <2>1. s \in Schedules /\ q.pax \in PaxCounts /\ late \in BOOLEAN
    BY <1>2 DEF EditReq, Job, Given
  <2>2. (IF q.cash = Keep THEN old.required ELSE q.cash = "yes") \in BOOLEAN
    BY <1>2 DEF Job
  <2>3. (IF q.cash = "no" THEN FALSE ELSE old.collected) \in BOOLEAN
    BY <1>2 DEF Job
  <2>4. r \in Job
    BY <1>2, <2>1, <2>2, <2>3 DEF Job
  <2>5. QED
    BY <2>4, NullAssumption
<1>6. /\ unvetted' = [unvetted EXCEPT ![j] = u] /\ Done(p)
      /\ UNCHANGED <<asg, evidence, nextId>>
  BY <1>1 DEF EditCommit
<1>7. /\ unvetted[j] \subseteq u
      /\ r.pax = old.pax \/ "seats" \in u
      /\ r.sched = old.sched \/ "rep" \in u
  BY <1>4
<1>8. job' = [job EXCEPT ![j] = r]
  BY <1>3
<1> HIDE DEF r, u, s
<1>9. /\ job'[j] = r /\ asg'[j] = asg[j] /\ unvetted'[j] = u
      /\ \A k \in Jobs \ {j} : job'[k] = job[k] /\ asg'[k] = asg[k] /\ unvetted'[k] = unvetted[k]
  BY <1>2, <1>6, <1>8 DEF TypeDb
<1>10. Edited(p, j)
  BY <1>2, <1>4, <1>6, <1>7, <1>9 DEF Edited
<1>11. QED
  BY <1>1, <1>2, <1>5, <1>6, <1>9, <1>10 DEF WriteStep

\* Deleting a job, marking its cash collected, liquidating it.
LEMMA RowCommitsAreWrites ==
    ASSUME IInv, NEW p \in Procs,
           RemoveCommit(p) \/ MarkCollectedCommit(p) \/ LiquidateCommit(p)
    PROVE  \E j \in Jobs : WriteStep(p, j)
<1> DEFINE q == req[p]
<1>1. PICK j \in Jobs : j = q.job
  BY KnownOf DEF RemoveCommit, MarkCollectedCommit, LiquidateCommit
<1> DEFINE old == job[j]
           r == IF q.at = "remove" THEN [old EXCEPT !.deleted = TRUE]
                ELSE IF q.at = "collect" THEN [old EXCEPT !.collected = q.collected]
                ELSE [old EXCEPT !.liquidated = TRUE]
<1>2. /\ q \in Request /\ q # Idle /\ old \in Job /\ old # None /\ TypeDb
      /\ q.at \in {"remove", "collect", "liquidate"}
  BY <1>1, KnownOf DEF RemoveCommit, MarkCollectedCommit, LiquidateCommit
<1>3. /\ r.sched = old.sched /\ r.pax = old.pax /\ r.status = old.status
      /\ r.deleted = IF q.at = "remove" THEN TRUE ELSE old.deleted
  BY <1>2 DEF Job
<1>4. r # None
  <2>1. q.at = "collect" => q.collected \in BOOLEAN
    BY <1>2, RequestKinds DEF CollectReq
  <2>2. r \in Job
    BY <1>2, <2>1 DEF Job
  <2>3. QED
    BY <2>2, NullAssumption
<1>5. /\ job' = [job EXCEPT ![j] = r] /\ Done(p)
      /\ UNCHANGED <<asg, evidence, nextId, unvetted>>
  BY <1>1 DEF RemoveCommit, MarkCollectedCommit, LiquidateCommit
<1> HIDE DEF r
<1>6. /\ job'[j] = r /\ asg'[j] = asg[j] /\ unvetted'[j] = unvetted[j]
      /\ \A k \in Jobs \ {j} : job'[k] = job[k] /\ asg'[k] = asg[k] /\ unvetted'[k] = unvetted[k]
  BY <1>2, <1>5 DEF TypeDb
<1>7. Removed(p, j) \/ Noted(p, j)
  BY <1>2, <1>3, <1>5, <1>6 DEF Removed, Noted, SameAgenda
<1>8. QED
  BY <1>1, <1>2, <1>4, <1>5, <1>6, <1>7 DEF WriteStep

\* The first write of updateStatus either ends the request or takes the row's lock.
LEMMA StatusWriteLoadsOrWrites ==
    ASSUME IInv, NEW p \in Procs, StatusWrite(p)
    PROVE  LoadStep(p) \/ \E j \in Jobs : WriteStep(p, j)
<1> DEFINE q == req[p]
<1>1. PICK j \in Jobs : j = q.job
  BY KnownOf DEF StatusWrite
<1>2. /\ q # Idle /\ q \in StatusReq /\ q.at = "status" /\ job[j] \in Job /\ job[j] # None /\ TypeDb
  BY <1>1, KnownOf, RequestKinds DEF StatusWrite
<1>3. CASE q.to \in Terminal
  <2> DEFINE held == asg[q.job] # None
             rep == IF held THEN asg[q.job].rep ELSE None
             due == /\ q.to = "COMPLETED"
                    /\ job[q.job].sched.service = "ARR"
                    /\ rep # None
                    /\ FeeMissing(q.job, rep)
             n == [at |-> "sync", job |-> q.job, to |-> q.to, held |-> held,
                   rep |-> rep, fee |-> due]
  <2>1. Hold(p, n) /\ UNCHANGED db
    BY <1>3 DEF StatusWrite
  <2>2. n.at = "sync" /\ n.job = j /\ n.held = (asg[j] # None)
    BY <1>1
  <2> HIDE DEF n
  <2>3. Loaded(p, n)
    BY <1>1, <1>2, <2>2 DEF Loaded, DriverSteps
  <2>4. QED
    BY <2>1, <2>3 DEF LoadStep
<1>4. CASE q.to \notin Terminal
  <2> DEFINE r == [job[j] EXCEPT !.status = q.to]
  <2>1. /\ job' = [job EXCEPT ![j] = r] /\ Done(p)
        /\ UNCHANGED <<asg, evidence, nextId, unvetted>>
    BY <1>1, <1>4 DEF StatusWrite
  <2>2. /\ r.sched = job[j].sched /\ r.pax = job[j].pax /\ r.deleted = job[j].deleted
        /\ r.status = q.to /\ r # None
    BY <1>2, NullAssumption DEF Job, StatusReq
  <2> HIDE DEF r
  <2>3. /\ job'[j] = r /\ asg'[j] = asg[j] /\ unvetted'[j] = unvetted[j]
        /\ \A k \in Jobs \ {j} : job'[k] = job[k] /\ asg'[k] = asg[k] /\ unvetted'[k] = unvetted[k]
    BY <1>2, <2>1 DEF TypeDb
  <2>4. Updated(p, j)
    BY <1>2, <1>4, <2>1, <2>2, <2>3 DEF Updated, SameAgenda
  <2>5. WriteStep(p, j)
    BY <1>1, <1>2, <2>1, <2>2, <2>3, <2>4 DEF WriteStep
  <2>6. QED
    BY <2>5
<1>5. QED
  BY <1>3, <1>4

\* The second write of updateStatus closes the job and both reports on it.
LEMMA StatusSyncIsAWrite ==
    ASSUME IInv, NEW p \in Procs, StatusSync(p)
    PROVE  \E j \in Jobs : WriteStep(p, j)
<1> DEFINE q == req[p]
<1>1. PICK j \in Jobs : j = q.job
  BY KnownOf DEF StatusSync
<1> DEFINE old == asg[j]
           r == [job[j] EXCEPT !.status = q.to]
           a == IF q.held THEN [old EXCEPT !.driverStatus = q.to, !.repStatus = q.to] ELSE old
<1>2. /\ q # Idle /\ q \in SyncReq /\ q.at = "sync" /\ job[j] \in Job /\ job[j] # None /\ TypeDb
      /\ q.to \in Terminal /\ (q.held => old # None /\ old \in Assignment)
  BY <1>1, KnownOf, RequestKinds DEF StatusSync, RequestOK, SyncReq
<1>3. /\ job' = [job EXCEPT ![j] = r] /\ asg' = [asg EXCEPT ![j] = a] /\ Done(p)
      /\ UNCHANGED <<evidence, nextId, unvetted>>
  BY <1>1, <1>2 DEF StatusSync, TypeDb
<1>4. /\ r.sched = job[j].sched /\ r.pax = job[j].pax /\ r.deleted = job[j].deleted
      /\ r.status = q.to /\ r # None
  BY <1>2, NullAssumption DEF Job, JobStatus, Terminal
<1>5. IF q.held
      THEN /\ a # None /\ a.id = old.id /\ a.vehicle = old.vehicle /\ a.driver = old.driver
           /\ a.rep = old.rep /\ a.driverStatus = q.to
      ELSE a = old
  <2>1. CASE q.held
    <3>1. a \in Assignment
      BY <1>2, <2>1 DEF Assignment, Terminal, PortalStatus
    <3>2. QED
      BY <1>2, <2>1, <3>1, NullAssumption DEF Assignment
  <2>2. CASE ~q.held
    BY <2>2
  <2>3. QED
    BY <2>1, <2>2
<1> HIDE DEF r, a
<1>6. /\ job'[j] = r /\ asg'[j] = a /\ unvetted'[j] = unvetted[j]
      /\ \A k \in Jobs \ {j} : job'[k] = job[k] /\ asg'[k] = asg[k] /\ unvetted'[k] = unvetted[k]
  BY <1>2, <1>3 DEF TypeDb
<1>7. Closed(p, j)
  BY <1>2, <1>3, <1>4, <1>5, <1>6 DEF Closed, SameAgenda, SameHolders
<1>8. QED
  BY <1>1, <1>2, <1>3, <1>4, <1>6, <1>7 DEF WriteStep

\* A portal writes a status to the row it loaded: a driver's no-show with its evidence.
LEMMA ReportsAreWrites ==
    ASSUME IInv, NEW p \in Procs,
           \/ DriverUpdateCommit(p) \/ RepUpdateCommit(p)
           \/ \E by \in {"DRIVER", "REP"} : NoShowCommit(p, by)
           \/ SupplierCompleteCommit(p)
    PROVE  \E j \in Jobs : WriteStep(p, j)
<1> DEFINE q == req[p]
<1>1. PICK j \in Jobs : j = q.job
  BY KnownOf DEF DriverUpdateCommit, RepUpdateCommit, NoShowCommit, SupplierCompleteCommit
<1> DEFINE old == asg[j]
           drives == DriverUpdateCommit(p) \/ NoShowCommit(p, "DRIVER")
           a == IF drives THEN [old EXCEPT !.driverStatus = q.to]
                ELSE IF SupplierCompleteCommit(p) THEN [old EXCEPT !.supplierStatus = "COMPLETED"]
                ELSE [old EXCEPT !.repStatus = q.to]
<1>2. /\ q # Idle /\ RequestOK(q) /\ TypeDb /\ Done(p) /\ job[j] # None
      /\ UNCHANGED <<job, unvetted, nextId>>
      /\ RowOf(j, q.id) /\ evidence \subseteq evidence'
  BY <1>1, KnownOf DEF DriverUpdateCommit, RepUpdateCommit, NoShowCommit, SupplierCompleteCommit,
                       Report
<1>3. old \in Assignment /\ old # None
  BY <1>2 DEF TypeDb, RowOf
<1>4. asg' = [asg EXCEPT ![j] = a]
  BY <1>1 DEF DriverUpdateCommit, RepUpdateCommit, NoShowCommit, SupplierCompleteCommit, Report
<1>5. /\ a.id = old.id /\ a.vehicle = old.vehicle /\ a.driver = old.driver /\ a.rep = old.rep
      /\ IF drives THEN a.driverStatus = q.to ELSE a.driverStatus = old.driverStatus
  BY <1>3 DEF Assignment
<1>6. a # None
  <2>1. q.at \in {"driver", "rep", "driver_no_show", "rep_no_show"} => q.to \in PortalStatus
    BY <1>2, RequestKinds DEF RequestOK, PortalReq
  <2>2. ~SupplierCompleteCommit(p) => q.at \in {"driver", "rep", "driver_no_show", "rep_no_show"}
    BY DEF DriverUpdateCommit, RepUpdateCommit, NoShowCommit
  <2>3. drives => q.to \in PortalStatus
    BY <2>1 DEF DriverUpdateCommit, NoShowCommit
  <2> HIDE DEF drives
  <2>4. a \in Assignment
    BY <1>3, <2>1, <2>2, <2>3 DEF Assignment, PortalStatus
  <2>5. QED
    BY <2>4, NullAssumption
<1>7. IF drives
      THEN /\ q.at \in DriverSteps
           /\ q.to = "NO_SHOW" => [job |-> j, by |-> "DRIVER"] \in evidence'
      ELSE q.at \in {"rep", "rep_no_show", "supplier"}
  BY <1>1, <1>2 DEF DriverUpdateCommit, RepUpdateCommit, NoShowCommit, SupplierCompleteCommit,
                    DriverSteps, RequestOK
<1> HIDE DEF a, drives
<1>8. /\ job'[j] = job[j] /\ asg'[j] = a /\ unvetted'[j] = unvetted[j]
      /\ \A k \in Jobs \ {j} : job'[k] = job[k] /\ asg'[k] = asg[k] /\ unvetted'[k] = unvetted[k]
  BY <1>2, <1>4 DEF TypeDb
<1>9. Reported(p, j) \/ Noted(p, j)
  BY <1>2, <1>3, <1>5, <1>6, <1>7, <1>8 DEF Reported, Noted, SameAgenda, SameHolders
<1>10. QED
  BY <1>1, <1>2, <1>8, <1>9 DEF WriteStep

\* What happens without a request moves no job, and closes none.
LEMMA InstantIsASideStep ==
    ASSUME IInv, Instant
    PROVE  SideStep
<1>1. TypeDb
  BY DEF IInv, Rows
<1>2. UNCHANGED <<asg, unvetted, evidence, nextId, req>>
  BY DEF Instant, CreateJob, CreateRepFee, UnlockJob, LockJob, BecomeOverdue, BecomeWeekOld, ToggleStatus
<1>3. ASSUME NEW j \in Jobs, NEW s \in Schedules, NEW n \in PaxCounts, NEW cash \in BOOLEAN,
             CreateJob(j, s, n, cash)
      PROVE  SideStep
  BY <1>1, <1>2, <1>3 DEF CreateJob, SideStep, SameAgenda, TypeDb
<1>4. ASSUME NEW j \in Jobs, NEW r \in Job, job[j] # None, job' = [job EXCEPT ![j] = r],
             r.status = job[j].status, r.deleted = job[j].deleted,
             r.sched = job[j].sched, r.pax = job[j].pax
      PROVE  SideStep
  BY <1>1, <1>2, <1>4, NullAssumption DEF SideStep, SameAgenda, TypeDb
<1>5. ASSUME NEW j \in Jobs,
             \/ \E tab \in LockTabs : UnlockJob(tab, j) \/ LockJob(tab, j)
             \/ BecomeOverdue(j) \/ BecomeWeekOld(j)
      PROVE  SideStep
  <2> DEFINE old == job[j]
  <2>1. old # None /\ old \in Job
    BY <1>1, <1>5 DEF UnlockJob, LockJob, BecomeOverdue, BecomeWeekOld, Live, Exists, TypeDb
  <2>2. CASE \E tab \in LockTabs : UnlockJob(tab, j) \/ LockJob(tab, j)
    <3>1. PICK tabs \in SUBSET Tabs : job' = [job EXCEPT ![j] = [old EXCEPT !.unlocked = tabs]]
      <4>1. PICK tab \in LockTabs : UnlockJob(tab, j) \/ LockJob(tab, j)
        BY <2>2
      <4>2. old.unlocked \cup {tab} \in SUBSET Tabs /\ old.unlocked \ {tab} \in SUBSET Tabs
        BY <2>1, BoundsAssumption DEF Job
      <4>3. \/ job' = [job EXCEPT ![j] = [old EXCEPT !.unlocked = old.unlocked \cup {tab}]]
            \/ job' = [job EXCEPT ![j] = [old EXCEPT !.unlocked = old.unlocked \ {tab}]]
        BY <4>1 DEF UnlockJob, LockJob
      <4>4. QED
        BY <4>2, <4>3
    <3> DEFINE r == [old EXCEPT !.unlocked = tabs]
    <3>2. /\ r \in Job /\ r.status = old.status /\ r.deleted = old.deleted
          /\ r.sched = old.sched /\ r.pax = old.pax
      BY <2>1 DEF Job
    <3> HIDE DEF r
    <3>3. job' = [job EXCEPT ![j] = r]
      BY <3>1 DEF r
    <3>4. QED
      BY <1>4, <2>1, <3>2, <3>3
  <2>3. CASE BecomeOverdue(j)
    <3> DEFINE r == [old EXCEPT !.overdue = TRUE]
    <3>1. /\ r \in Job /\ r.status = old.status /\ r.deleted = old.deleted
          /\ r.sched = old.sched /\ r.pax = old.pax
      BY <2>1 DEF Job
    <3>2. job' = [job EXCEPT ![j] = r]
      BY <2>3 DEF BecomeOverdue
    <3> HIDE DEF r
    <3>3. QED
      BY <1>4, <2>1, <3>1, <3>2
  <2>4. CASE BecomeWeekOld(j)
    <3> DEFINE r == [old EXCEPT !.weekOld = TRUE]
    <3>1. /\ r \in Job /\ r.status = old.status /\ r.deleted = old.deleted
          /\ r.sched = old.sched /\ r.pax = old.pax
      BY <2>1 DEF Job
    <3>2. job' = [job EXCEPT ![j] = r]
      BY <2>4 DEF BecomeWeekOld
    <3> HIDE DEF r
    <3>3. QED
      BY <1>4, <2>1, <3>1, <3>2
  <2>5. QED
    BY <1>5, <2>2, <2>3, <2>4
<1>6. job' = job => SideStep
  BY <1>2 DEF SideStep, SameAgenda
<1>7. QED
  BY <1>3, <1>5, <1>6 DEF Instant, CreateRepFee, ToggleStatus

\* Every step has one of the three shapes.
LEMMA ShapeOfStep ==
    ASSUME IInv, [Next]_vars
    PROVE  SideStep \/ \E p \in Procs : LoadStep(p) \/ \E j \in Jobs : WriteStep(p, j)
<1>1. ASSUME NEW p \in Procs, Console(p)
      PROVE  LoadStep(p) \/ \E j \in Jobs : WriteStep(p, j)
  BY <1>1, ConsoleLoadsAreLoads, AssignCommitIsAWrite, ReassignCommitIsAWrite,
     UnassignCommitIsAWrite DEF Console
<1>2. ASSUME NEW p \in Procs, Editor(p)
      PROVE  LoadStep(p) \/ \E j \in Jobs : WriteStep(p, j)
  BY <1>2, OtherLoadsAreLoads, EditCommitIsAWrite, StatusWriteLoadsOrWrites, StatusSyncIsAWrite,
     RowCommitsAreWrites DEF Editor
<1>3. ASSUME NEW p \in Procs, Portals(p)
      PROVE  LoadStep(p) \/ \E j \in Jobs : WriteStep(p, j)
  BY <1>3, OtherLoadsAreLoads, ReportsAreWrites, RowCommitsAreWrites DEF Portals
<1>4. ASSUME NEW p \in Procs, CashDesk(p)
      PROVE  LoadStep(p) \/ \E j \in Jobs : WriteStep(p, j)
  BY <1>4, OtherLoadsAreLoads, RowCommitsAreWrites DEF CashDesk
<1>5. ASSUME NEW p \in Procs, Drop(p) PROVE LoadStep(p)
  BY <1>5, DropIsALoad DEF Drop
<1>6. CASE UNCHANGED vars
  BY <1>6 DEF vars, SideStep, SameAgenda
<1>7. QED
  BY <1>1, <1>2, <1>3, <1>4, <1>5, <1>6, InstantIsASideStep DEF Next

\* Where a request in progress after a step comes from.
LEMMA NextRequest ==
    ASSUME IInv, [Next]_vars, NEW o \in Procs, NEW q, q = req'[o], q.at # "idle"
    PROVE  \/ UNCHANGED db /\ Loaded(o, q)
           \/ /\ q = req[o] /\ q.job \in Jobs /\ job[q.job] # None
              /\ \/ UNCHANGED db
                 \/ SideStep
                 \/ \E p \in Procs \ {o}, j \in Jobs : WriteStep(p, j)
<1>1. q = req[o] => q.job \in Jobs /\ job[q.job] # None
  BY KnownOf
<1>2. CASE SideStep
  BY <1>1, <1>2 DEF SideStep
<1>3. ASSUME NEW p \in Procs, LoadStep(p)
      PROVE  UNCHANGED db /\ (q = req[o] \/ Loaded(o, q))
  BY <1>3, HoldIsOne DEF LoadStep
<1>4. ASSUME NEW p \in Procs, NEW j \in Jobs, WriteStep(p, j) PROVE o # p /\ q = req[o]
  BY <1>4, HoldIsOne DEF WriteStep, Done, Idle
<1>5. QED
  BY <1>1, <1>2, <1>3, <1>4, ShapeOfStep

-----------------------------------------------------------------------------
(***************************************************************************)
(* Seats.                                                                  *)
(***************************************************************************)

\* Only the job editor moves a job or changes its passengers.
LEMMA OnlyEditsMoveJobs ==
    ASSUME NEW p \in Procs, NEW j \in Jobs, WriteStep(p, j),
           NEW k \in Jobs, k # j \/ req[p].at # "edit"
    PROVE  job'[k].sched = job[k].sched /\ job'[k].pax = job[k].pax
BY DEF WriteStep, Assigned, Reassigned, Unassigned, Edited, Removed, Updated, Closed, Reported,
       Noted, SameAgenda

\* What a booking has loaded of its job stays true if no edit comes between.
LEMMA BookingsStayCurrent ==
    ASSUME EditsAwaitBookings, NEW o \in Procs, NEW q, q = req[o], q.at \in BookingSteps,
           q.job \in Jobs, job[q.job] # None,
           UNCHANGED db \/ SideStep \/ \E p \in Procs \ {o}, j \in Jobs : WriteStep(p, j)
    PROVE  job'[q.job].sched = job[q.job].sched /\ job'[q.job].pax = job[q.job].pax
<1>1. CASE UNCHANGED db
  BY <1>1 DEF db
<1>2. CASE SideStep
  BY <1>2 DEF SideStep, SameAgenda
<1>3. ASSUME NEW p \in Procs \ {o}, NEW j \in Jobs, WriteStep(p, j)
      PROVE  job'[q.job].sched = job[q.job].sched /\ job'[q.job].pax = job[q.job].pax
  <2>1. q.job # j \/ req[p].at # "edit"
    BY <1>3 DEF EditsAwaitBookings, Apart, WriteStep
  <2>2. QED
    BY <1>3, <2>1, OnlyEditsMoveJobs
<1>4. QED
  BY <1>1, <1>2, <1>3

\* The passengers that were counted are still those of the job.
LEMMA StepCounted ==
    ASSUME IInv, SeatsInv, EditsAwaitBookings, [Next]_vars, NEW o \in Procs
    PROVE  Counted(req[o])'
<1>1. PICK q : q = req'[o]
  OBVIOUS
<1>2. Counted(req[o])
  BY DEF SeatsInv
<1>3. CASE UNCHANGED db /\ Loaded(o, q)
  <2>1. job' = job
    BY <1>3 DEF db
  <2>2. Counted(q)
    BY <1>2, <1>3 DEF Loaded, Counted, BookingSteps
  <2>3. QED
    BY <1>1, <2>1, <2>2 DEF Counted
<1>4. CASE /\ q = req[o] /\ q.job \in Jobs /\ job[q.job] # None
           /\ UNCHANGED db \/ SideStep \/ \E p \in Procs \ {o}, j \in Jobs : WriteStep(p, j)
  <2>1. q.at \in BookingSteps => job'[q.job].pax = job[q.job].pax
    BY <1>4, BookingsStayCurrent
  <2>2. QED
    BY <1>1, <1>2, <1>4, <2>1 DEF Counted
<1>5. CASE q.at = "idle"
  BY <1>1, <1>5 DEF Counted, BookingSteps
<1>6. QED
  BY <1>1, <1>3, <1>4, <1>5, NextRequest

\* A write leaves seats for everybody.
LEMMA StepSeats ==
    IInv /\ SeatsInv /\ EditsAwaitBookings /\ [Next]_vars => SeatsInv'
<1> SUFFICES ASSUME IInv, SeatsInv, EditsAwaitBookings, [Next]_vars PROVE SeatsInv'
  OBVIOUS
<1>1. \A k \in Jobs : asg[k] # None => job[k] # None
  BY DEF IInv, Rows, NoAssignedJobIsPending
<1>2. SideStep => SeatsForEverybody'
  BY <1>1 DEF SideStep, SameAgenda, SeatsInv, SeatsForEverybody
<1>3. ASSUME UNCHANGED db PROVE SeatsForEverybody'
  BY <1>3 DEF db, SeatsInv, SeatsForEverybody
<1>4. ASSUME NEW p \in Procs, NEW j \in Jobs, WriteStep(p, j) PROVE SeatsForEverybody'
  <2>1. Counted(req[p])
    BY DEF SeatsInv
  <2>2. asg[j] # None /\ "seats" \notin unvetted[j] => job[j].pax <= Capacity[asg[j].vehicle]
    BY DEF SeatsInv, SeatsForEverybody
  <2>3. asg'[j] # None /\ "seats" \notin unvetted'[j] => job'[j].pax <= Capacity[asg'[j].vehicle]
    <3>1. req[p].job = j
      BY <1>4 DEF WriteStep
    <3>2. CASE Assigned(p, j)
      BY <2>1, <3>1, <3>2 DEF Assigned, SameAgenda, Counted, BookingSteps
    <3>3. CASE Reassigned(p, j)
      BY <2>1, <2>2, <3>1, <3>3 DEF Reassigned, RowOf, Given, Counted, BookingSteps
    <3>4. CASE Unassigned(p, j)
      BY <3>4 DEF Unassigned
    <3>5. CASE Edited(p, j)
      BY <2>2, <3>5 DEF Edited
    <3>6. CASE Removed(p, j) \/ Updated(p, j) \/ Closed(p, j) \/ Reported(p, j) \/ Noted(p, j)
      BY <2>2, <3>6 DEF Removed, Updated, Closed, Reported, Noted, SameAgenda, SameHolders
    <3>7. QED
      BY <1>4, <3>2, <3>3, <3>4, <3>5, <3>6 DEF WriteStep
  <2>4. QED
    BY <1>4, <2>3 DEF WriteStep, SeatsInv, SeatsForEverybody
<1>5. SeatsForEverybody'
  BY <1>2, <1>3, <1>4, ShapeOfStep DEF LoadStep
<1>6. QED
  BY <1>5, StepCounted DEF SeatsInv

-----------------------------------------------------------------------------
(***************************************************************************)
(* Removal.                                                                *)
(***************************************************************************)

\* A job that is being updated stays undeleted, one that is being deleted uncompleted.
LEMMA StepRemoves ==
    ASSUME IInv, RemovalInv, RemovalsAwaitUpdates, [Next]_vars, NEW o \in Procs
    PROVE  Removes(req[o])'
<1>1. PICK q : q = req'[o]
  OBVIOUS
<1>2. Removes(req[o])
  BY DEF RemovalInv
<1>3. CASE UNCHANGED db /\ Loaded(o, q)
  <2>1. job' = job
    BY <1>3 DEF db
  <2>2. Removes(q)
    BY <1>2, <1>3 DEF Loaded, Removes, UpdateSteps
  <2>3. QED
    BY <1>1, <2>1, <2>2 DEF Removes
<1>4. CASE q = req[o] /\ UNCHANGED db
  BY <1>1, <1>2, <1>4 DEF Removes, db
<1>5. CASE q = req[o] /\ q.job \in Jobs /\ job[q.job] # None /\ SideStep
  BY <1>1, <1>2, <1>5 DEF Removes, SideStep, SameAgenda
<1>6. ASSUME q = req[o], q.job \in Jobs, NEW p \in Procs \ {o}, NEW j \in Jobs, WriteStep(p, j)
      PROVE  Removes(q)'
  <2>1. CASE q.job # j
    BY <1>2, <1>6, <2>1 DEF Removes, WriteStep
  <2>2. CASE q.job = j
    <3>1. q.at \in UpdateSteps => req[p].at # "remove"
      BY <1>6, <2>2 DEF RemovalsAwaitUpdates, Apart, WriteStep
    <3>2. q.at = "remove" => req[p].at \notin UpdateSteps
      BY <1>6, <2>2 DEF RemovalsAwaitUpdates, Apart, WriteStep
    <3>3. q.at \in UpdateSteps => job'[j].deleted = job[j].deleted
      BY <1>6, <3>1 DEF WriteStep, Assigned, Reassigned, Unassigned, Edited, Removed, Updated,
                        Closed, Reported, Noted, SameAgenda
    <3>4. q.at = "remove" => job'[j].status \in {job[j].status, "PENDING", "ASSIGNED"}
      BY <1>6, <3>2 DEF WriteStep, Assigned, Reassigned, Unassigned, Edited, Removed, Updated,
                        Closed, Reported, Noted, UpdateSteps
    <3>5. QED
      BY <1>2, <1>6, <2>2, <3>3, <3>4 DEF Removes
  <2>3. QED
    BY <2>1, <2>2
<1>7. CASE q.at = "idle"
  BY <1>1, <1>7 DEF Removes, UpdateSteps
<1>8. Removes(q)' => Removes(req[o])'
  BY <1>1 DEF Removes
<1>9. QED
  BY <1>1, <1>3, <1>4, <1>5, <1>6, <1>7, <1>8, NextRequest

\* No write leaves a job both completed and deleted.
LEMMA StepRemoval ==
    IInv /\ RemovalInv /\ RemovalsAwaitUpdates /\ [Next]_vars => RemovalInv'
<1> SUFFICES ASSUME IInv, RemovalInv, RemovalsAwaitUpdates, [Next]_vars PROVE RemovalInv'
  OBVIOUS
<1>1. SideStep => CompletedJobsRemain'
  BY DEF SideStep, SameAgenda, RemovalInv, CompletedJobsRemain
<1>2. ASSUME UNCHANGED db PROVE CompletedJobsRemain'
  BY <1>2 DEF db, RemovalInv, CompletedJobsRemain
<1>3. ASSUME NEW p \in Procs, NEW j \in Jobs, WriteStep(p, j) PROVE CompletedJobsRemain'
  <2>1. Removes(req[p]) /\ req[p].job = j
    BY <1>3 DEF RemovalInv, WriteStep
  <2>2. job[j] # None /\ ~(job[j].deleted /\ job[j].status = "COMPLETED")
    BY <1>3 DEF RemovalInv, CompletedJobsRemain, WriteStep
  <2>3. ~(job'[j].deleted /\ job'[j].status = "COMPLETED")
    BY <1>3, <2>1, <2>2 DEF WriteStep, Assigned, Reassigned, Unassigned, Edited, Removed, Updated,
                            Closed, Reported, Noted, SameAgenda, Removes, UpdateSteps
  <2>4. QED
    BY <1>3, <2>3 DEF WriteStep, RemovalInv, CompletedJobsRemain
<1>4. CompletedJobsRemain'
  BY <1>1, <1>2, <1>3, ShapeOfStep DEF LoadStep
<1>5. QED
  BY <1>4, StepRemoves DEF RemovalInv

-----------------------------------------------------------------------------
(***************************************************************************)
(* Closing reports.                                                        *)
(***************************************************************************)

\* A job under a status update stays open, and its assignment stays what it was.
LEMMA StepOpen ==
    ASSUME IInv, OpenInv, UpdatesTakeTurns, [Next]_vars
    PROVE  OpenInv'
<1>1. SUFFICES ASSUME NEW o \in Procs PROVE Open(req[o])'
  BY DEF OpenInv
<1>2. PICK q : q = req'[o]
  OBVIOUS
<1>3. Open(req[o])
  BY DEF OpenInv
<1>4. CASE UNCHANGED db /\ Loaded(o, q)
  <2>1. job' = job /\ asg' = asg
    BY <1>4 DEF db
  <2>2. Open(q)
    BY <1>3, <1>4 DEF Loaded, Open, UpdateSteps
  <2>3. QED
    BY <1>2, <2>1, <2>2 DEF Open
<1>5. CASE q = req[o] /\ UNCHANGED db
  BY <1>2, <1>3, <1>5 DEF Open, db
<1>6. CASE q = req[o] /\ q.job \in Jobs /\ job[q.job] # None /\ SideStep
  BY <1>2, <1>3, <1>6 DEF Open, SideStep
<1>7. ASSUME q = req[o], q.job \in Jobs, NEW p \in Procs \ {o}, NEW j \in Jobs, WriteStep(p, j)
      PROVE  Open(q)'
  <2>1. CASE q.job # j
    BY <1>3, <1>7, <2>1 DEF Open, WriteStep
  <2>2. CASE q.job = j
    <3>1. q.at \in UpdateSteps => req[p].at \notin UpdateSteps
      BY <1>7, <2>2 DEF UpdatesTakeTurns, Apart, WriteStep
    <3>2. q.at \in UpdateSteps => job'[j].status \in {job[j].status, "PENDING", "ASSIGNED"}
      BY <1>7, <3>1 DEF WriteStep, Assigned, Reassigned, Unassigned, Edited, Removed, Updated,
                        Closed, Reported, Noted, UpdateSteps
    <3>3. q.at \in UpdateSteps => job'[j].status \notin Terminal
      BY <1>3, <1>7, <2>2, <3>2 DEF Open, Terminal
    <3>4. q.at = "sync" => ~RowFree(j)
      BY <1>7, <2>2 DEF RowFree
    <3>5. q.at = "sync" => (asg'[j] # None <=> asg[j] # None)
      BY <1>7, <3>1, <3>4 DEF WriteStep, Assigned, Reassigned, Unassigned, Edited, Removed,
                              Updated, Closed, Reported, Noted, RowOf, SameHolders, UpdateSteps
    <3>6. QED
      BY <1>3, <1>7, <2>2, <3>3, <3>5 DEF Open
  <2>3. QED
    BY <2>1, <2>2
<1>8. CASE q.at = "idle"
  BY <1>2, <1>8 DEF Open, UpdateSteps
<1>9. Open(q)' => Open(req[o])'
  BY <1>2 DEF Open
<1>10. QED
  BY <1>2, <1>4, <1>5, <1>6, <1>7, <1>8, <1>9, NextRequest

\* No write leaves a driver's no-show unaccounted for.
LEMMA StepNoShow ==
    IInv /\ OpenInv /\ DriverNoShowIsAccountedFor /\ [Next]_vars => DriverNoShowIsAccountedFor'
<1> SUFFICES ASSUME IInv, OpenInv, DriverNoShowIsAccountedFor, [Next]_vars
             PROVE  DriverNoShowIsAccountedFor'
  OBVIOUS
<1>1. \A k \in Jobs : asg[k] # None => job[k] # None
  BY DEF IInv, Rows, NoAssignedJobIsPending
<1>2. SideStep => DriverNoShowIsAccountedFor'
  BY <1>1 DEF SideStep, DriverNoShowIsAccountedFor
<1>3. ASSUME UNCHANGED db PROVE DriverNoShowIsAccountedFor'
  BY <1>3 DEF db, DriverNoShowIsAccountedFor
<1>4. ASSUME NEW p \in Procs, NEW j \in Jobs, WriteStep(p, j) PROVE DriverNoShowIsAccountedFor'
  <2> DEFINE Accounted(k) ==
        asg[k] # None /\ asg[k].driverStatus = "NO_SHOW"
        => [job |-> k, by |-> "DRIVER"] \in evidence \/ job[k].status = "NO_SHOW"
  <2>1. Accounted(j)
    BY DEF DriverNoShowIsAccountedFor
  <2>2. Open(req[p]) /\ req[p].job = j /\ evidence \subseteq evidence'
    BY <1>4 DEF OpenInv, WriteStep
  <2>3. Accounted(j)'
    <3>1. CASE Assigned(p, j)
      BY <3>1 DEF Assigned
    <3>2. CASE Reassigned(p, j)
      BY <2>1, <2>2, <3>2 DEF Reassigned, RowOf
    <3>3. CASE Unassigned(p, j)
      BY <3>3 DEF Unassigned
    <3>4. CASE Edited(p, j) \/ Removed(p, j)
      BY <2>1, <2>2, <3>4 DEF Edited, Removed
    <3>5. CASE Updated(p, j)
      BY <2>1, <2>2, <3>5 DEF Updated, Open, UpdateSteps, Terminal
    <3>6. CASE Closed(p, j)
      BY <2>1, <2>2, <3>6 DEF Closed, SameHolders, Open, UpdateSteps, Terminal
    <3>7. CASE Reported(p, j)
      BY <2>1, <2>2, <3>7 DEF Reported, SameHolders
    <3>8. CASE Noted(p, j)
      BY <2>1, <2>2, <3>8 DEF Noted, SameHolders
    <3>9. QED
      BY <1>4, <3>1, <3>2, <3>3, <3>4, <3>5, <3>6, <3>7, <3>8 DEF WriteStep
  <2>4. QED
    BY <1>4, <2>2, <2>3 DEF WriteStep, DriverNoShowIsAccountedFor
<1>5. QED
  BY <1>2, <1>3, <1>4, ShapeOfStep DEF LoadStep

\* A write keeps the id of an assignment or takes a new one.
LEMMA WrittenId ==
    ASSUME NEW p \in Procs, NEW j \in Jobs, WriteStep(p, j)
    PROVE  /\ nextId' = nextId \/ nextId' = nextId + 1
           /\ asg'[j] # None => \/ asg[j] # None /\ asg'[j].id = asg[j].id
                                \/ asg'[j].id = nextId /\ nextId' = nextId + 1
BY DEF WriteStep, Assigned, Reassigned, Unassigned, Edited, Removed, Updated, Closed, Reported,
       Noted, RowOf, SameHolders

\* Assignments and requests keep their numbers.
LEMMA StepNumbered ==
    IInv /\ Numbered /\ [Next]_vars => Numbered'
<1> SUFFICES ASSUME IInv, Numbered, [Next]_vars PROVE Numbered'
  OBVIOUS
<1> DEFINE NumberedRow(k) ==
      asg[k] # None => /\ 0 < asg[k].id /\ asg[k].id < nextId
                       /\ \A i \in Jobs : asg[i] # None /\ asg[i].id = asg[k].id => i = k
           NumberedRequest(q) ==
      q.at \in ReassignSteps \cup DriverSteps =>
        0 < q.id /\ q.id < nextId /\ \A k \in Jobs : RowOf(k, q.id) => k = q.job
<1>1. /\ nextId \in Nat \ {0}
      /\ \A k \in Jobs : asg[k] # None => asg[k].id \in Nat
  BY DEF IInv, Rows, TypeDb, Assignment
<1>2. \A o \in Procs : req[o].at \in ReassignSteps \cup DriverSteps => req[o].id \in Nat
  BY KnownOf, RequestKinds DEF ReassignReq, PortalReq, ReassignSteps, DriverSteps, RequestOK
<1>3. /\ \A k \in Jobs : NumberedRow(k)
      /\ \A o \in Procs : NumberedRequest(req[o])
  BY DEF Numbered
<1>4. ASSUME NEW k \in Jobs PROVE NumberedRow(k)'
  <2>1. CASE asg' = asg /\ nextId' = nextId
    BY <1>3, <2>1
  <2>2. ASSUME NEW p \in Procs, NEW j \in Jobs, WriteStep(p, j) PROVE NumberedRow(k)'
    BY <1>1, <1>3, <2>2, WrittenId DEF WriteStep
  <2>3. QED
    BY <2>1, <2>2, ShapeOfStep DEF SideStep, LoadStep, db
<1>5. ASSUME NEW o \in Procs PROVE NumberedRequest(req[o])'
  <2>1. PICK q : q = req'[o]
    OBVIOUS
  <2>2. CASE UNCHANGED db /\ Loaded(o, q)
    <3>1. asg' = asg /\ nextId' = nextId
      BY <2>2 DEF db
    <3>2. NumberedRequest(q)
      <4>1. CASE q.at \in DriverSteps \/ q.at = "reassign_check"
        BY <1>3, <2>2, <4>1 DEF Loaded, RowOf, DriverSteps
      <4>2. CASE q.at = "reassign"
        BY <1>3, <2>2, <4>2 DEF Loaded, ReassignSteps
      <4>3. QED
        BY <4>1, <4>2 DEF ReassignSteps
    <3>3. QED
      BY <2>1, <3>1, <3>2 DEF RowOf
  <2>3. CASE q = req[o] /\ (UNCHANGED db \/ SideStep)
    <3>1. asg' = asg /\ nextId' = nextId
      BY <2>3 DEF db, SideStep
    <3>2. QED
      BY <1>3, <2>1, <2>3, <3>1 DEF RowOf
  <2>4. ASSUME q = req[o], NEW p \in Procs \ {o}, NEW j \in Jobs, WriteStep(p, j)
        PROVE  NumberedRequest(q)'
    <3>1. q.at \in ReassignSteps \cup DriverSteps => q.id \in Nat
      BY <1>2, <2>4
    <3>2. NumberedRequest(q)
      BY <1>3, <2>4
    <3>3. QED
      BY <1>1, <2>4, <3>1, <3>2, WrittenId DEF WriteStep, RowOf
  <2>5. CASE q.at = "idle"
    BY <2>1, <2>5 DEF ReassignSteps, DriverSteps
  <2>6. NumberedRequest(q)' => NumberedRequest(req[o])'
    BY <2>1 DEF RowOf
  <2>7. QED
    BY <2>1, <2>2, <2>3, <2>4, <2>5, <2>6, NextRequest
<1>6. QED
  BY <1>4, <1>5 DEF Numbered

\* What was loaded of an assignment is still so, as long as the assignment is there.
LEMMA StepAttached ==
    ASSUME IInv, Numbered, AttachedInv, ReassignmentsTakeTurns, ReportsTakeTurns, [Next]_vars
    PROVE  AttachedInv'
<1>1. SUFFICES ASSUME NEW o \in Procs PROVE Attached(req[o])'
  BY DEF AttachedInv
<1>2. PICK q : q = req'[o]
  OBVIOUS
<1>3. Attached(req[o])
  BY DEF AttachedInv
<1>4. CASE UNCHANGED db /\ Loaded(o, q)
  <2>1. asg' = asg
    BY <1>4 DEF db
  <2>2. Attached(q)
    <3>1. CASE q.at \in DriverSteps \/ q.at = "reassign_check"
      BY <1>4, <3>1 DEF Loaded, Attached, DriverSteps, ReassignSteps
    <3>2. CASE q.at = "reassign"
      BY <1>3, <1>4, <3>2 DEF Loaded, Attached, DriverSteps, ReassignSteps
    <3>3. QED
      BY <3>1, <3>2 DEF Attached, ReassignSteps
  <2>3. QED
    BY <1>2, <2>1, <2>2 DEF Attached, RowOf
<1>5. CASE q = req[o] /\ (UNCHANGED db \/ SideStep)
  <2>1. asg' = asg
    BY <1>5 DEF db, SideStep
  <2>2. QED
    BY <1>2, <1>3, <1>5, <2>1 DEF Attached, RowOf
<1>6. ASSUME q = req[o], q.job \in Jobs, NEW p \in Procs \ {o}, NEW j \in Jobs, WriteStep(p, j)
      PROVE  Attached(q)'
  <2>1. CASE q.job # j
    BY <1>3, <1>6, <2>1 DEF Attached, WriteStep, RowOf
  <2>2. CASE q.job = j
    <3>1. /\ q.at \in ReassignSteps => req[p].at \notin ReassignSteps
          /\ q.at \in DriverSteps => req[p].at \notin DriverSteps \cup UpdateSteps
      BY <1>6, <2>2 DEF ReassignmentsTakeTurns, ReportsTakeTurns, Apart, WriteStep
    <3>2. q.at \in ReassignSteps \cup DriverSteps => q.id < nextId
      BY <1>6 DEF Numbered
    <3>3. q.at \in ReassignSteps \cup DriverSteps => q.id \in Nat /\ nextId \in Nat
      BY <1>6, KnownOf, RequestKinds
      DEF ReassignReq, PortalReq, ReassignSteps, DriverSteps, RequestOK, TypeDb
    <3>4. ASSUME q.at \in DriverSteps, RowOf(j, q.id)' PROVE asg'[j].driverStatus \notin Terminal
      <4>1. CASE Assigned(p, j)
        BY <3>2, <3>3, <3>4, <4>1 DEF Assigned, RowOf
      <4>2. CASE RowOf(j, q.id) /\ asg[j].driverStatus \notin Terminal
        BY <1>6, <3>1, <3>4, <4>2 DEF WriteStep, Reassigned, Unassigned, Edited, Removed, Updated,
             Closed, Reported, Noted, RowOf, SameHolders, Terminal, UpdateSteps, Assigned
      <4>3. RowOf(j, q.id) \/ Assigned(p, j)
        BY <1>6, <3>4 DEF WriteStep, Reassigned, Unassigned, Edited, Removed, Updated,
             Closed, Reported, Noted, RowOf, SameHolders
      <4>4. QED
        BY <1>3, <1>6, <2>2, <3>4, <4>1, <4>2, <4>3 DEF Attached
    <3>5. ASSUME q.at \in ReassignSteps, RowOf(j, q.id)' PROVE q.oldDriver = asg'[j].driver
      <4>1. CASE Assigned(p, j)
        BY <3>2, <3>3, <3>5, <4>1 DEF Assigned, RowOf
      <4>2. CASE RowOf(j, q.id) /\ q.oldDriver = asg[j].driver /\ ~Assigned(p, j)
        BY <1>6, <3>1, <3>5, <4>2 DEF WriteStep, Reassigned, Unassigned, Edited, Removed, Updated,
             Closed, Reported, Noted, RowOf, SameHolders, ReassignSteps
      <4>3. RowOf(j, q.id) \/ Assigned(p, j)
        BY <1>6, <3>5 DEF WriteStep, Reassigned, Unassigned, Edited, Removed, Updated,
             Closed, Reported, Noted, RowOf, SameHolders
      <4>4. QED
        BY <1>3, <1>6, <2>2, <3>5, <4>1, <4>2, <4>3 DEF Attached
    <3>6. QED
      BY <1>6, <2>2, <3>4, <3>5 DEF Attached
  <2>3. QED
    BY <2>1, <2>2
<1>7. CASE q.at = "idle"
  BY <1>2, <1>7 DEF Attached, DriverSteps, ReassignSteps
<1>8. Attached(q)' => Attached(req[o])'
  BY <1>2 DEF Attached, RowOf
<1>9. QED
  BY <1>2, <1>4, <1>5, <1>6, <1>7, <1>8, NextRequest

\* As long as a driver keeps an assignment, a closing report gives way to the office only.
ReportStands(j) ==
    /\ asg[j] # None /\ asg'[j] # None
    /\ asg[j].id = asg'[j].id /\ asg[j].driver = asg'[j].driver
    /\ asg[j].driverStatus \in Terminal
    /\ asg'[j].driverStatus # asg[j].driverStatus
    => job'[j].status \in Terminal /\ asg'[j].driverStatus = job'[j].status

\* A reassignment knows the driver, a driver's report is open: neither overrules.
LEMMA StepKeepsReports ==
    ASSUME IInv, Numbered, AttachedInv, [Next]_vars, NEW k \in Jobs
    PROVE  ReportStands(k)
<1>1. asg'[k] = asg[k] => ReportStands(k)
  BY DEF ReportStands
<1>2. ASSUME NEW p \in Procs, WriteStep(p, k) PROVE ReportStands(k)
  <2>1. Attached(req[p]) /\ req[p].job = k
    BY <1>2 DEF AttachedInv, WriteStep
  <2>2. asg[k] # None => asg[k].id < nextId /\ asg[k].id \in Nat /\ nextId \in Nat
    BY DEF Numbered, IInv, Rows, TypeDb, Assignment
  <2>3. CASE Assigned(p, k)
    BY <2>3 DEF Assigned, ReportStands
  <2>4. CASE Reassigned(p, k)
    BY <2>1, <2>4 DEF Reassigned, ReportStands, Attached, ReassignSteps, Replaced, Given
  <2>5. CASE Closed(p, k)
    BY <1>1, <2>5 DEF Closed, ReportStands
  <2>6. CASE Reported(p, k)
    BY <2>1, <2>6 DEF Reported, ReportStands, Attached
  <2>7. CASE Noted(p, k)
    BY <1>1, <2>7 DEF Noted, ReportStands
  <2>8. CASE Unassigned(p, k) \/ Edited(p, k) \/ Removed(p, k) \/ Updated(p, k)
    BY <1>1, <2>8 DEF Unassigned, Edited, Removed, Updated, ReportStands
  <2>9. QED
    BY <1>2, <2>3, <2>4, <2>5, <2>6, <2>7, <2>8 DEF WriteStep
<1>3. QED
  BY <1>1, <1>2, ShapeOfStep DEF SideStep, LoadStep, WriteStep, db

-----------------------------------------------------------------------------
(***************************************************************************)
(* The agenda of a rep.                                                    *)
(***************************************************************************)

\* The order of two jobs does not matter to whether one rep can do both.
LEMMA ClashesAreMutual ==
    ASSUME NEW s, NEW t
    PROVE  RepClash(s, t) <=> RepClash(t, s)
BY DEF RepClash, SameFlight, GapTooShort

\* A rep found available is free: its own assignment apart, which no other job has.
LEMMA AvailableIsFree ==
    ASSUME IInv, Numbered, NEW o \in Procs, NEW q, Loaded(o, q), Books(q)
    PROVE  \A k \in Jobs \ {q.job} :
             Holds(k, q.rep) /\ job[k].sched.day = q.sched.day => ~RepClash(q.sched, job[k].sched)
<1>1. q.job \in Jobs /\ \A k \in Jobs : asg[k] # None => asg[k].id \in Nat
  BY DEF Loaded, Books, IInv, Rows, TypeDb, Assignment
<1>2. CASE q.at = "assign"
  <2>1. RepAvailable(q.rep, q.sched, 0)
    BY <1>2 DEF Loaded
  <2>2. \A k \in Jobs : asg[k] # None => asg[k].id # 0
    BY <1>1 DEF Numbered
  <2>3. QED
    BY <2>1, <2>2 DEF RepAvailable, Holds
<1>3. CASE q.at = "reassign"
  <2>1. RepAvailable(q.rep, q.sched, q.id)
    BY <1>3 DEF Loaded
  <2>2. req[o].at = "reassign_check" /\ q.id = req[o].id /\ q.job = req[o].job
    BY <1>3 DEF Loaded
  <2>3. \A k \in Jobs \ {q.job} : asg[k] # None => asg[k].id # q.id
    BY <2>2 DEF Numbered, ReassignSteps, RowOf
  <2>4. QED
    BY <2>1, <2>3 DEF RepAvailable, Holds
<1>4. QED
  BY <1>2, <1>3 DEF Books

\* A write makes a rep hold only the job it writes, and that only if the rep already did
\* or was checked for it.
LEMMA HoldersOfAWrite ==
    ASSUME IInv, OpenInv, NEW p \in Procs, NEW j \in Jobs, WriteStep(p, j), Fits(req[p])
    PROVE  /\ \A k \in Jobs \ {j}, r \in Reps :
                Holds(k, r)' => Holds(k, r) /\ job'[k].sched = job[k].sched
           /\ \A r \in Reps : Holds(j, r)' =>
                \/ Holds(j, r) /\ job'[j].sched = job[j].sched
                \/ Books(req[p]) /\ req[p].rep = r /\ job'[j].sched = req[p].sched
<1>1. ASSUME NEW k \in Jobs \ {j}, NEW r \in Reps, Holds(k, r)'
      PROVE  Holds(k, r) /\ job'[k].sched = job[k].sched
  BY <1>1 DEF WriteStep, Holds, Occupies
<1>2. ASSUME NEW r \in Reps, Holds(j, r)'
      PROVE  \/ Holds(j, r) /\ job'[j].sched = job[j].sched
             \/ Books(req[p]) /\ req[p].rep = r /\ job'[j].sched = req[p].sched
  <2>1. req[p].job = j /\ Open(req[p])
    BY DEF WriteStep, OpenInv
  <2>2. CASE Assigned(p, j)
    BY <1>2, <2>1, <2>2 DEF Assigned, SameAgenda, Holds, Books, Fits, BookingSteps
  <2>3. CASE Reassigned(p, j)
    BY <1>2, <2>1, <2>3 DEF Reassigned, RowOf, Given, Holds, Occupies, Books, Fits, BookingSteps
  <2>4. CASE Unassigned(p, j)
    BY <1>2, <2>4 DEF Unassigned, Holds
  <2>5. CASE Edited(p, j)
    BY <1>2, <2>5 DEF Edited, Holds, Occupies
  <2>6. CASE Removed(p, j)
    BY <1>2, <2>6 DEF Removed, Holds, Occupies
  <2>7. CASE Updated(p, j)
    BY <1>2, <2>1, <2>7 DEF Updated, SameAgenda, Holds, Occupies, Open, UpdateSteps, Terminal
  <2>8. CASE Closed(p, j)
    BY <1>2, <2>1, <2>8 DEF Closed, SameAgenda, SameHolders, Holds, Occupies, Open, UpdateSteps,
                            Terminal
  <2>9. CASE Reported(p, j) \/ Noted(p, j)
    BY <1>2, <2>9 DEF Reported, Noted, SameAgenda, SameHolders, Holds, Occupies
  <2>10. QED
    BY <2>2, <2>3, <2>4, <2>5, <2>6, <2>7, <2>8, <2>9 DEF WriteStep
<1>3. QED
  BY <1>1, <1>2

\* No write makes two jobs of a rep clash.
LEMMA StepNoClashes ==
    ASSUME IInv, OpenInv, AgendaInv, [Next]_vars
    PROVE  NoClashes'
<1>1. \A k \in Jobs : asg[k] # None => job[k] # None
  BY DEF IInv, Rows, NoAssignedJobIsPending
<1>2. ASSUME \A k \in Jobs, r \in Reps : Holds(k, r)' => Holds(k, r) /\ job'[k].sched = job[k].sched
      PROVE  NoClashes'
  BY <1>2 DEF NoClashes, AgendaInv
<1>3. CASE SideStep
  <2>1. \A k \in Jobs, r \in Reps : Holds(k, r)' => Holds(k, r) /\ job'[k].sched = job[k].sched
    BY <1>1, <1>3 DEF SideStep, SameAgenda, Holds, Occupies
  <2>2. QED
    BY <1>2, <2>1
<1>4. CASE UNCHANGED db
  BY <1>4 DEF NoClashes, AgendaInv, Holds, Occupies, db
<1>5. ASSUME NEW p \in Procs, NEW j \in Jobs, WriteStep(p, j) PROVE NoClashes'
  <2>1. PICK b : b = req[p]
    OBVIOUS
  <2>2. Fits(b) /\ b.job = j
    BY <1>5, <2>1 DEF AgendaInv, WriteStep
  <2>3. /\ \A k \in Jobs \ {j}, r \in Reps :
              Holds(k, r)' => Holds(k, r) /\ job'[k].sched = job[k].sched
        /\ \A r \in Reps : Holds(j, r)' =>
              \/ Holds(j, r) /\ job'[j].sched = job[j].sched
              \/ Books(b) /\ b.rep = r /\ job'[j].sched = b.sched
    BY <1>5, <2>1, <2>2, HoldersOfAWrite
  <2>4. ASSUME NEW k \in Jobs \ {j}, NEW r \in Reps, Holds(j, r)', Holds(k, r)',
               job'[j].sched.day = job'[k].sched.day
        PROVE  ~RepClash(job'[j].sched, job'[k].sched)
    <3>1. Holds(k, r) /\ job'[k].sched = job[k].sched
      BY <2>3, <2>4
    <3>2. CASE Holds(j, r) /\ job'[j].sched = job[j].sched
      BY <2>4, <3>1, <3>2 DEF NoClashes, AgendaInv
    <3>3. CASE Books(b) /\ b.rep = r /\ job'[j].sched = b.sched
      BY <2>2, <2>4, <3>1, <3>3 DEF Fits
    <3>4. QED
      BY <2>3, <2>4, <3>2, <3>3
  <2>5. ASSUME NEW i \in Jobs, NEW k \in Jobs, NEW r \in Reps, i # k, Holds(i, r)', Holds(k, r)',
               job'[i].sched.day = job'[k].sched.day
        PROVE  ~RepClash(job'[i].sched, job'[k].sched)
    <3>1. CASE i = j
      BY <2>4, <2>5, <3>1
    <3>2. CASE k = j
      BY <2>4, <2>5, <3>2, ClashesAreMutual
    <3>3. CASE i # j /\ k # j
      BY <2>3, <2>5, <3>3 DEF NoClashes, AgendaInv
    <3>4. QED
      BY <3>1, <3>2, <3>3
  <2>6. QED
    BY <2>5 DEF NoClashes
<1>6. QED
  BY <1>3, <1>4, <1>5, ShapeOfStep DEF LoadStep

\* What a booking has checked stays true until it commits.
LEMMA StepFits ==
    ASSUME IInv, OpenInv, Numbered, AgendaInv, EditsAwaitBookings, RepsAreBookedInTurn, [Next]_vars,
           NEW o \in Procs
    PROVE  Fits(req[o])'
<1>1. PICK q : q = req'[o]
  OBVIOUS
<1>2. Fits(req[o])
  BY DEF AgendaInv
<1>3. \A k \in Jobs : asg[k] # None => job[k] # None
  BY DEF IInv, Rows, NoAssignedJobIsPending
<1>4. CASE UNCHANGED db /\ Loaded(o, q)
  <2>1. job' = job /\ asg' = asg /\ unvetted' = unvetted
    BY <1>4 DEF db
  <2>2. q.at \in BookingSteps => q.sched = job[q.job].sched
    BY <1>2, <1>4 DEF Loaded, Fits, BookingSteps
  <2>3. Fits(q)
    BY <1>4, <2>2, AvailableIsFree DEF Fits
  <2>4. QED
    BY <1>1, <2>1, <2>3 DEF Fits, Books, Holds, Occupies
<1>5. CASE /\ q = req[o] /\ q.job \in Jobs /\ job[q.job] # None
           /\ UNCHANGED db \/ SideStep \/ \E p \in Procs \ {o}, j \in Jobs : WriteStep(p, j)
  <2>1. q.at \in BookingSteps => job'[q.job].sched = job[q.job].sched
    BY <1>5, BookingsStayCurrent
  <2>2. ASSUME Books(q), NEW k \in Jobs \ {q.job}, Holds(k, q.rep)'
        PROVE  Holds(k, q.rep) /\ job'[k].sched = job[k].sched
    <3>1. CASE UNCHANGED db
      BY <2>2, <3>1 DEF Holds, Occupies, db
    <3>2. CASE SideStep
      BY <1>3, <2>2, <3>2 DEF SideStep, SameAgenda, Holds, Occupies
    <3>3. ASSUME NEW p \in Procs \ {o}, NEW j \in Jobs, WriteStep(p, j)
          PROVE  Holds(k, q.rep) /\ job'[k].sched = job[k].sched
      <4>1. PICK b : b = req[p]
        OBVIOUS
      <4>2. Fits(b) /\ b.job = j /\ q.rep \in Reps
        BY <2>2, <3>3, <4>1 DEF AgendaInv, WriteStep, Books
      <4>3. ~(Books(b) /\ b.rep = q.rep /\ k = j)
        BY <1>5, <2>2, <4>1, <4>2 DEF RepsAreBookedInTurn
      <4>4. QED
        BY <2>2, <3>3, <4>1, <4>2, <4>3, HoldersOfAWrite
    <3>4. QED
      BY <1>5, <3>1, <3>2, <3>3
  <2>3. Fits(q)'
    BY <1>2, <1>5, <2>1, <2>2 DEF Fits, Books
  <2>4. QED
    BY <1>1, <2>3 DEF Fits, Books, Holds, Occupies
<1>6. CASE q.at = "idle"
  BY <1>1, <1>6 DEF Fits, Books, BookingSteps
<1>7. QED
  BY <1>1, <1>4, <1>5, <1>6, NextRequest

-----------------------------------------------------------------------------
(***************************************************************************)
(* The theorems about requests that take turns.                            *)
(***************************************************************************)

\* All these invariants hold of the empty database.
LEMMA InitTurns ==
    ASSUME Init
    PROVE  /\ SeatsInv /\ RemovalInv /\ OpenInv /\ DriverNoShowIsAccountedFor
           /\ Numbered /\ AttachedInv /\ AgendaInv
<1>1. \A j \in Jobs : job[j] = None /\ asg[j] = None
  BY DEF Init
<1>2. \A p \in Procs : req[p].at = "idle"
  BY DEF Init, Idle
<1>3. SeatsInv /\ RemovalInv
  BY <1>1, <1>2 DEF SeatsInv, SeatsForEverybody, Counted, BookingSteps, RemovalInv,
                    CompletedJobsRemain, Removes, UpdateSteps
<1>4. OpenInv /\ DriverNoShowIsAccountedFor
  BY <1>1, <1>2 DEF OpenInv, Open, UpdateSteps, DriverNoShowIsAccountedFor
<1>5. Numbered /\ AttachedInv
  BY <1>1, <1>2 DEF Numbered, AttachedInv, Attached, ReassignSteps, DriverSteps
<1>6. AgendaInv
  BY <1>1, <1>2 DEF AgendaInv, NoClashes, Holds, Fits, Books, BookingSteps
<1>7. QED
  BY <1>3, <1>4, <1>5, <1>6

\* Status updates of one job that take turns find it open.
LEMMA OpenInvariance == Spec /\ []UpdatesTakeTurns => []OpenInv
<1>1. Init => OpenInv
  BY InitTurns
<1>2. IInv /\ OpenInv /\ UpdatesTakeTurns /\ [Next]_vars => OpenInv'
  BY StepOpen
<1>3. QED
  BY <1>1, <1>2, Invariance, PTL DEF Spec

\* The numbering of assignments needs nobody to wait.
LEMMA NumberedInvariance == Spec => []Numbered
<1>1. Init => Numbered
  BY InitTurns
<1>2. QED
  BY <1>1, StepNumbered, Invariance, PTL DEF Spec

\* assignJob and reassignJob count the passengers (dispatch.service.ts) and
\* TrafficJobsService.update changes them: if an edit of a job waits for the bookings of
\* that job, a vehicle has seats for the passengers it was assigned to carry.
THEOREM SeatsSuffice == Spec /\ []EditsAwaitBookings => []SeatsForEverybody
<1>1. Init => SeatsInv
  BY InitTurns
<1>2. SeatsInv => SeatsForEverybody
  BY DEF SeatsInv
<1>3. QED
  BY <1>1, <1>2, StepSeats, Invariance, PTL DEF Spec

\* remove looks at the status and deletes later, updateStatus at the deletion and writes
\* later: if the one waits for the other, no completed job is ever deleted.
THEOREM CompletedJobsAreKept == Spec /\ []RemovalsAwaitUpdates => []CompletedJobsRemain
<1>1. Init => RemovalInv
  BY InitTurns
<1>2. RemovalInv => CompletedJobsRemain
  BY DEF RemovalInv
<1>3. QED
  BY <1>1, <1>2, StepRemoval, Invariance, PTL DEF Spec

\* updateStatus writes the status its transition table allowed from the one it loaded: if
\* two updates of a job take turns, the NO_SHOW of a driver has its evidence, or the
\* office closed the whole job as one. No other request has to wait.
THEOREM DriverNoShowsAreAccountedFor ==
    Spec /\ []UpdatesTakeTurns => []DriverNoShowIsAccountedFor
<1>1. Init => DriverNoShowIsAccountedFor
  BY InitTurns
<1>2. QED
  BY <1>1, StepNoShow, Invariance, OpenInvariance, PTL DEF Spec

\* reassignJob resets the driver's status if it believes that the driver is new, and the
\* driver portal moves it on from the one it loaded: if two reassignments of a job take
\* turns, and a driver's report waits for other reports and for status updates, what a
\* driver closed stays closed, unless the office closes the job itself.
THEOREM ReportsOfDriversStand ==
    Spec /\ []ReassignmentsTakeTurns /\ []ReportsTakeTurns => DriverReportsStand
<1>1. Init => AttachedInv
  BY InitTurns
<1>2. IInv /\ Numbered /\ AttachedInv /\ ReassignmentsTakeTurns /\ ReportsTakeTurns /\ [Next]_vars
        => AttachedInv'
  BY StepAttached
<1>3. IInv /\ Numbered /\ AttachedInv /\ [Next]_vars => \A j \in Jobs : ReportStands(j)
  BY StepKeepsReports
<1>4. IInv /\ Numbered /\ AttachedInv /\ [Next]_vars =>
        [\A j \in Jobs :
           /\ asg[j] # None /\ asg'[j] # None
           /\ asg[j].id = asg'[j].id /\ asg[j].driver = asg'[j].driver
           /\ asg[j].driverStatus \in Terminal
           /\ asg'[j].driverStatus # asg[j].driverStatus
           => job'[j].status \in Terminal /\ asg'[j].driverStatus = job'[j].status]_vars
  BY <1>3 DEF ReportStands
<1>5. Spec /\ []ReassignmentsTakeTurns /\ []ReportsTakeTurns => []AttachedInv
  BY <1>1, <1>2, Invariance, NumberedInvariance, PTL DEF Spec
<1>6. QED
  BY <1>4, <1>5, Invariance, NumberedInvariance, PTL DEF Spec, DriverReportsStand

\* The comparisons of GapTooShort, negated, are the gap of three hours either way.
LEMMA NoClashIsTogetherOrApart ==
    ASSUME NEW s \in Schedules, NEW t \in Schedules, ~RepClash(s, t)
    PROVE  TogetherOrApart(s, t)
<1>1. JobReferenceTime(s) \in Hours /\ JobReferenceTime(t) \in Hours
  BY AgendaAssumption DEF JobReferenceTime, Hours
<1>2. CASE SameFlight(s, t)
  BY <1>2 DEF SameFlight, TogetherOrApart
<1>3. CASE ~GapTooShort(s, t)
  <2> DEFINE a == JobReferenceTime(s)
             b == JobReferenceTime(t)
  <2>1. a # NoTime /\ b # NoTime /\ ~(a - b < 3 /\ b - a < 3)
    BY <1>3 DEF GapTooShort, THREE_HOURS
  <2>2. a \in Nat /\ b \in Nat
    BY <1>1, <2>1 DEF Hours
  <2>3. a + 3 <= b \/ b + 3 <= a
    <3> HIDE DEF a, b
    <3> QED
      BY <2>1, <2>2
  <2>4. QED
    BY <2>1, <2>3 DEF TogetherOrApart
<1>4. QED
  BY <1>2, <1>3 DEF RepClash

\* checkRepAvailability compares a job with the rep's others and the commit does not look
\* again: if nobody books the rep for another job in between, an edit of a job waits for
\* its bookings, and updates of a job take turns (one that was closed does not come
\* back), the jobs a rep was checked for are three hours apart, or are one flight.
THEOREM RepsAreKeptApart ==
    Spec /\ []EditsAwaitBookings /\ []UpdatesTakeTurns /\ []RepsAreBookedInTurn
      => []RepsKeepTheGap
<1>1. Init => AgendaInv
  BY InitTurns
<1>2. IInv /\ OpenInv /\ Numbered /\ AgendaInv /\ EditsAwaitBookings /\ RepsAreBookedInTurn
        /\ [Next]_vars => AgendaInv'
  BY StepNoClashes, StepFits DEF AgendaInv
<1>3. IInv /\ AgendaInv => RepsKeepTheGap
  <2> SUFFICES ASSUME IInv, AgendaInv PROVE RepsKeepTheGap
    OBVIOUS
  <2>1. \A k \in Jobs : asg[k] # None /\ asg[k].rep # None => asg[k].rep \in Reps
    BY DEF IInv, Rows, TypeDb, Assignment
  <2>2. \A k \in Jobs : asg[k] # None => job[k] # None /\ job[k].sched \in Schedules
    BY DEF IInv, Rows, TypeDb, NoAssignedJobIsPending, Job
  <2>3. SUFFICES ASSUME NEW j \in Jobs, NEW k \in Jobs, j # k,
                        asg[j] # None, asg[k] # None,
                        asg[j].rep = asg[k].rep, asg[j].rep # None,
                        Occupies(j), Occupies(k),
                        job[j].sched.day = job[k].sched.day,
                        "rep" \notin unvetted[j] \cup unvetted[k]
                 PROVE  TogetherOrApart(job[j].sched, job[k].sched)
    BY DEF RepsKeepTheGap
  <2>4. ~RepClash(job[j].sched, job[k].sched)
    BY <2>1, <2>3 DEF AgendaInv, NoClashes, Holds
  <2>5. QED
    BY <2>2, <2>3, <2>4, NoClashIsTogetherOrApart
<1>4. QED
  BY <1>1, <1>2, <1>3, Invariance, NumberedInvariance, OpenInvariance, PTL DEF Spec

=============================================================================
