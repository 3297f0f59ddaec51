-------------------------- MODULE Bookings_proofs --------------------------
(***************************************************************************)
(* Proofs about Bookings for any number of bookings, checkouts, requests   *)
(* and references.                                                         *)
(*                                                                         *)
(* IInv says what a request relies on between its check and its write:     *)
(* that a checkout is recorded once, and before its guest can pay; that a  *)
(* booking about to be converted stays paid; and, where requests take      *)
(* turns on a booking, that it is still undecided.                         *)
(***************************************************************************)
EXTENDS Bookings, TLAPS

\* Checkouts are recorded once, paid when recorded, and delivered when paid.
Recorded ==
    /\ \A s \in Sessions : checkout[s] = "unused" => txn[s] = None
    /\ \A s \in Sessions : Collected(s) => txn[s] # None
    /\ \A s \in Sessions : hook[s] # "none" => Collected(s)
    /\ \A p \in Procs : req[p].at = "record" => checkout[req[p].s] = "open" /\ txn[req[p].s] = None
    /\ \A p, o \in Procs : req[p].at = "record" /\ req[o].at = "record" /\ req[p].s = req[o].s => p = o

\* Transactions are of bookings there are, and so are the requests for a checkout.
Paying ==
    /\ \A s \in Sessions : txn[s] # None => booking[txn[s].b] # None
    /\ \A p \in Procs : req[p].at \in {"checkout", "record"} => booking[req[p].b] # None

\* What a request that decides about a booking found of it, and what of that stays.
Checked ==
    /\ \A p \in Procs, b \in Bookings : Deciding(req[p], b) => booking[b] # None
    /\ \A p \in Procs, b \in Bookings :
         req[p].at \in {"convert", "create"} /\ req[p].b = b /\ booking[b].method = "ONLINE"
         => booking[b].paid

\* Requests that take turns on a booking still find it undecided when they write.
Undecided ==
    /\ \A b \in overlapped : booking[b] # None
    /\ \A p, o \in Procs, b \in Bookings \ overlapped : Deciding(req[p], b) /\ Deciding(req[o], b) => p = o
    /\ \A p \in Procs, b \in Bookings \ overlapped : Deciding(req[p], b) => booking[b].status = "CONFIRMED"

\* The job of a booking has a number that was given out.
Jobs ==
    \A b \in Bookings : booking[b] # None => booking[b].job \in used \cup {NoJob}

IInv == TypeOK /\ Recorded /\ Paying /\ Checked /\ DrivenOncePaid /\ NumbersAreFresh /\ Undecided /\ Jobs

-----------------------------------------------------------------------------
\* The step a request is at tells which kind of request it is.
LEMMA RequestKinds ==
    ASSUME NEW r \in Request
    PROVE  /\ r.at = "idle" <=> r = Idle
           /\ r.at \in {"convert", "cancel"} => r \in DecideReq
           /\ r.at = "create" => r \in CreateReq
           /\ r.at = "checkout" => r \in CheckoutReq /\ r.b \in Bookings
           /\ r.at = "record" => r \in CheckoutReq /\ r.b \in Bookings /\ r.s \in Sessions
BY DEF Request, Idle, DecideReq, CreateReq, CheckoutReq

LEMMA NumbersAreNotNoJob == Numbers \subseteq Nat /\ NoJob \notin Numbers
BY PaddedAssumption DEF Numbers, NoJob

LEMMA BookingRows ==
    ASSUME NEW row \in Booking
    PROVE  row # None /\ row # Contested
BY NullAssumption

LEMMA NoTransaction == \A t \in Txn : t # None
BY NullAssumption

LEMMA IdleRequest == Idle \in Request /\ Idle.at = "idle"
BY DEF Idle, Request

\* A request that decides about a booking has a row to write.
LEMMA DecidedRow ==
    ASSUME TypeOK, Checked, NEW p \in Procs,
           req[p].at \in {"convert", "cancel"} \/ (req[p].at = "create" /\ req[p].b # None)
    PROVE  req[p].b \in Bookings /\ Deciding(req[p], req[p].b) /\ booking[req[p].b] \in Booking
<1>1. req[p] \in DecideReq \cup CreateReq
  BY RequestKinds DEF TypeOK
<1>2. req[p].b \in Bookings
  BY <1>1 DEF DecideReq, CreateReq
<1> QED
  BY <1>2 DEF Deciding, Checked, TypeOK

\* Writing to a row leaves a row.
LEMMA RowsStay ==
    ASSUME NEW row \in Booking
    PROVE  /\ [row EXCEPT !.status = "CANCELLED"] \in Booking
           /\ [row EXCEPT !.paid = TRUE] \in Booking
           /\ \A n \in Numbers : [row EXCEPT !.status = "CONVERTED", !.job = n] \in Booking
BY DEF Booking

LEMMA RowsKept ==
    ASSUME NEW row \in Booking
    PROVE  /\ [row EXCEPT !.status = "CANCELLED"].method = row.method
           /\ [row EXCEPT !.status = "CANCELLED"].paid = row.paid
           /\ [row EXCEPT !.paid = TRUE].method = row.method
           /\ [row EXCEPT !.paid = TRUE].paid = TRUE
           /\ \A n \in Numbers : /\ [row EXCEPT !.status = "CONVERTED", !.job = n].method = row.method
                                /\ [row EXCEPT !.status = "CONVERTED", !.job = n].paid = row.paid
BY DEF Booking

\* The transaction of a session whose event is delivered.
LEMMA DeliveredRow ==
    ASSUME TypeOK, Recorded, NEW s \in Sessions, hook[s] # "none"
    PROVE  txn[s] \in Txn /\ Collected(s)
BY DEF TypeOK, Recorded

-----------------------------------------------------------------------------
(***************************************************************************)
(* What the steps write.                                                   *)
(***************************************************************************)

\* A request ends.
LEMMA DoneWrites ==
    ASSUME TypeOK, NEW p \in Procs, Done(p)
    PROVE  /\ req' \in [Procs -> Request] /\ req'[p] = Idle
           /\ \A o \in Procs \ {p} : req'[o] = req[o]
BY IdleRequest DEF Done, Hold, TypeOK

LEMMA HoldWrites ==
    ASSUME TypeOK, NEW p \in Procs, NEW r \in Request, Hold(p, r)
    PROVE  /\ req' \in [Procs -> Request] /\ req'[p] = r
           /\ \A o \in Procs \ {p} : req'[o] = req[o]
BY DEF Hold, TypeOK

LEMMA CancelWrites ==
    ASSUME TypeOK, Checked, NEW p \in Procs, Cancel(p)
    PROVE  /\ booking' \in [Bookings -> Booking \cup {None}]
           /\ booking'[req[p].b] = [booking[req[p].b] EXCEPT !.status = "CANCELLED"]
           /\ \A b \in Bookings \ {req[p].b} : booking'[b] = booking[b]
<1>1. req[p].b \in Bookings /\ booking[req[p].b] \in Booking
  BY DecidedRow DEF Cancel
<1>2. booking' = [booking EXCEPT ![req[p].b] = [booking[req[p].b] EXCEPT !.status = "CANCELLED"]]
  BY <1>1 DEF Cancel, TypeOK
<1> QED
  BY <1>1, <1>2, RowsStay DEF TypeOK

LEMMA InsertWrites ==
    ASSUME TypeOK, NEW p \in Procs, InsertJob(p)
    PROVE  /\ req[p] \in CreateReq /\ req[p].number \in Numbers /\ req[p].number \notin used
           /\ used' = used \cup {req[p].number}
           /\ req' \in [Procs -> Request] /\ req'[p] = Idle
           /\ \A o \in Procs \ {p} :
                \/ req[o].at # "create" /\ req'[o] = req[o]
                \/ /\ req[o].at = "create" /\ req[o] \in CreateReq
                   /\ req'[o] = [req[o] EXCEPT !.raced = TRUE] /\ req'[o] \in CreateReq
<1>1. req[p] \in CreateReq
  BY RequestKinds DEF InsertJob, TypeOK
<1>2. ASSUME NEW o \in Procs, req[o].at = "create"
      PROVE  req[o] \in CreateReq /\ [req[o] EXCEPT !.raced = TRUE] \in CreateReq
  BY <1>2, RequestKinds DEF TypeOK, CreateReq
<1>3. \A o \in Procs : req'[o] = IF o = p THEN Idle
                               ELSE IF req[o].at = "create" THEN [req[o] EXCEPT !.raced = TRUE]
                               ELSE req[o]
  BY DEF InsertJob
<1>4. \A o \in Procs : req'[o] \in Request
  BY <1>2, <1>3, IdleRequest DEF Request, TypeOK
<1>5. req' \in [Procs -> Request]
  BY <1>4 DEF InsertJob
<1> QED
  BY <1>1, <1>2, <1>3, <1>5 DEF InsertJob, CreateReq

LEMMA ConvertWrites ==
    ASSUME TypeOK, Checked, NEW p \in Procs, Convert(p)
    PROVE  /\ booking' \in [Bookings -> Booking \cup {None}]
           /\ booking'[req[p].b] = [booking[req[p].b] EXCEPT !.status = "CONVERTED", !.job = req[p].number]
           /\ \A b \in Bookings \ {req[p].b} : booking'[b] = booking[b]
<1>1. req[p].b \in Bookings /\ booking[req[p].b] \in Booking
  BY DecidedRow DEF Convert, InsertJob
<1>2. req[p].number \in Numbers
  BY InsertWrites DEF Convert
<1>3. booking' = [booking EXCEPT ![req[p].b] =
                    [booking[req[p].b] EXCEPT !.status = "CONVERTED", !.job = req[p].number]]
  BY <1>1 DEF Convert, TypeOK
<1> QED
  BY <1>1, <1>2, <1>3, RowsStay DEF TypeOK

LEMMA SettleWrites ==
    ASSUME TypeOK, Recorded, Paying, NEW s \in Sessions, SettleBooking(s)
    PROVE  /\ txn[s].b \in Bookings /\ booking[txn[s].b] \in Booking /\ Collected(s)
           /\ booking' \in [Bookings -> Booking \cup {None}]
           /\ booking'[txn[s].b] = [booking[txn[s].b] EXCEPT !.paid = TRUE]
           /\ \A b \in Bookings \ {txn[s].b} : booking'[b] = booking[b]
<1>1. txn[s].b \in Bookings /\ booking[txn[s].b] \in Booking /\ Collected(s)
  <2>1. txn[s] \in Txn /\ Collected(s) /\ txn[s] # None
    BY DeliveredRow DEF SettleBooking, Recorded
  <2> QED
    BY <2>1 DEF Paying, TypeOK, Txn
<1>2. booking' = [booking EXCEPT ![txn[s].b] = [booking[txn[s].b] EXCEPT !.paid = TRUE]]
  BY <1>1 DEF SettleBooking, TypeOK
<1> QED
  BY <1>1, <1>2, RowsStay DEF TypeOK

\* A delivery is answered when both rows are written, and changes nothing else at the gateway.
LEMMA AnswerWrites ==
    ASSUME TypeOK, NEW s \in Sessions, NEW step \in {"found", "settled"}, Collected(s), Answer(s, step)
    PROVE  /\ checkout' \in [Sessions -> {"unused", "open", "paid", "answered"}]
           /\ Collected(s)'
           /\ \A o \in Sessions \ {s} : checkout'[o] = checkout[o]
BY DEF Answer, AnswersAt, Collected, TypeOK

-----------------------------------------------------------------------------
LEMMA InitHolds == Init => IInv
<1> SUFFICES ASSUME Init PROVE IInv
  OBVIOUS
<1>1. TypeOK
  BY IdleRequest DEF Init, TypeOK
<1> QED
  BY <1>1, IdleRequest DEF Init, IInv, Recorded, Paying, Checked, DrivenOncePaid, NumbersAreFresh,
     Undecided, Jobs, Collected, Deciding

\* Rows, sessions and requests stay of their kind.
LEMMA TypeStep == IInv /\ [Next]_vars => TypeOK'
<1> SUFFICES ASSUME IInv, [Next]_vars PROVE TypeOK'
  OBVIOUS
<1> USE DEF IInv
<1>1. ASSUME NEW b \in Bookings, NEW method \in {"ONLINE", "PAY_ON_ARRIVAL"}, Book(b, method)
      PROVE  TypeOK'
  BY <1>1 DEF Book, TypeOK, Booking
<1>2. ASSUME NEW p \in Procs, NEW b \in Bookings, NEW at \in {"convert", "cancel"}, Decide(p, b, at)
      PROVE  TypeOK'
  <2>1. [at |-> at, b |-> b] \in Request
    BY DEF Request, DecideReq
  <2>2. req' \in [Procs -> Request] /\ overlapped' \subseteq Bookings
    BY <1>2, <2>1, HoldWrites DEF Decide, TypeOK
  <2> QED
    BY <1>2, <2>2 DEF Decide, TypeOK, db
<1>3. ASSUME NEW p \in Procs, Cancel(p) PROVE TypeOK'
  BY <1>3, CancelWrites, DoneWrites DEF Cancel, TypeOK
<1>4. ASSUME NEW p \in Procs, NEW b \in Bookings \cup {None}, NEW n \in Numbers, ReadNumber(p, b, n)
      PROVE  TypeOK'
  <2>1. [at |-> "create", b |-> b, number |-> n, raced |-> FALSE] \in Request
    BY DEF Request, CreateReq
  <2>2. req' \in [Procs -> Request]
    BY <1>4, <2>1, HoldWrites DEF ReadNumber
  <2> QED
    BY <1>4, <2>2 DEF ReadNumber, TypeOK, db
<1>5. ASSUME NEW p \in Procs, NEW n \in Numbers, NumberBooking(p, n) PROVE TypeOK'
  <2>1. req[p].b \in Bookings
    BY <1>5, DecidedRow DEF NumberBooking
  <2> QED
    BY <1>4, <1>5, <2>1 DEF NumberBooking
<1>6. ASSUME NEW p \in Procs, NEW n \in Numbers, NumberOffice(p, n) PROVE TypeOK'
  BY <1>4, <1>6 DEF NumberOffice
<1>7. ASSUME NEW p \in Procs, Convert(p) PROVE TypeOK'
  <2>1. InsertJob(p) /\ UNCHANGED <<checkout, txn, hook, overlapped>>
    BY <1>7 DEF Convert
  <2>2. used' \subseteq Numbers /\ req' \in [Procs -> Request]
    BY <2>1, InsertWrites DEF TypeOK
  <2>3. booking' \in [Bookings -> Booking \cup {None}]
    BY <1>7, ConvertWrites
  <2> QED
    BY <2>1, <2>2, <2>3 DEF TypeOK
<1>8. ASSUME NEW p \in Procs, CreateOfficeJob(p) PROVE TypeOK'
  BY <1>8, InsertWrites DEF CreateOfficeJob, TypeOK
<1>9. ASSUME NEW p \in Procs, RefuseDuplicate(p) \/ Fail(p) PROVE TypeOK'
  BY <1>9, DoneWrites DEF RefuseDuplicate, Fail, TypeOK, db
<1>10. ASSUME NEW p \in Procs, NEW b \in Bookings, CheckoutLoad(p, b) PROVE TypeOK'
  <2>1. [at |-> "checkout", b |-> b] \in Request
    BY DEF Request, CheckoutReq
  <2>2. req' \in [Procs -> Request]
    BY <1>10, <2>1, HoldWrites DEF CheckoutLoad
  <2> QED
    BY <1>10, <2>2 DEF CheckoutLoad, TypeOK, db
<1>11. ASSUME NEW p \in Procs, NEW s \in Sessions, OpenSession(p, s) PROVE TypeOK'
  <2>1. req[p].b \in Bookings
    BY <1>11, RequestKinds DEF OpenSession, TypeOK
  <2>2. [at |-> "record", b |-> req[p].b, s |-> s] \in Request
    BY <2>1 DEF Request, CheckoutReq
  <2>3. req' \in [Procs -> Request]
    BY <1>11, <2>2, HoldWrites DEF OpenSession
  <2> QED
    BY <1>11, <2>3 DEF OpenSession, TypeOK, db
<1>12. ASSUME NEW p \in Procs, RecordSession(p) PROVE TypeOK'
  <2>1. req[p].b \in Bookings
    BY <1>12, RequestKinds DEF RecordSession, TypeOK
  <2> QED
    BY <1>12, <2>1, DoneWrites DEF RecordSession, Transaction, TypeOK, Txn
<1>13. ASSUME NEW s \in Sessions, Pay(s) \/ Deliver(s) \/ FailDelivery(s) PROVE TypeOK'
  BY <1>13 DEF Pay, Deliver, FailDelivery, TypeOK, db
<1>14. ASSUME NEW s \in Sessions, SettleTransaction(s) PROVE TypeOK'
  <2>1. txn[s] \in Txn /\ Collected(s)
    BY <1>14, DeliveredRow DEF SettleTransaction
  <2>2. txn' = [txn EXCEPT ![s] = [txn[s] EXCEPT !.paid = TRUE]]
    BY <1>14 DEF SettleTransaction, TypeOK
  <2>3. txn' \in [Sessions -> Txn \cup {None}]
    BY <2>1, <2>2 DEF TypeOK, Txn
  <2> QED
    BY <1>14, <2>1, <2>3, AnswerWrites DEF SettleTransaction, TypeOK
<1>15. ASSUME NEW s \in Sessions, SettleBooking(s) PROVE TypeOK'
  BY <1>15, SettleWrites, AnswerWrites DEF SettleBooking, TypeOK
<1>16. CASE UNCHANGED vars
  BY <1>16 DEF vars, TypeOK
<1> QED
  BY <1>1, <1>2, <1>3, <1>5, <1>6, <1>7, <1>8, <1>9, <1>10, <1>11, <1>12, <1>13, <1>14, <1>15, <1>16
     DEF Next, Requests, Payments

-----------------------------------------------------------------------------
(***************************************************************************)
(* What happens to the rows: every step writes at most one booking, which  *)
(* keeps its method and stays paid.                                        *)
(***************************************************************************)

\* What a step may make of a booking.
Kept(b) ==
    /\ booking[b] # None => /\ booking'[b] # None
                            /\ booking'[b].method = booking[b].method
                            /\ booking[b].paid => booking'[b].paid

LEMMA BookingsKept == IInv /\ [Next]_vars => \A b \in Bookings : Kept(b)
<1> SUFFICES ASSUME IInv, [Next]_vars, NEW b \in Bookings, booking[b] # None PROVE Kept(b)
  BY DEF Kept
<1> USE DEF IInv
<1>1. booking[b] \in Booking
  BY DEF TypeOK
<1>2. CASE UNCHANGED booking
  BY <1>2 DEF Kept
<1>3. ASSUME NEW o \in Bookings, NEW method \in {"ONLINE", "PAY_ON_ARRIVAL"}, Book(o, method) PROVE Kept(b)
  BY <1>3 DEF Book, TypeOK, Kept
<1>4. ASSUME NEW p \in Procs, Cancel(p) PROVE Kept(b)
  <2>1. CASE b = req[p].b
    <3>1. booking'[b] = [booking[b] EXCEPT !.status = "CANCELLED"]
      BY <1>4, <2>1, CancelWrites
    <3> QED
      BY <1>1, <3>1, RowsStay, RowsKept, BookingRows DEF Kept
  <2>2. CASE b # req[p].b
    BY <1>4, <2>2, CancelWrites DEF Kept
  <2> QED
    BY <2>1, <2>2
<1>5. ASSUME NEW p \in Procs, Convert(p) PROVE Kept(b)
  <2>1. req[p].number \in Numbers
    BY <1>5, InsertWrites DEF Convert
  <2>2. CASE b = req[p].b
    <3>1. booking'[b] = [booking[b] EXCEPT !.status = "CONVERTED", !.job = req[p].number]
      BY <1>5, <2>2, ConvertWrites
    <3> QED
      <4>1. booking'[b] \in Booking
        BY <1>1, <2>1, <3>1, RowsStay
      <4>2. booking'[b].method = booking[b].method /\ booking'[b].paid = booking[b].paid
        BY <1>1, <2>1, <3>1, RowsKept
      <4> QED
        BY <4>1, <4>2, BookingRows DEF Kept
  <2>3. CASE b # req[p].b
    BY <1>5, <2>3, ConvertWrites DEF Kept
  <2> QED
    BY <2>2, <2>3
<1>6. ASSUME NEW s \in Sessions, SettleBooking(s) PROVE Kept(b)
  <2>1. CASE b = txn[s].b
    <3>1. booking'[b] = [booking[b] EXCEPT !.paid = TRUE]
      BY <1>6, <2>1, SettleWrites
    <3> QED
      BY <1>1, <3>1, RowsStay, RowsKept, BookingRows DEF Kept
  <2>2. CASE b # txn[s].b
    BY <1>6, <2>2, SettleWrites DEF Kept
  <2> QED
    BY <2>1, <2>2
<1> QED
  BY <1>2, <1>3, <1>4, <1>5, <1>6
     DEF Next, Requests, Payments, Decide, NumberBooking, NumberOffice, ReadNumber, CreateOfficeJob,
         RefuseDuplicate, CheckoutLoad, OpenSession, RecordSession, Pay, Deliver,
         SettleTransaction, FailDelivery, Fail, db, vars

\* By which steps a booking changes.
LEMMA RowSteps ==
    ASSUME IInv, [Next]_vars, NEW b \in Bookings, booking'[b] # booking[b]
    PROVE  \/ /\ booking[b] = None
              /\ \E method \in {"ONLINE", "PAY_ON_ARRIVAL"} :
                   Book(b, method) /\ booking'[b] = [method |-> method, status |-> "CONFIRMED",
                                                    paid |-> FALSE, job |-> NoJob]
           \/ \E p \in Procs :
                /\ Cancel(p) /\ req[p].b = b /\ booking[b] \in Booking
                /\ booking'[b] = [booking[b] EXCEPT !.status = "CANCELLED"]
           \/ \E p \in Procs :
                /\ Convert(p) /\ req[p].b = b /\ booking[b] \in Booking /\ req[p].number \in Numbers
                /\ booking'[b] = [booking[b] EXCEPT !.status = "CONVERTED", !.job = req[p].number]
           \/ \E s \in Sessions :
                /\ SettleBooking(s) /\ txn[s].b = b /\ booking[b] \in Booking /\ txn[s] # None /\ Collected(s)
                /\ booking'[b] = [booking[b] EXCEPT !.paid = TRUE]
<1> USE DEF IInv
<1>1. ASSUME NEW o \in Bookings, NEW method \in {"ONLINE", "PAY_ON_ARRIVAL"}, Book(o, method)
      PROVE  /\ o = b /\ booking[b] = None
             /\ booking'[b] = [method |-> method, status |-> "CONFIRMED", paid |-> FALSE, job |-> NoJob]
  BY <1>1 DEF Book, TypeOK
<1>2. ASSUME NEW p \in Procs, Cancel(p)
      PROVE  /\ req[p].b = b /\ booking[b] \in Booking
             /\ booking'[b] = [booking[b] EXCEPT !.status = "CANCELLED"]
  BY <1>2, CancelWrites, DecidedRow DEF Cancel
<1>3. ASSUME NEW p \in Procs, Convert(p)
      PROVE  /\ req[p].b = b /\ booking[b] \in Booking /\ req[p].number \in Numbers
             /\ booking'[b] = [booking[b] EXCEPT !.status = "CONVERTED", !.job = req[p].number]
  BY <1>3, ConvertWrites, InsertWrites, DecidedRow DEF Convert, InsertJob
<1>4. ASSUME NEW s \in Sessions, SettleBooking(s)
      PROVE  /\ txn[s].b = b /\ booking[b] \in Booking /\ txn[s] # None /\ Collected(s)
             /\ booking'[b] = [booking[b] EXCEPT !.paid = TRUE]
  BY <1>4, SettleWrites DEF Recorded
<1>5. CASE UNCHANGED booking
  BY <1>5
<1>6. CASE \E o \in Bookings, method \in {"ONLINE", "PAY_ON_ARRIVAL"} : Book(o, method)
  BY <1>1, <1>6
<1>7. CASE \E p \in Procs : Cancel(p)
  BY <1>2, <1>7
<1>8. CASE \E p \in Procs : Convert(p)
  BY <1>3, <1>8
<1>9. CASE \E s \in Sessions : SettleBooking(s)
  BY <1>4, <1>9
<1> QED
  BY <1>5, <1>6, <1>7, <1>8, <1>9
     DEF Next, Requests, Payments, Decide, NumberBooking, NumberOffice, ReadNumber, CreateOfficeJob,
         RefuseDuplicate, CheckoutLoad, OpenSession, RecordSession, Pay, Deliver,
         SettleTransaction, FailDelivery, Fail, db, vars

\* What a step may make of a request: it goes on from what it was, or begins.
LEMMA RequestsKept ==
    ASSUME IInv, [Next]_vars, NEW p \in Procs
    PROVE  \/ req'[p] = req[p]
           \/ req'[p] = Idle
           \/ req[p].at = "create" /\ req'[p] = [req[p] EXCEPT !.raced = TRUE]
           \/ \E b \in Bookings, at \in {"convert", "cancel"} :
                Decide(p, b, at) /\ req'[p] = [at |-> at, b |-> b]
           \/ \E n \in Numbers :
                /\ NumberBooking(p, n)
                /\ req'[p] = [at |-> "create", b |-> req[p].b, number |-> n, raced |-> FALSE]
           \/ \E n \in Numbers :
                /\ NumberOffice(p, n)
                /\ req'[p] = [at |-> "create", b |-> None, number |-> n, raced |-> FALSE]
           \/ \E b \in Bookings : CheckoutLoad(p, b) /\ req'[p] = [at |-> "checkout", b |-> b]
           \/ \E s \in Sessions : OpenSession(p, s) /\ req'[p] = [at |-> "record", b |-> req[p].b, s |-> s]
<1> USE DEF IInv
<1> SUFFICES ASSUME req'[p] # req[p], req'[p] # Idle,
                    ~(req[p].at = "create" /\ req'[p] = [req[p] EXCEPT !.raced = TRUE])
             PROVE  \/ \E b \in Bookings, at \in {"convert", "cancel"} :
                         Decide(p, b, at) /\ req'[p] = [at |-> at, b |-> b]
                    \/ \E n \in Numbers :
                         /\ NumberBooking(p, n)
                         /\ req'[p] = [at |-> "create", b |-> req[p].b, number |-> n, raced |-> FALSE]
                    \/ \E n \in Numbers :
                         /\ NumberOffice(p, n)
                         /\ req'[p] = [at |-> "create", b |-> None, number |-> n, raced |-> FALSE]
                    \/ \E b \in Bookings : CheckoutLoad(p, b) /\ req'[p] = [at |-> "checkout", b |-> b]
                    \/ \E s \in Sessions : OpenSession(p, s) /\ req'[p] = [at |-> "record", b |-> req[p].b, s |-> s]
  OBVIOUS
<1>1. ~UNCHANGED req
  OBVIOUS
<1>2. ASSUME NEW o \in Procs, NEW r, Hold(o, r) PROVE o = p /\ r = req'[p]
  BY <1>2 DEF Hold, TypeOK
<1>3. ASSUME NEW o \in Procs, Done(o) PROVE FALSE
  BY <1>2, <1>3 DEF Done
<1>4. ASSUME NEW o \in Procs, InsertJob(o) PROVE FALSE
  BY <1>4 DEF InsertJob
<1>5. ASSUME NEW o \in Procs, Cancel(o) \/ Convert(o) \/ CreateOfficeJob(o) \/ RefuseDuplicate(o) \/ RecordSession(o) \/ Fail(o)
      PROVE  FALSE
  BY <1>3, <1>4, <1>5 DEF Cancel, Convert, CreateOfficeJob, RefuseDuplicate, RecordSession, Fail
<1>6. ASSUME NEW b, NEW method, Book(b, method) PROVE FALSE
  BY <1>1, <1>6 DEF Book
<1>7. ASSUME NEW s, Pay(s) \/ Deliver(s) \/ SettleTransaction(s) \/ SettleBooking(s) \/ FailDelivery(s)
      PROVE  FALSE
  BY <1>1, <1>7 DEF Pay, Deliver, SettleTransaction, SettleBooking, FailDelivery
<1>8. ASSUME NEW o \in Procs, NEW b \in Bookings, NEW at \in {"convert", "cancel"}, Decide(o, b, at)
      PROVE  Decide(p, b, at) /\ req'[p] = [at |-> at, b |-> b]
  <2>1. Hold(o, [at |-> at, b |-> b])
    BY <1>8 DEF Decide
  <2> QED
    BY <1>2, <1>8, <2>1
<1>9. ASSUME NEW o \in Procs, NEW n \in Numbers, NumberBooking(o, n)
      PROVE  NumberBooking(p, n) /\ req'[p] = [at |-> "create", b |-> req[p].b, number |-> n, raced |-> FALSE]
  <2>1. Hold(o, [at |-> "create", b |-> req[o].b, number |-> n, raced |-> FALSE])
    BY <1>9 DEF NumberBooking, ReadNumber
  <2> QED
    BY <1>2, <1>9, <2>1
<1>10. ASSUME NEW o \in Procs, NEW n \in Numbers, NumberOffice(o, n)
      PROVE  NumberOffice(p, n) /\ req'[p] = [at |-> "create", b |-> None, number |-> n, raced |-> FALSE]
  <2>1. Hold(o, [at |-> "create", b |-> None, number |-> n, raced |-> FALSE])
    BY <1>10 DEF NumberOffice, ReadNumber
  <2> QED
    BY <1>2, <1>10, <2>1
<1>11. ASSUME NEW o \in Procs, NEW b \in Bookings, CheckoutLoad(o, b)
      PROVE  CheckoutLoad(p, b) /\ req'[p] = [at |-> "checkout", b |-> b]
  <2>1. Hold(o, [at |-> "checkout", b |-> b])
    BY <1>11 DEF CheckoutLoad
  <2> QED
    BY <1>2, <1>11, <2>1
<1>12. ASSUME NEW o \in Procs, NEW s \in Sessions, OpenSession(o, s)
      PROVE  OpenSession(p, s) /\ req'[p] = [at |-> "record", b |-> req[p].b, s |-> s]
  <2>1. Hold(o, [at |-> "record", b |-> req[o].b, s |-> s])
    BY <1>12 DEF OpenSession
  <2> QED
    BY <1>2, <1>12, <2>1
<1>13. CASE UNCHANGED vars
  BY <1>1, <1>13 DEF vars
<1> QED
  <2>1. CASE \E o \in Procs, b \in Bookings, at \in {"convert", "cancel"} : Decide(o, b, at)
    BY <1>8, <2>1
  <2>2. CASE \E o \in Procs, b \in Bookings : CheckoutLoad(o, b)
    BY <1>11, <2>2
  <2>3. CASE \E o \in Procs, n \in Numbers : NumberBooking(o, n)
    BY <1>9, <2>3
  <2>4. CASE \E o \in Procs, n \in Numbers : NumberOffice(o, n)
    BY <1>10, <2>4
  <2>5. CASE \E o \in Procs, s \in Sessions : OpenSession(o, s)
    BY <1>12, <2>5
  <2>6. CASE Payments
    BY <1>7, <2>6 DEF Payments
  <2> QED
    BY <1>5, <1>6, <1>13, <2>1, <2>2, <2>3, <2>4, <2>5, <2>6 DEF Next, Requests

\* By which step a request came to where it is.
LEMMA StepTo ==
    ASSUME IInv, [Next]_vars, NEW p \in Procs, req'[p] # req[p]
    PROVE  /\ req'[p].at = "record" =>
                \E s \in Sessions :
                   OpenSession(p, s) /\ req'[p] = [at |-> "record", b |-> req[p].b, s |-> s]
           /\ req'[p].at = "checkout" =>
                \E b \in Bookings : CheckoutLoad(p, b) /\ req'[p] = [at |-> "checkout", b |-> b]
           /\ req'[p].at \in {"convert", "cancel"} =>
                \E b \in Bookings :
                   Decide(p, b, req'[p].at) /\ req'[p] = [at |-> req'[p].at, b |-> b]
           /\ req'[p].at = "create" =>
                \/ /\ req[p] \in CreateReq /\ req[p].at = "create"
                   /\ req'[p] = [req[p] EXCEPT !.raced = TRUE]
                \/ \E n \in Numbers :
                     /\ NumberBooking(p, n)
                     /\ req'[p] = [at |-> "create", b |-> req[p].b, number |-> n, raced |-> FALSE]
                \/ \E n \in Numbers :
                     /\ NumberOffice(p, n)
                     /\ req'[p] = [at |-> "create", b |-> None, number |-> n, raced |-> FALSE]
<1>1. CASE req'[p] = Idle
  BY <1>1, IdleRequest
<1>2. CASE req[p].at = "create" /\ req'[p] = [req[p] EXCEPT !.raced = TRUE]
  <2>1. req[p] \in CreateReq
    BY <1>2, RequestKinds DEF IInv, TypeOK
  <2>2. req'[p].at = "create"
    BY <1>2, <2>1 DEF CreateReq
  <2> QED
    BY <1>2, <2>1, <2>2
<1>3. CASE \E b \in Bookings, at \in {"convert", "cancel"} :
             Decide(p, b, at) /\ req'[p] = [at |-> at, b |-> b]
  BY <1>3
<1>4. CASE \E n \in Numbers :
             /\ NumberBooking(p, n)
             /\ req'[p] = [at |-> "create", b |-> req[p].b, number |-> n, raced |-> FALSE]
  <2>1. req'[p].at = "create"
    BY <1>4
  <2> QED
    BY <1>4, <2>1
<1>5. CASE \E n \in Numbers :
             /\ NumberOffice(p, n)
             /\ req'[p] = [at |-> "create", b |-> None, number |-> n, raced |-> FALSE]
  <2>1. req'[p].at = "create"
    BY <1>5
  <2> QED
    BY <1>5, <2>1
<1>6. CASE \E b \in Bookings : CheckoutLoad(p, b) /\ req'[p] = [at |-> "checkout", b |-> b]
  BY <1>6
<1>7. CASE \E s \in Sessions : OpenSession(p, s) /\ req'[p] = [at |-> "record", b |-> req[p].b, s |-> s]
  BY <1>7
<1> QED
  BY <1>1, <1>2, <1>3, <1>4, <1>5, <1>6, <1>7, RequestsKept

-----------------------------------------------------------------------------
(***************************************************************************)
(* The parts of the invariant.                                             *)
(***************************************************************************)

\* What a step may make of a session and its transaction.
LEMMA SessionsKept ==
    ASSUME IInv, [Next]_vars, NEW s \in Sessions
    PROVE  \/ checkout'[s] = checkout[s] /\ txn'[s] = txn[s] /\ (hook'[s] = hook[s] \/ hook'[s] = "none")
           \/ \E p \in Procs : OpenSession(p, s) /\ checkout'[s] = "open" /\ txn'[s] = txn[s] /\ hook'[s] = hook[s]
           \/ \E p \in Procs :
                /\ RecordSession(p) /\ req[p].s = s /\ req[p].b \in Bookings
                /\ checkout'[s] = checkout[s] /\ hook'[s] = hook[s]
                /\ txn'[s] = Transaction(req[p].b) /\ txn'[s] # None
           \/ Pay(s) /\ checkout'[s] = "paid" /\ txn'[s] = txn[s] /\ hook'[s] = hook[s]
           \/ /\ Collected(s) /\ Collected(s)' /\ txn[s] # None /\ txn'[s] # None
              /\ txn'[s].b = txn[s].b
<1> USE DEF IInv
<1>1. ASSUME UNCHANGED <<checkout, txn, hook>>
      PROVE  checkout'[s] = checkout[s] /\ txn'[s] = txn[s] /\ hook'[s] = hook[s]
  BY <1>1
<1>2. ASSUME NEW p \in Procs, NEW o \in Sessions, OpenSession(p, o)
      PROVE  IF o = s THEN checkout'[s] = "open" /\ txn'[s] = txn[s] /\ hook'[s] = hook[s]
                      ELSE checkout'[s] = checkout[s] /\ txn'[s] = txn[s] /\ hook'[s] = hook[s]
  BY <1>2 DEF OpenSession, TypeOK, db
<1>3. ASSUME NEW p \in Procs, RecordSession(p)
      PROVE  IF req[p].s = s
             THEN /\ req[p].b \in Bookings /\ checkout'[s] = checkout[s] /\ hook'[s] = hook[s]
                  /\ txn'[s] = Transaction(req[p].b) /\ txn'[s] # None
             ELSE checkout'[s] = checkout[s] /\ txn'[s] = txn[s] /\ hook'[s] = hook[s]
  <2>1. req[p].b \in Bookings
    BY <1>3, RequestKinds DEF RecordSession, TypeOK
  <2>2. Transaction(req[p].b) # None
    BY <2>1, NoTransaction DEF Transaction, Txn
  <2> QED
    BY <1>3, <2>1, <2>2 DEF RecordSession, TypeOK
<1>4. ASSUME NEW o \in Sessions, Pay(o)
      PROVE  IF o = s THEN checkout'[s] = "paid" /\ txn'[s] = txn[s] /\ hook'[s] = hook[s]
                      ELSE checkout'[s] = checkout[s] /\ txn'[s] = txn[s] /\ hook'[s] = hook[s]
  BY <1>4 DEF Pay, TypeOK, db
<1>5. ASSUME NEW o \in Sessions, o # s,
             Deliver(o) \/ SettleTransaction(o) \/ SettleBooking(o) \/ FailDelivery(o)
      PROVE  checkout'[s] = checkout[s] /\ txn'[s] = txn[s] /\ hook'[s] = hook[s]
  BY <1>5 DEF Deliver, SettleTransaction, SettleBooking, FailDelivery, Answer, TypeOK, db
<1>6. ASSUME Deliver(s)
      PROVE  Collected(s) /\ Collected(s)' /\ txn[s] # None /\ txn'[s] # None /\ txn'[s].b = txn[s].b
  BY <1>6 DEF Deliver, Collected, Recorded, db
<1>7. ASSUME FailDelivery(s)
      PROVE  Collected(s) /\ Collected(s)' /\ txn[s] # None /\ txn'[s] # None /\ txn'[s].b = txn[s].b
  BY <1>7 DEF FailDelivery, Collected, Recorded, db
<1>8. ASSUME SettleTransaction(s)
      PROVE  Collected(s) /\ Collected(s)' /\ txn[s] # None /\ txn'[s] # None /\ txn'[s].b = txn[s].b
  <2>1. Collected(s) /\ txn[s] # None /\ txn[s] \in Txn
    BY <1>8, DeliveredRow DEF SettleTransaction, Recorded
  <2>2. Collected(s)'
    BY <1>8, <2>1, AnswerWrites DEF SettleTransaction
  <2>3. txn'[s] = [txn[s] EXCEPT !.paid = TRUE]
    BY <1>8 DEF SettleTransaction, TypeOK
  <2>4. txn'[s].b = txn[s].b /\ txn'[s] \in Txn
    BY <2>1, <2>3 DEF Txn
  <2> QED
    BY <2>1, <2>2, <2>4, NoTransaction
<1>9. ASSUME SettleBooking(s)
      PROVE  Collected(s) /\ Collected(s)' /\ txn[s] # None /\ txn'[s] # None /\ txn'[s].b = txn[s].b
  <2>1. Collected(s) /\ txn[s] # None
    BY <1>9, DeliveredRow DEF SettleBooking, Recorded
  <2> QED
    BY <1>9, <2>1, AnswerWrites DEF SettleBooking
<1>10. CASE UNCHANGED <<checkout, txn, hook>>
  BY <1>1, <1>10
<1>11. CASE \E p \in Procs, o \in Sessions : OpenSession(p, o)
  BY <1>2, <1>11
<1>12. CASE \E p \in Procs : RecordSession(p)
  BY <1>3, <1>12
<1>13. CASE Payments
  BY <1>4, <1>5, <1>6, <1>7, <1>8, <1>9, <1>13 DEF Payments
<1> QED
  BY <1>10, <1>11, <1>12, <1>13
     DEF Next, Requests, Book, Decide, Cancel, NumberBooking, NumberOffice, ReadNumber, Convert,
         CreateOfficeJob, RefuseDuplicate, CheckoutLoad, Fail, db, vars

LEMMA RecordedStep == IInv /\ [Next]_vars => Recorded'
<1> SUFFICES ASSUME IInv, [Next]_vars PROVE Recorded'
  OBVIOUS
<1> USE DEF IInv
<1>1. ASSUME NEW s \in Sessions
      PROVE  /\ checkout'[s] = "unused" => txn'[s] = None
             /\ Collected(s)' => txn'[s] # None
  <2>1. ASSUME NEW p \in Procs, RecordSession(p), req[p].s = s PROVE checkout[s] = "open"
    BY <2>1 DEF RecordSession, Recorded
  <2> QED
    BY <2>1, SessionsKept DEF Recorded, Collected, Pay
<1>2. ASSUME NEW s \in Sessions, hook'[s] # "none" PROVE Collected(s)'
  <2>1. CASE Deliver(s)
    BY <2>1 DEF Deliver, Collected, db
  <2>2. CASE ~Deliver(s) /\ hook'[s] # hook[s]
    <3>1. SettleTransaction(s) \/ SettleBooking(s) \/ FailDelivery(s)
      BY <2>2 DEF Next, Requests, Payments, Book, Decide, Cancel, NumberBooking, NumberOffice, ReadNumber,
             Convert, CreateOfficeJob, RefuseDuplicate, CheckoutLoad, OpenSession, RecordSession,
             Fail, Pay, Deliver, SettleTransaction, SettleBooking, FailDelivery, TypeOK, db, vars
    <3> QED
      BY <1>2, <3>1, DeliveredRow, AnswerWrites
         DEF SettleTransaction, SettleBooking, FailDelivery, TypeOK
  <2>3. CASE hook'[s] = hook[s]
    BY <1>2, <2>3, SessionsKept DEF Recorded, Collected, OpenSession
  <2> QED
    BY <2>1, <2>2, <2>3
<1>3. ASSUME NEW p \in Procs, req'[p].at = "record"
      PROVE  \/ /\ req'[p] = req[p]
                /\ checkout'[req[p].s] = "open" /\ txn'[req[p].s] = None
             \/ \E s \in Sessions :
                  OpenSession(p, s) /\ req'[p].s = s /\ checkout'[s] = "open" /\ txn'[s] = None
  <2>1. CASE req'[p] = req[p]
    <3>1. req[p].s \in Sessions /\ checkout[req[p].s] = "open" /\ txn[req[p].s] = None
      BY <1>3, <2>1, RequestKinds DEF TypeOK, Recorded
    <3>2. ASSUME NEW o \in Procs, RecordSession(o), req[o].s = req[p].s PROVE FALSE
      <4>1. o = p
        BY <1>3, <2>1, <3>2 DEF RecordSession, Recorded
      <4>2. req'[p] = Idle
        BY <3>2, <4>1, DoneWrites DEF RecordSession
      <4> QED
        BY <1>3, <4>2, IdleRequest
    <3>3. ASSUME NEW o \in Procs, OpenSession(o, req[p].s) PROVE FALSE
      BY <3>1, <3>3 DEF OpenSession
    <3>4. ~Pay(req[p].s)
      BY <3>1 DEF Pay
    <3>5. ~Collected(req[p].s)
      BY <3>1 DEF Collected
    <3> QED
      BY <2>1, <3>1, <3>2, <3>3, <3>4, <3>5, SessionsKept
  <2>2. CASE req'[p] # req[p]
    <3>1. PICK s \in Sessions : OpenSession(p, s) /\ req'[p] = [at |-> "record", b |-> req[p].b, s |-> s]
      BY <1>3, <2>2, StepTo
    <3> QED
      <4>1. checkout[s] = "unused" /\ checkout' = [checkout EXCEPT ![s] = "open"] /\ txn' = txn
        BY <3>1 DEF OpenSession, db
      <4>2. checkout'[s] = "open" /\ txn'[s] = None
        BY <4>1 DEF Recorded, TypeOK
      <4>3. req'[p].s = s
        BY <3>1
      <4> QED
        BY <3>1, <4>2, <4>3
  <2> QED
    BY <2>1, <2>2
<1>4. ASSUME NEW p \in Procs, NEW o \in Procs, req'[p].at = "record", req'[o].at = "record",
             req'[p].s = req'[o].s, p # o
      PROVE  FALSE
  <2>1. ASSUME NEW q \in Procs, NEW r \in Procs, q # r, NEW s \in Sessions, OpenSession(q, s)
        PROVE  req'[r] = req[r]
    BY <2>1 DEF OpenSession, Hold, TypeOK
  <2>2. ASSUME NEW q \in Procs, NEW r \in Procs, q # r, NEW s \in Sessions, OpenSession(q, s),
               req[r].at = "record", req[r].s = s
        PROVE  FALSE
    BY <2>2 DEF OpenSession, Recorded
  <2> QED
    BY <1>3, <1>4, <2>1, <2>2 DEF Recorded
<1> QED
  BY <1>1, <1>2, <1>3, <1>4 DEF Recorded

LEMMA PayingStep == IInv /\ [Next]_vars => Paying'
<1> SUFFICES ASSUME IInv, [Next]_vars PROVE Paying'
  OBVIOUS
<1> USE DEF IInv
<1>1. ASSUME NEW b \in Bookings, booking[b] # None PROVE booking'[b] # None
  BY <1>1, BookingsKept DEF Kept
<1>2. ASSUME NEW s \in Sessions, txn'[s] # None PROVE booking'[txn'[s].b] # None
  <2>1. ASSUME txn[s] # None, txn'[s].b = txn[s].b PROVE booking'[txn'[s].b] # None
    <3>1. txn[s].b \in Bookings
      BY <2>1 DEF TypeOK, Txn
    <3> QED
      BY <1>1, <2>1, <3>1 DEF Paying
  <2>2. ASSUME NEW p \in Procs, RecordSession(p), req[p].b \in Bookings, txn'[s] = Transaction(req[p].b)
        PROVE  booking'[txn'[s].b] # None
    BY <1>1, <2>2 DEF Paying, RecordSession, Transaction
  <2> QED
    BY <1>2, <2>1, <2>2, SessionsKept
<1>3. ASSUME NEW p \in Procs, req'[p].at \in {"checkout", "record"} PROVE booking'[req'[p].b] # None
  <2>1. CASE req'[p] = req[p]
    BY <1>1, <1>3, <2>1, RequestKinds DEF TypeOK, Paying
  <2>2. ASSUME NEW b \in Bookings, CheckoutLoad(p, b), req'[p] = [at |-> "checkout", b |-> b]
        PROVE  booking'[req'[p].b] # None
    BY <1>1, <2>2 DEF CheckoutLoad
  <2>3. ASSUME NEW s \in Sessions, OpenSession(p, s), req'[p] = [at |-> "record", b |-> req[p].b, s |-> s]
        PROVE  booking'[req'[p].b] # None
    BY <1>1, <2>3, RequestKinds DEF OpenSession, TypeOK, Paying
  <2> QED
    BY <1>3, <2>1, <2>2, <2>3, StepTo
<1> QED
  BY <1>2, <1>3 DEF Paying

LEMMA CheckedStep == IInv /\ [Next]_vars => Checked'
<1> SUFFICES ASSUME IInv, [Next]_vars, NEW p \in Procs, NEW b \in Bookings, Deciding(req[p], b)'
             PROVE  /\ booking'[b] # None
                    /\ req'[p].at \in {"convert", "create"} /\ booking'[b].method = "ONLINE"
                       => booking'[b].paid
  BY DEF Checked, Deciding
<1> USE DEF IInv
\* It is enough to have looked before this step.
<1>1. ASSUME booking[b] # None,
             req'[p].at \in {"convert", "create"} /\ booking[b].method = "ONLINE" => booking[b].paid
      PROVE  /\ booking'[b] # None
             /\ req'[p].at \in {"convert", "create"} /\ booking'[b].method = "ONLINE"
                => booking'[b].paid
  BY <1>1, BookingsKept DEF Kept
<1>2. CASE req'[p] = req[p]
  BY <1>1, <1>2 DEF Deciding, Checked
<1>3. CASE req'[p] # req[p] /\ req'[p].at \in {"convert", "cancel"}
  <2>1. PICK o \in Bookings : Decide(p, o, req'[p].at) /\ req'[p] = [at |-> req'[p].at, b |-> o]
    BY <1>3, StepTo
  <2>2. o = b
    BY <2>1 DEF Deciding
  <2> QED
    BY <1>1, <1>3, <2>1, <2>2 DEF Decide, Convertible
<1>4. CASE req'[p] # req[p] /\ req'[p].at = "create"
  <2>1. CASE /\ req[p] \in CreateReq /\ req[p].at = "create"
             /\ req'[p] = [req[p] EXCEPT !.raced = TRUE]
    <3>1. req[p].b = b
      BY <2>1 DEF Deciding, CreateReq
    <3> QED
      BY <1>1, <2>1, <3>1 DEF Checked, Deciding
  <2>2. ASSUME NEW n \in Numbers, NumberBooking(p, n),
               req'[p] = [at |-> "create", b |-> req[p].b, number |-> n, raced |-> FALSE]
        PROVE  /\ booking'[b] # None
               /\ req'[p].at \in {"convert", "create"} /\ booking'[b].method = "ONLINE"
                  => booking'[b].paid
    BY <1>1, <2>2 DEF NumberBooking, Checked, Deciding
  <2>3. ASSUME req'[p].b = None PROVE FALSE
    BY <2>3, NullAssumption DEF Deciding
  <2>4. CASE \E n \in Numbers :
               /\ NumberBooking(p, n)
               /\ req'[p] = [at |-> "create", b |-> req[p].b, number |-> n, raced |-> FALSE]
    BY <2>2, <2>4
  <2>5. CASE \E n \in Numbers :
               /\ NumberOffice(p, n)
               /\ req'[p] = [at |-> "create", b |-> None, number |-> n, raced |-> FALSE]
    BY <2>3, <2>5
  <2> QED
    BY <1>4, <2>1, <2>4, <2>5, StepTo
<1> QED
  BY <1>2, <1>3, <1>4 DEF Deciding

\* A number that was free is taken only by another job, and the step that takes it says so.
LEMMA FreshStep == IInv /\ [Next]_vars => NumbersAreFresh'
<1> SUFFICES ASSUME IInv, [Next]_vars, NEW p \in Procs, req'[p].at = "create", req'[p].number \in used'
             PROVE  req'[p].raced \/ req'[p].number > LastPadded
  BY DEF NumbersAreFresh
<1> USE DEF IInv
<1>1. CASE req'[p] = req[p]
  <2>1. CASE used' = used
    BY <1>1, <2>1 DEF NumbersAreFresh
  <2>2. CASE used' # used
    <3>1. PICK o \in Procs : InsertJob(o)
      BY <2>2 DEF Next, Requests, Payments, Book, Decide, Cancel, NumberBooking, NumberOffice, ReadNumber,
             Convert, CreateOfficeJob, RefuseDuplicate, CheckoutLoad, OpenSession, RecordSession,
             Fail, Pay, Deliver, SettleTransaction, SettleBooking, FailDelivery, db, vars
    <3>2. o # p
      BY <1>1, <3>1, InsertWrites, IdleRequest DEF InsertJob
    <3>3. req[p] \in CreateReq /\ req'[p] = [req[p] EXCEPT !.raced = TRUE]
      BY <1>1, <3>1, <3>2, InsertWrites
    <3> QED
      BY <1>1, <3>3 DEF CreateReq
  <2> QED
    BY <2>1, <2>2
<1>2. CASE req'[p] # req[p]
  <2>1. CASE req[p] \in CreateReq /\ req'[p] = [req[p] EXCEPT !.raced = TRUE]
    BY <2>1 DEF CreateReq
  <2>2. ASSUME NEW n \in Numbers, NEW b, ReadNumber(p, b, n), req'[p].number = n
        PROVE  req'[p].number > LastPadded
    <3>1. n \in used /\ n \in Nat
      BY <2>2, NumbersAreNotNoJob DEF ReadNumber, db
    <3> QED
      BY <2>2, <3>1, PaddedAssumption DEF ReadNumber, IsNext
  <2>3. CASE \E n \in Numbers :
               /\ NumberBooking(p, n)
               /\ req'[p] = [at |-> "create", b |-> req[p].b, number |-> n, raced |-> FALSE]
    <3>1. PICK n \in Numbers : ReadNumber(p, req[p].b, n) /\ req'[p].number = n
      BY <2>3 DEF NumberBooking
    <3> QED
      BY <2>2, <3>1
  <2>4. CASE \E n \in Numbers :
               /\ NumberOffice(p, n)
               /\ req'[p] = [at |-> "create", b |-> None, number |-> n, raced |-> FALSE]
    <3>1. PICK n \in Numbers : ReadNumber(p, None, n) /\ req'[p].number = n
      BY <2>4 DEF NumberOffice
    <3> QED
      BY <2>2, <3>1
  <2> QED
    BY <1>2, <2>1, <2>3, <2>4, StepTo
<1> QED
  BY <1>1, <1>2

LEMMA PaidStep == IInv /\ [Next]_vars => DrivenOncePaid'
<1> SUFFICES ASSUME IInv, [Next]_vars, NEW b \in Bookings, booking'[b] # None
             PROVE  /\ booking'[b].paid => \E s \in Sessions : txn'[s] # None /\ txn'[s].b = b /\ Collected(s)'
                    /\ booking'[b].method = "ONLINE" /\ booking'[b].job # NoJob => booking'[b].paid
  BY DEF DrivenOncePaid
<1> USE DEF IInv
<1>1. ASSUME NEW s \in Sessions, txn[s] # None, Collected(s)
      PROVE  txn'[s] # None /\ txn'[s].b = txn[s].b /\ Collected(s)'
  <2>1. ASSUME NEW p \in Procs, OpenSession(p, s) PROVE FALSE
    BY <1>1, <2>1 DEF OpenSession, Collected
  <2>2. ASSUME NEW p \in Procs, RecordSession(p), req[p].s = s PROVE FALSE
    BY <1>1, <2>2 DEF RecordSession, Recorded
  <2>3. ~Pay(s)
    BY <1>1 DEF Pay, Collected
  <2> QED
    BY <1>1, <2>1, <2>2, <2>3, SessionsKept DEF Collected
<1>2. CASE booking[b] # None /\ booking'[b] = booking[b]
  BY <1>1, <1>2 DEF DrivenOncePaid
<1>3. CASE booking'[b] # booking[b]
  <2>1. ASSUME NEW method \in {"ONLINE", "PAY_ON_ARRIVAL"},
               booking'[b] = [method |-> method, status |-> "CONFIRMED", paid |-> FALSE, job |-> NoJob]
        PROVE  ~booking'[b].paid /\ booking'[b].job = NoJob
    BY <2>1
  <2>2. ASSUME booking[b] \in Booking, booking'[b] = [booking[b] EXCEPT !.status = "CANCELLED"]
        PROVE  /\ booking[b] # None /\ booking'[b].paid = booking[b].paid
               /\ booking'[b].method = booking[b].method /\ booking'[b].job = booking[b].job
    BY <2>2, BookingRows DEF Booking
  <2>3. ASSUME NEW p \in Procs, Convert(p), req[p].b = b, booking[b] \in Booking, req[p].number \in Numbers,
               booking'[b] = [booking[b] EXCEPT !.status = "CONVERTED", !.job = req[p].number]
        PROVE  /\ booking[b] # None /\ booking'[b].paid = booking[b].paid
               /\ booking'[b].method = "ONLINE" => booking'[b].paid
    <3>1. booking'[b].paid = booking[b].paid /\ booking'[b].method = booking[b].method
      BY <2>3, RowsKept
    <3>2. booking[b].method = "ONLINE" => booking[b].paid
      BY <2>3 DEF Convert, InsertJob, Checked
    <3> QED
      BY <2>3, <3>1, <3>2, BookingRows
  <2>4. ASSUME booking[b] \in Booking, booking'[b] = [booking[b] EXCEPT !.paid = TRUE] PROVE booking'[b].paid = TRUE
    BY <2>4, RowsKept
  <2>5. CASE \E method \in {"ONLINE", "PAY_ON_ARRIVAL"} :
               booking'[b] = [method |-> method, status |-> "CONFIRMED", paid |-> FALSE, job |-> NoJob]
    BY <2>1, <2>5
  <2>6. CASE booking[b] \in Booking /\ booking'[b] = [booking[b] EXCEPT !.status = "CANCELLED"]
    BY <1>1, <2>2, <2>6 DEF DrivenOncePaid
  <2>7. CASE \E p \in Procs :
               /\ Convert(p) /\ req[p].b = b /\ booking[b] \in Booking /\ req[p].number \in Numbers
               /\ booking'[b] = [booking[b] EXCEPT !.status = "CONVERTED", !.job = req[p].number]
    <3>1. /\ booking[b] # None /\ booking'[b].paid = booking[b].paid
          /\ booking'[b].method = "ONLINE" => booking'[b].paid
      BY <2>3, <2>7
    <3> QED
      BY <1>1, <3>1 DEF DrivenOncePaid
  <2>8. CASE \E s \in Sessions :
               /\ txn[s].b = b /\ booking[b] \in Booking /\ txn[s] # None /\ Collected(s)
               /\ booking'[b] = [booking[b] EXCEPT !.paid = TRUE]
    <3>1. booking'[b].paid
      BY <2>4, <2>8
    <3> QED
      BY <1>1, <2>8, <3>1
  <2> QED
    BY <1>3, <2>5, <2>6, <2>7, <2>8, RowSteps
<1> QED
  BY <1>2, <1>3

\* Bookings have the jobs that were created for them.
LEMMA JobsStep == IInv /\ [Next]_vars => Jobs'
<1> SUFFICES ASSUME IInv, [Next]_vars, NEW b \in Bookings, booking'[b] # None
             PROVE  booking'[b].job \in used' \cup {NoJob}
  BY DEF Jobs
<1> USE DEF IInv
<1>1. used \subseteq used'
  <2>1. CASE UNCHANGED used
    BY <2>1
  <2>2. ASSUME NEW p \in Procs, InsertJob(p) PROVE used \subseteq used'
    BY <2>2 DEF InsertJob
  <2>3. CASE \E p \in Procs : InsertJob(p)
    BY <2>2, <2>3
  <2> QED
    BY <2>1, <2>3
       DEF Next, Requests, Payments, Book, Decide, Cancel, NumberBooking, NumberOffice, ReadNumber,
           Convert, CreateOfficeJob, RefuseDuplicate, CheckoutLoad, OpenSession, RecordSession,
           Fail, Pay, Deliver, SettleTransaction, SettleBooking, FailDelivery, db, vars
<1>2. CASE booking[b] # None /\ booking'[b].job = booking[b].job
  BY <1>1, <1>2 DEF Jobs
<1>3. CASE booking'[b] # booking[b] /\ booking'[b].job # NoJob
  <2>1. ASSUME booking[b] \in Booking,
               \/ booking'[b] = [booking[b] EXCEPT !.status = "CANCELLED"]
               \/ booking'[b] = [booking[b] EXCEPT !.paid = TRUE]
        PROVE  booking[b] # None /\ booking'[b].job = booking[b].job
    BY <2>1, BookingRows DEF Booking
  <2>2. ASSUME NEW p \in Procs, Convert(p), booking[b] \in Booking, req[p].number \in Numbers,
               booking'[b] = [booking[b] EXCEPT !.status = "CONVERTED", !.job = req[p].number]
        PROVE  booking'[b].job \in used'
    <3>1. booking'[b].job = req[p].number
      BY <2>2 DEF Booking
    <3> QED
      BY <2>2, <3>1, InsertWrites DEF Convert
  <2>3. CASE \E p \in Procs :
               /\ Convert(p) /\ booking[b] \in Booking /\ req[p].number \in Numbers
               /\ booking'[b] = [booking[b] EXCEPT !.status = "CONVERTED", !.job = req[p].number]
    BY <2>2, <2>3
  <2>4. CASE /\ booking[b] \in Booking
             /\ \/ booking'[b] = [booking[b] EXCEPT !.status = "CANCELLED"]
                \/ booking'[b] = [booking[b] EXCEPT !.paid = TRUE]
    BY <1>2, <2>1, <2>4
  <2>5. CASE \E method \in {"ONLINE", "PAY_ON_ARRIVAL"} :
               booking'[b] = [method |-> method, status |-> "CONFIRMED", paid |-> FALSE, job |-> NoJob]
    BY <2>5
  <2> QED
    BY <1>3, <2>3, <2>4, <2>5, RowSteps
<1>4. CASE booking'[b] # booking[b] /\ booking'[b].job = NoJob
  BY <1>4
<1> QED
  BY <1>2, <1>3, <1>4

-----------------------------------------------------------------------------
(***************************************************************************)
(* Requests that take turns on a booking.                                  *)
(***************************************************************************)

\* Who decides about a booking after a step did so before it, or begins to.
LEMMA DecidingFrom ==
    ASSUME IInv, [Next]_vars, NEW p \in Procs, NEW b \in Bookings, Deciding(req'[p], b)
    PROVE  Deciding(req[p], b) \/ \E at \in {"convert", "cancel"} : Decide(p, b, at)
<1> USE DEF IInv
<1>1. CASE req'[p] = req[p]
  BY <1>1
<1>2. CASE req'[p] # req[p] /\ req'[p].at \in {"convert", "cancel"}
  <2>1. PICK o \in Bookings : Decide(p, o, req'[p].at) /\ req'[p] = [at |-> req'[p].at, b |-> o]
    BY <1>2, StepTo
  <2>2. o = b
    BY <2>1 DEF Deciding
  <2> QED
    BY <1>2, <2>1, <2>2
<1>3. CASE req'[p] # req[p] /\ req'[p].at = "create"
  <2>1. CASE /\ req[p] \in CreateReq /\ req[p].at = "create"
             /\ req'[p] = [req[p] EXCEPT !.raced = TRUE]
    BY <2>1 DEF Deciding, CreateReq
  <2>2. CASE \E n \in Numbers :
               /\ NumberBooking(p, n)
               /\ req'[p] = [at |-> "create", b |-> req[p].b, number |-> n, raced |-> FALSE]
    <3>1. req'[p].b = req[p].b /\ req[p].at = "convert"
      BY <2>2 DEF NumberBooking
    <3> QED
      BY <3>1 DEF Deciding
  <2>3. CASE \E n \in Numbers :
               /\ NumberOffice(p, n)
               /\ req'[p] = [at |-> "create", b |-> None, number |-> n, raced |-> FALSE]
    <3>1. req'[p].b = None
      BY <2>3
    <3> QED
      BY <3>1, NullAssumption DEF Deciding
  <2> QED
    BY <1>3, <2>1, <2>2, <2>3, StepTo
<1> QED
  BY <1>1, <1>2, <1>3 DEF Deciding

\* A booking stays contested, and is so from when a second request decides about it.
LEMMA OverlapsStay ==
    ASSUME IInv, [Next]_vars
    PROVE  /\ overlapped \subseteq overlapped'
           /\ \A p \in Procs, b \in Bookings, at \in {"convert", "cancel"}, o \in Procs :
                Decide(p, b, at) /\ Deciding(req[o], b) => b \in overlapped'
           /\ \A b \in overlapped' \ overlapped :
                \E p \in Procs, at \in {"convert", "cancel"} : Decide(p, b, at)
<1>1. CASE UNCHANGED overlapped
  BY <1>1 DEF Decide
<1>2. ASSUME NEW q \in Procs, NEW c \in Bookings, NEW kind \in {"convert", "cancel"}, Decide(q, c, kind)
      PROVE  /\ overlapped \subseteq overlapped'
             /\ \A b \in overlapped' \ overlapped : b = c
  BY <1>2 DEF Decide
<1>3. CASE \E q \in Procs, c \in Bookings, kind \in {"convert", "cancel"} : Decide(q, c, kind)
  <2>1. \A p \in Procs, b \in Bookings, at \in {"convert", "cancel"}, o \in Procs :
          Decide(p, b, at) /\ Deciding(req[o], b) => b \in overlapped'
    BY DEF Decide
  <2> QED
    BY <1>2, <1>3, <2>1
<1> QED
  BY <1>1, <1>3
     DEF Next, Requests, Payments, Book, Cancel, NumberBooking, NumberOffice, ReadNumber,
         Convert, CreateOfficeJob, RefuseDuplicate, CheckoutLoad, OpenSession, RecordSession,
         Fail, Pay, Deliver, SettleTransaction, SettleBooking, FailDelivery, db, vars

\* Requests that take turns find the booking as they left it.
LEMMA UndecidedStep == IInv /\ [Next]_vars => Undecided'
<1> SUFFICES ASSUME IInv, [Next]_vars PROVE Undecided'
  OBVIOUS
<1> USE DEF IInv
<1>1. ASSUME NEW b \in overlapped' PROVE booking'[b] # None
  <2>1. b \in Bookings
    BY TypeStep DEF TypeOK
  <2>2. booking[b] # None
    BY <2>1, OverlapsStay DEF Undecided, Decide
  <2> QED
    BY <2>1, <2>2, BookingsKept DEF Kept
<1>2. ASSUME NEW p \in Procs, NEW o \in Procs, NEW b \in Bookings \ overlapped',
             Deciding(req'[p], b), Deciding(req'[o], b), p # o
      PROVE  FALSE
  <2>1. ASSUME NEW q \in Procs, NEW r \in Procs, q # r, Deciding(req'[r], b),
               NEW at \in {"convert", "cancel"}, Decide(q, b, at)
        PROVE  FALSE
    <3>1. req'[r] = req[r]
      BY <2>1 DEF Decide, Hold, TypeOK
    <3> QED
      BY <2>1, <3>1, <1>2, OverlapsStay
  <2>2. Deciding(req[p], b) /\ Deciding(req[o], b)
    BY <1>2, <2>1, DecidingFrom
  <2> QED
    BY <1>2, <2>2, OverlapsStay DEF Undecided
<1>3. ASSUME NEW p \in Procs, NEW b \in Bookings \ overlapped', Deciding(req'[p], b)
      PROVE  booking'[b].status = "CONFIRMED"
  <2>1. CASE \E at \in {"convert", "cancel"} : Decide(p, b, at)
    BY <2>1 DEF Decide, Cancellable, Convertible, db
  <2>2. CASE Deciding(req[p], b)
    <3>1. b \notin overlapped /\ booking[b].status = "CONFIRMED" /\ booking[b] # None
      BY <1>3, <2>2, OverlapsStay DEF Undecided, Checked
    <3>2. ASSUME NEW q \in Procs, Deciding(req[q], b), req'[q] = Idle PROVE FALSE
      <4>1. q = p
        BY <2>2, <3>1, <3>2 DEF Undecided
      <4> QED
        BY <1>3, <3>2, <4>1, IdleRequest DEF Deciding
    <3>3. ASSUME NEW q \in Procs, Cancel(q), req[q].b = b PROVE FALSE
      BY <3>2, <3>3, DoneWrites DEF Cancel, Deciding
    <3>4. ASSUME NEW q \in Procs, Convert(q), req[q].b = b PROVE FALSE
      BY <3>2, <3>4, InsertWrites DEF Convert, InsertJob, Deciding
    <3>5. ASSUME booking[b] \in Booking, booking'[b] = [booking[b] EXCEPT !.paid = TRUE]
          PROVE  booking'[b].status = "CONFIRMED"
      BY <3>1, <3>5 DEF Booking
    <3> QED
      BY <3>1, <3>3, <3>4, <3>5, RowSteps
  <2> QED
    BY <1>3, <2>1, <2>2, DecidingFrom
<1> QED
  BY <1>1, <1>2, <1>3 DEF Undecided

-----------------------------------------------------------------------------
LEMMA Invariance == Spec => []IInv
<1>1. IInv /\ [Next]_vars => IInv'
  BY TypeStep, RecordedStep, PayingStep, CheckedStep, PaidStep, FreshStep, UndecidedStep, JobsStep DEF IInv
<1> QED
  BY InitHolds, <1>1, PTL DEF Spec

\* Rows, sessions and requests are always of their kind.
THEOREM Types == Spec => []TypeOK
<1>1. IInv => TypeOK
  BY DEF IInv
<1> QED
  BY <1>1, Invariance, PTL

\* A booking is PAID only when its guest has paid, and driven only then if it is paid
\* online, however requests, webhooks and failures interleave (convertToJob,
\* handleStripeWebhook).
THEOREM PaidBeforeDriven == Spec => []DrivenOncePaid
<1>1. IInv => DrivenOncePaid
  BY DEF IInv
<1> QED
  BY <1>1, Invariance, PTL

\* A number of the padded width is refused only where another job came in between
\* (generateInternalRef).
THEOREM FreshNumbers == Spec => []NumbersAreFresh
<1>1. IInv => NumbersAreFresh
  BY DEF IInv
<1> QED
  BY <1>1, Invariance, PTL

-----------------------------------------------------------------------------
(***************************************************************************)
(* The ledger: what a step does to a row is a step of the ledger, where    *)
(* the booking is not contested, and no step of it where it is.            *)
(***************************************************************************)

LEMMA ViewOfRow ==
    ASSUME IInv, NEW b \in Bookings
    PROVE  LedgerView[b] = IF b \in overlapped THEN Contested ELSE booking[b]
BY DEF LedgerView

\* Writing the row of one booking is writing its entry, or nothing to see.
LEMMA ViewOfWrite ==
    ASSUME IInv, NEW b \in Bookings, UNCHANGED overlapped,
           \A o \in Bookings \ {b} : booking'[o] = booking[o]
    PROVE  IF b \in overlapped THEN UNCHANGED LedgerView
                               ELSE LedgerView' = [LedgerView EXCEPT ![b] = booking'[b]]
<1>1. CASE b \in overlapped
  BY <1>1 DEF LedgerView
<1>2. CASE b \notin overlapped
  BY <1>2 DEF LedgerView
<1> QED
  BY <1>1, <1>2

\* The view of a booking that is not contested.
LEMMA KeptRow ==
    ASSUME IInv, NEW b \in Bookings \ overlapped, booking[b] # None
    PROVE  booking[b] \in Booking /\ LedgerView[b] = booking[b] /\ Ledger!Kept(b)
BY BookingRows DEF IInv, TypeOK, LedgerView, Ledger!Kept

LEMMA LedgerStep == IInv /\ [Next]_vars => [Ledger!Next]_LedgerView
<1> SUFFICES ASSUME IInv, [Next]_vars PROVE [Ledger!Next]_LedgerView
  OBVIOUS
<1> USE DEF IInv
<1>1. CASE UNCHANGED <<booking, overlapped>>
  BY <1>1 DEF LedgerView
<1>2. ASSUME NEW b \in Bookings, NEW method \in {"ONLINE", "PAY_ON_ARRIVAL"}, Book(b, method)
      PROVE  [Ledger!Next]_LedgerView
  <2>1. b \notin overlapped /\ LedgerView[b] = None
    BY <1>2, ViewOfRow DEF Book, Undecided
  <2>2. LedgerView' = [LedgerView EXCEPT ![b] =
                         [method |-> method, status |-> "CONFIRMED", paid |-> FALSE, job |-> NoJob]]
    BY <1>2, <2>1, ViewOfWrite DEF Book, TypeOK
  <2> QED
    BY <2>1, <2>2 DEF Ledger!Next, Ledger!Book
<1>3. ASSUME NEW p \in Procs, NEW b \in Bookings, NEW at \in {"convert", "cancel"}, Decide(p, b, at)
      PROVE  [Ledger!Next]_LedgerView
  <2>1. CASE overlapped' = overlapped
    BY <1>1, <1>3, <2>1 DEF Decide, db
  <2>2. CASE overlapped' # overlapped
    <3>1. overlapped' = overlapped \cup {b} /\ b \notin overlapped /\ booking' = booking
      BY <1>3, <2>2 DEF Decide, db
    <3>2. LedgerView' = [LedgerView EXCEPT ![b] = Contested]
      BY <3>1 DEF LedgerView
    <3>3. Ledger!Kept(b)
      BY <1>3, <3>1, KeptRow DEF Decide
    <3> QED
      BY <3>2, <3>3 DEF Ledger!Next, Ledger!Contest
  <2> QED
    BY <2>1, <2>2
<1>4. ASSUME NEW p \in Procs, Cancel(p) PROVE [Ledger!Next]_LedgerView
  <2> DEFINE b == req[p].b
  <2>1. b \in Bookings /\ booking[b] # None /\ Deciding(req[p], b)
    BY <1>4, DecidedRow, BookingRows DEF Cancel
  <2>2. UNCHANGED overlapped
    BY <1>4 DEF Cancel
  <2>3. IF b \in overlapped THEN UNCHANGED LedgerView
        ELSE LedgerView' = [LedgerView EXCEPT ![b] = [booking[b] EXCEPT !.status = "CANCELLED"]]
    BY <1>4, <2>1, <2>2, CancelWrites, ViewOfWrite
  <2>4. ASSUME b \notin overlapped PROVE Ledger!Cancel(b)
    <3>1. booking[b].status = "CONFIRMED" /\ LedgerView[b] = booking[b] /\ Ledger!Kept(b)
      BY <2>1, <2>4, KeptRow DEF Undecided
    <3> QED
      BY <2>3, <2>4, <3>1 DEF Ledger!Cancel, Ledger!Undecided
  <2> QED
    BY <2>1, <2>3, <2>4 DEF Ledger!Next
<1>5. ASSUME NEW p \in Procs, Convert(p) PROVE [Ledger!Next]_LedgerView
  <2> DEFINE b == req[p].b
             n == req[p].number
  <2>1. b \in Bookings /\ booking[b] # None /\ Deciding(req[p], b) /\ req[p].at = "create"
    BY <1>5, DecidedRow, BookingRows DEF Convert, InsertJob
  <2>2. UNCHANGED overlapped
    BY <1>5 DEF Convert
  <2>3. n \in Numbers /\ n \notin used /\ n # NoJob
    BY <1>5, InsertWrites, NumbersAreNotNoJob DEF Convert
  <2>4. IF b \in overlapped THEN UNCHANGED LedgerView
        ELSE LedgerView' = [LedgerView EXCEPT ![b] = [booking[b] EXCEPT !.status = "CONVERTED", !.job = n]]
    BY <1>5, <2>1, <2>2, ConvertWrites, ViewOfWrite
  <2>5. ASSUME b \notin overlapped PROVE Ledger!Drive(b, n)
    <3>1. booking[b].status = "CONFIRMED" /\ LedgerView[b] = booking[b] /\ Ledger!Kept(b)
      BY <2>1, <2>5, KeptRow DEF Undecided
    <3>2. booking[b].method = "ONLINE" => booking[b].paid
      BY <2>1 DEF Checked
    <3>3. ASSUME NEW o \in Bookings, Ledger!Kept(o) PROVE LedgerView[o].job # n
      <4>1. LedgerView[o] = booking[o] /\ booking[o] # None
        BY <3>3, ViewOfRow DEF Ledger!Kept
      <4> QED
        BY <2>3, <4>1 DEF Jobs
    <3> QED
      BY <2>4, <2>5, <3>1, <3>2, <3>3 DEF Ledger!Drive, Ledger!Undecided
  <2> QED
    BY <2>1, <2>3, <2>4, <2>5 DEF Ledger!Next
<1>6. ASSUME NEW s \in Sessions, SettleBooking(s) PROVE [Ledger!Next]_LedgerView
  <2> DEFINE b == txn[s].b
  <2>1. b \in Bookings /\ booking[b] # None
    BY <1>6, SettleWrites, BookingRows
  <2>2. UNCHANGED overlapped
    BY <1>6 DEF SettleBooking
  <2>3. IF b \in overlapped THEN UNCHANGED LedgerView
        ELSE LedgerView' = [LedgerView EXCEPT ![b] = [booking[b] EXCEPT !.paid = TRUE]]
    BY <1>6, <2>1, <2>2, SettleWrites, ViewOfWrite
  <2>4. ASSUME b \notin overlapped PROVE Ledger!Settle(b)
    BY <2>1, <2>3, <2>4, KeptRow DEF Ledger!Settle
  <2> QED
    BY <2>1, <2>3, <2>4 DEF Ledger!Next
<1> QED
  BY <1>1, <1>2, <1>3, <1>4, <1>5, <1>6
     DEF Next, Requests, Payments, NumberBooking, NumberOffice, ReadNumber, CreateOfficeJob,
         RefuseDuplicate, CheckoutLoad, OpenSession, RecordSession, Fail, Pay, Deliver,
         SettleTransaction, FailDelivery, db, vars

\* Bookings implement the ledger: driven once or cancelled, never both, a job for each, and
\* paid before driven if paid online, as long as requests take turns on a booking.
THEOREM KeepsLedger == Spec => LedgerSpec
<1>1. Init => Ledger!Init
  BY DEF Init, Ledger!Init, LedgerView
<1>2. IInv /\ [Next]_vars => [Ledger!Next]_LedgerView
  BY LedgerStep
<1> QED
  BY <1>1, <1>2, Invariance, PTL DEF Spec, LedgerSpec, Ledger!Spec

=============================================================================
