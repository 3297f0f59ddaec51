------------------------------ MODULE Bookings ------------------------------
(***************************************************************************)
(* Bookings of guests: booked on the public site, paid there or on         *)
(* arrival, cancelled by the guest or the office, converted by the office  *)
(* to a traffic job, which is numbered as the jobs of the office are.      *)
(*                                                                         *)
(* A request loads the booking, checks what it loaded, and writes later    *)
(* without another look.  It may fail, or the server die, at any point.    *)
(* Payments are taken by an external gateway, which reports them through   *)
(* a webhook until it is answered, and may report them again after that.   *)
(***************************************************************************)
EXTENDS Naturals

CONSTANTS
    Bookings,       \* bound: the bookings ever made
    Sessions,       \* bound: the checkouts ever opened at the gateway
    Procs,          \* requests that can be in progress at once
    LastPadded,     \* the last number of a reference with the padded width, ITT-9999
    None,
    Contested       \* what the ledger says of a booking two requests decided about at once

Numbers == 1 .. LastPadded + 1

NoJob == 0

ASSUME PaddedAssumption == LastPadded \in Nat

Booking == [method : {"ONLINE", "PAY_ON_ARRIVAL"}, status : {"CONFIRMED", "CONVERTED", "CANCELLED"},
            paid : BOOLEAN, job : Numbers \cup {NoJob}]

\* A payment transaction.
Txn == [b : Bookings, paid : BOOLEAN]

ASSUME NullAssumption ==
    /\ None \notin Bookings \cup Booking \cup Txn
    /\ Contested \notin Booking \cup {None}

VARIABLES
    booking,        \* guest_bookings
    used,           \* the numbers of the jobs there are, of the office and of bookings
    checkout,       \* at the gateway: the sessions, and whether the guest has paid
    txn,            \* payment_transactions: of which booking a session is, and whether paid
    hook,           \* how far the delivery of a session's webhook is
    req,
    overlapped      \* history: bookings two requests decided about at once

db == <<booking, used, txn>>
vars == <<booking, used, checkout, txn, hook, req, overlapped>>

Idle == [at |-> "idle"]

\* A request that decides about a booking; one that creates a job, with the number it
\* has read; one that opens a checkout.  raced (history): another job came in between.
DecideReq == [at : {"convert", "cancel"}, b : Bookings]
CreateReq == [at : {"create"}, b : Bookings \cup {None}, number : Numbers, raced : BOOLEAN]
CheckoutReq == [at : {"checkout"}, b : Bookings] \cup [at : {"record"}, b : Bookings, s : Sessions]

Request == {Idle} \cup DecideReq \cup CreateReq \cup CheckoutReq

Hold(p, r) == req' = [req EXCEPT ![p] = r]
Done(p) == Hold(p, Idle)

\* The requests that will write the status of a booking.
Deciding(r, b) == r.at \in {"convert", "cancel", "create"} /\ r.b = b

-----------------------------------------------------------------------------
(***************************************************************************)
(* Booking, cancelling and converting.                                     *)
(***************************************************************************)

Book(b, method) ==
    /\ booking[b] = None
    /\ booking' = [booking EXCEPT ![b] =
                     [method |-> method, status |-> "CONFIRMED", paid |-> FALSE, job |-> NoJob]]
    /\ UNCHANGED <<used, checkout, txn, hook, req, overlapped>>

\* Mutant: the public site does not ask whether the booking was converted.
MutCancellable(row) == row.status # "CANCELLED"

\* What the office asks for; the public site refuses the two other states by name.
Cancellable(row) == row.status = "CONFIRMED"

\* Mutant: the payment is not looked at.
MutConvertible(row) == row.status = "CONFIRMED"

Convertible(row) == row.status = "CONFIRMED" /\ (row.method = "ONLINE" => row.paid)

\* A request that means to decide about the booking finds that it may.
Decide(p, b, at) ==
    /\ req[p] = Idle /\ booking[b] # None
    /\ IF at = "cancel" THEN Cancellable(booking[b]) ELSE Convertible(booking[b])
    /\ Hold(p, [at |-> at, b |-> b])
    /\ overlapped' = IF \E o \in Procs : Deciding(req[o], b) THEN overlapped \cup {b}
                                                               ELSE overlapped
    /\ UNCHANGED <<db, checkout, hook>>

Cancel(p) ==
    /\ req[p].at = "cancel"
    /\ booking' = [booking EXCEPT ![req[p].b].status = "CANCELLED"]
    /\ Done(p)
    /\ UNCHANGED <<used, checkout, txn, hook, overlapped>>

-----------------------------------------------------------------------------
(***************************************************************************)
(* Numbering of jobs: one after the greatest reference, as a string.  A    *)
(* fifth digit makes a reference smaller than ITT-9999, and so the number  *)
(* after that one is the last.  Removed jobs keep their rows.              *)
(***************************************************************************)

\* Mutant: one after any reference, and not the greatest.
MutIsNext(n) == n = 1 \/ n - 1 \in used

IsNext(n) ==
    /\ n = 1 \/ n - 1 \in used
    /\ \A m \in used : m <= LastPadded => m < n

\* generateInternalRef, for a booking or for a job of the office.
ReadNumber(p, b, n) ==
    /\ IsNext(n)
    /\ Hold(p, [at |-> "create", b |-> b, number |-> n, raced |-> FALSE])
    /\ UNCHANGED <<db, checkout, hook, overlapped>>

NumberBooking(p, n) ==
    /\ req[p].at = "convert"
    /\ ReadNumber(p, req[p].b, n)

NumberOffice(p, n) ==
    /\ req[p] = Idle
    /\ ReadNumber(p, None, n)

\* Others that have read a number have not seen this job.
InsertJob(p) ==
    LET r == req[p] IN
    /\ r.at = "create" /\ r.number \notin used
    /\ used' = used \cup {r.number}
    /\ req' = [o \in Procs |-> IF o = p THEN Idle
                               ELSE IF req[o].at = "create" THEN [req[o] EXCEPT !.raced = TRUE]
                               ELSE req[o]]

\* One transaction inserts the job and marks the booking.
Convert(p) ==
    LET r == req[p] IN
    /\ InsertJob(p) /\ r.b # None
    /\ booking' = [booking EXCEPT ![r.b].status = "CONVERTED", ![r.b].job = r.number]
    /\ UNCHANGED <<checkout, txn, hook, overlapped>>

CreateOfficeJob(p) ==
    /\ InsertJob(p) /\ req[p].b = None
    /\ UNCHANGED <<booking, checkout, txn, hook, overlapped>>

\* internal_ref is unique.
RefuseDuplicate(p) ==
    /\ req[p].at = "create" /\ req[p].number \in used
    /\ Done(p)
    /\ UNCHANGED <<db, checkout, hook, overlapped>>

-----------------------------------------------------------------------------
(***************************************************************************)
(* Payments.                                                               *)
(***************************************************************************)

\* createPaymentSession refuses a booking only when it is paid.
CheckoutLoad(p, b) ==
    /\ req[p] = Idle
    /\ booking[b] # None /\ ~booking[b].paid
    /\ Hold(p, [at |-> "checkout", b |-> b])
    /\ UNCHANGED <<db, checkout, hook, overlapped>>

\* External: the gateway opens a session.
OpenSession(p, s) ==
    /\ req[p].at = "checkout"
    /\ checkout[s] = "unused"
    /\ checkout' = [checkout EXCEPT ![s] = "open"]
    /\ Hold(p, [at |-> "record", b |-> req[p].b, s |-> s])
    /\ UNCHANGED <<db, hook, overlapped>>

\* Mutant: the row does not say whose it is.
MutTransaction(b) == [b |-> None, paid |-> FALSE]

Transaction(b) == [b |-> b, paid |-> FALSE]

RecordSession(p) ==
    /\ req[p].at = "record"
    /\ txn' = [txn EXCEPT ![req[p].s] = Transaction(req[p].b)]
    /\ Done(p)
    /\ UNCHANGED <<booking, used, checkout, hook, overlapped>>

\* External: the guest, who has the link from the answer to his request, pays.
Pay(s) ==
    /\ checkout[s] = "open" /\ txn[s] # None
    /\ checkout' = [checkout EXCEPT ![s] = "paid"]
    /\ UNCHANGED <<db, hook, req, overlapped>>

\* External: the gateway delivers the event, until it is answered and perhaps again.
\* The server finds the transaction.
Deliver(s) ==
    /\ checkout[s] \in {"paid", "answered"}
    /\ hook[s] = "none"
    /\ hook' = [hook EXCEPT ![s] = "found"]
    /\ UNCHANGED <<db, checkout, req, overlapped>>

\* Mutant: the transaction's row is updated and the gateway answered, the booking later.
MutAnswersAt(step) == TRUE

\* The server answers when it has written both rows.
AnswersAt(step) == step = "settled"

Answer(s, step) ==
    checkout' = IF AnswersAt(step) THEN [checkout EXCEPT ![s] = "answered"] ELSE checkout

SettleTransaction(s) ==
    /\ hook[s] = "found"
    /\ txn' = [txn EXCEPT ![s].paid = TRUE]
    /\ hook' = [hook EXCEPT ![s] = "settled"]
    /\ Answer(s, "found")
    /\ UNCHANGED <<booking, used, req, overlapped>>

SettleBooking(s) ==
    /\ hook[s] = "settled"
    /\ booking' = [booking EXCEPT ![txn[s].b].paid = TRUE]
    /\ hook' = [hook EXCEPT ![s] = "none"]
    /\ Answer(s, "settled")
    /\ UNCHANGED <<used, txn, req, overlapped>>

-----------------------------------------------------------------------------
\* An error, or the server dies: what was not written is not.
Fail(p) ==
    /\ req[p] # Idle
    /\ Done(p)
    /\ UNCHANGED <<db, checkout, hook, overlapped>>

FailDelivery(s) ==
    /\ hook[s] # "none"
    /\ hook' = [hook EXCEPT ![s] = "none"]
    /\ UNCHANGED <<db, checkout, req, overlapped>>

Init ==
    /\ booking = [b \in Bookings |-> None]
    /\ used = {}
    /\ checkout = [s \in Sessions |-> "unused"]
    /\ txn = [s \in Sessions |-> None]
    /\ hook = [s \in Sessions |-> "none"]
    /\ req = [p \in Procs |-> Idle]
    /\ overlapped = {}

Requests ==
    \E p \in Procs :
        \/ \E b \in Bookings : CheckoutLoad(p, b) \/ \E at \in {"convert", "cancel"} : Decide(p, b, at)
        \/ \E n \in Numbers : NumberBooking(p, n) \/ NumberOffice(p, n)
        \/ Cancel(p) \/ Convert(p) \/ CreateOfficeJob(p) \/ RefuseDuplicate(p)
        \/ \E s \in Sessions : OpenSession(p, s)
        \/ RecordSession(p) \/ Fail(p)

Payments ==
    \E s \in Sessions :
        Pay(s) \/ Deliver(s) \/ SettleTransaction(s) \/ SettleBooking(s) \/ FailDelivery(s)

Next ==
    \/ \E b \in Bookings, method \in {"ONLINE", "PAY_ON_ARRIVAL"} : Book(b, method)
    \/ Requests
    \/ Payments

\* The gateway goes on delivering an event that was not answered, and not every delivery
\* fails half-way.
Fairness ==
    \A s \in Sessions :
        /\ WF_vars(checkout[s] = "paid" /\ Deliver(s))
        /\ SF_vars(SettleTransaction(s))
        /\ SF_vars(SettleBooking(s))

Spec == Init /\ [][Next]_vars /\ Fairness

-----------------------------------------------------------------------------
(***************************************************************************)
(* Properties.                                                             *)
(***************************************************************************)

\* Rows, sessions and requests are of their kind.
TypeOK ==
    /\ booking \in [Bookings -> Booking \cup {None}]
    /\ used \subseteq Numbers
    /\ checkout \in [Sessions -> {"unused", "open", "paid", "answered"}]
    /\ txn \in [Sessions -> Txn \cup {None}]
    /\ hook \in [Sessions -> {"none", "found", "settled"}]
    /\ req \in [Procs -> Request]
    /\ overlapped \subseteq Bookings

Collected(s) == checkout[s] \in {"paid", "answered"}

\* However requests, deliveries and failures interleave, a booking is PAID only when its
\* guest has paid, and one to be paid online has a job only then.
DrivenOncePaid ==
    \A b \in Bookings :
        booking[b] # None =>
            /\ booking[b].paid => \E s \in Sessions : txn[s] # None /\ txn[s].b = b /\ Collected(s)
            /\ booking[b].method = "ONLINE" /\ booking[b].job # NoJob => booking[b].paid

\* As long as references have the padded width, the number a creation has read is free
\* unless another job came in since: a creation that runs alone is not refused.
NumbersAreFresh ==
    \A p \in Procs :
        req[p].at = "create" /\ req[p].number \in used
        => req[p].raced \/ req[p].number > LastPadded

\* What the guest has paid reaches the booking in the end, whatever fails on the way.
PaymentsArrive ==
    \A s \in Sessions : checkout[s] = "paid" ~> txn[s] # None /\ booking[txn[s].b].paid

\* Bookings on which requests take turns follow the ledger.
LedgerView == [b \in Bookings |-> IF b \in overlapped THEN Contested ELSE booking[b]]

Ledger == INSTANCE BookingLedger WITH ledger <- LedgerView

LedgerSpec == Ledger!Spec

=============================================================================
