--------------------------- MODULE BookingLedger ---------------------------
(***************************************************************************)
(* What a guest's booking comes to: it is driven once or cancelled, never  *)
(* both, each job serves one booking, and a booking to be paid online is   *)
(* driven only when it is paid.  Nothing is promised of a booking that two *)
(* requests decided about at the same time: it is Contested.               *)
(***************************************************************************)
EXTENDS Naturals

CONSTANTS Bookings, Numbers, NoJob, None, Contested

VARIABLE ledger

Kept(b) == ledger[b] # None /\ ledger[b] # Contested
Undecided(b) == Kept(b) /\ ledger[b].status = "CONFIRMED"

Book(b, method) ==
    /\ ledger[b] = None
    /\ ledger' = [ledger EXCEPT ![b] =
                    [method |-> method, status |-> "CONFIRMED", paid |-> FALSE, job |-> NoJob]]

Settle(b) ==
    /\ Kept(b)
    /\ ledger' = [ledger EXCEPT ![b].paid = TRUE]

Drive(b, n) ==
    /\ Undecided(b)
    /\ ledger[b].method = "ONLINE" => ledger[b].paid
    /\ \A o \in Bookings : Kept(o) => ledger[o].job # n
    /\ ledger' = [ledger EXCEPT ![b].status = "CONVERTED", ![b].job = n]

Cancel(b) ==
    /\ Undecided(b)
    /\ ledger' = [ledger EXCEPT ![b].status = "CANCELLED"]

Contest(b) ==
    /\ Kept(b)
    /\ ledger' = [ledger EXCEPT ![b] = Contested]

Init == ledger = [b \in Bookings |-> None]

Next ==
    \E b \in Bookings :
        \/ \E method \in {"ONLINE", "PAY_ON_ARRIVAL"} : Book(b, method)
        \/ Settle(b) \/ Cancel(b) \/ Contest(b)
        \/ \E n \in Numbers : Drive(b, n)

Spec == Init /\ [][Next]_ledger

=============================================================================
