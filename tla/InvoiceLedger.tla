--------------------------- MODULE InvoiceLedger ---------------------------
(***************************************************************************)
(* What the invoices promise, "Draft -> Posted (immutable) -> Paid":       *)
(* an invoice may be revised or cancelled while it is a draft, its total   *)
(* is final once it is posted, and it is paid by payments that never add   *)
(* up to more than that total.  Nothing is promised of an invoice that two *)
(* requests worked on at the same time: it is Contested.                   *)
(***************************************************************************)
EXTENDS Naturals

CONSTANTS Invoices, Money, None, Contested

VARIABLE ledger

Open(i, total) ==
    /\ ledger[i] = None
    /\ ledger' = [ledger EXCEPT ![i] = [status |-> "DRAFT", total |-> total, paid |-> 0]]

Kept(i) == ledger[i] # None /\ ledger[i] # Contested

Revise(i, total) ==
    /\ Kept(i) /\ ledger[i].status = "DRAFT"
    /\ ledger' = [ledger EXCEPT ![i].total = total]

Close(i, status) ==
    /\ Kept(i) /\ ledger[i].status = "DRAFT"
    /\ ledger' = [ledger EXCEPT ![i].status = status]

\* A payment posts a draft, and one that covers the total may complete it: an invoice
\* is PAID only when it is paid in full, and can be paid in full and POSTED.
Pay(i, amount) ==
    LET paid == ledger[i].paid + amount IN
    /\ Kept(i) /\ ledger[i].status \in {"DRAFT", "POSTED"}
    /\ paid <= ledger[i].total
    /\ \E status \in IF paid = ledger[i].total THEN {"PAID", "POSTED"} ELSE {"POSTED"} :
         ledger' = [ledger EXCEPT ![i].paid = paid, ![i].status = status]

Contest(i) ==
    /\ Kept(i)
    /\ ledger' = [ledger EXCEPT ![i] = Contested]

Init == ledger = [i \in Invoices |-> None]

Next ==
    \E i \in Invoices :
        \/ \E n \in Money : Open(i, n) \/ Revise(i, n) \/ Pay(i, n)
        \/ \E status \in {"POSTED", "CANCELLED"} : Close(i, status)
        \/ Contest(i)

Spec == Init /\ [][Next]_ledger

=============================================================================
