----------------------------- MODULE Invoicing -----------------------------
(***************************************************************************)
(* Invoices of agents and customers, their lines and their payments.       *)
(*                                                                         *)
(* As everywhere in the backend, a request loads the invoice, checks what  *)
(* it loaded, and writes in a transaction that checks nothing again.  An   *)
(* edit of the lines has one step more: what it deletes are the lines that *)
(* were there when its transaction's first statement began.                *)
(***************************************************************************)
EXTENDS Naturals, Sequences, FiniteSets, Functions, FiniteSetsExt

CONSTANTS
    Invoices,       \* bound: the invoices ever created
    Agents,
    Procs,          \* requests that can be in progress at once
    LineChoices,    \* the sequences of lines the office can enter
    Amounts,        \* the amounts that can be paid
    Grain,          \* the fractions of a cent that an amount is counted in
    RoundsUp,       \* the reckonings that end in an exact half and are rounded up
    CreditLimit,    \* of an agent; 0 is no limit
    Ops,            \* the operations a configuration exercises
    MaxRevisions,   \* bound: how often the lines of an invoice are written
    None,
    Contested       \* what the ledger says of an invoice two requests worked on at once

InvoiceStatus == {"DRAFT", "POSTED", "PAID", "CANCELLED"}

-----------------------------------------------------------------------------
(***************************************************************************)
(* Lines and totals.  What the office enters may have any number of        *)
(* decimals: nets and payments are counted in Grain-ths of a cent, rates   *)
(* in Grain-ths of a per cent.  What is stored is a number of cents, as    *)
(* toFixed(2) and the columns DECIMAL(15, 2) round it.                     *)
(***************************************************************************)

\* num / den to the nearest cent, with exact halves up or down.
Cents(num, den, up) == (2 * num + (IF up THEN den ELSE den - 1)) \div (2 * den)

\* The way an exact half goes is up to its binary representation.
Up(reckoning) == reckoning \in RoundsUp

LineTax(line) ==
    IF line.rate > 0 THEN Cents(line.net * line.rate, 100 * Grain * Grain, Up(<<"tax", line>>))
                     ELSE 0

LineTotal(line) == Cents(line.net + Grain * LineTax(line), Grain, Up(<<"line", line>>))

NetOf(lines) == SumFunction([k \in DOMAIN lines |-> lines[k].net])

Subtotal(lines) == Cents(NetOf(lines), Grain, Up(<<"subtotal", lines>>))

\* Mutant: the tax of the whole invoice is rounded once.
MutInvoiceTotal(lines) ==
    Subtotal(lines) + Cents(SumFunction([k \in DOMAIN lines |-> lines[k].net * lines[k].rate]),
                            100 * Grain * Grain, TRUE)

\* The total of the header, reckoned apart from those of the lines: the nets are
\* rounded once, after they have been added up.
InvoiceTotal(lines) ==
    Subtotal(lines) + SumFunction([k \in DOMAIN lines |-> LineTax(lines[k])])

WholeCents(amount) == amount % Grain = 0

ASSUME MoneyAssumption ==
    /\ Grain \in Nat \ {0}
    /\ Amounts \subseteq Nat \ {0}
    /\ LineChoices \subseteq Seq([net : Nat, rate : Nat])

ASSUME CreditAssumption == CreditLimit \in [Agents -> Nat]

ASSUME BoundAssumption == MaxRevisions \in Nat /\ IsFiniteSet(Invoices)

Invoice == [status : InvoiceStatus, agent : Agents \cup {None}, total : Nat, paid : Nat,
            revision : Nat]

\* What the ledger says of an invoice.
Entry == [status : InvoiceStatus, total : Nat, paid : Nat]

ASSUME NullAssumption ==
    /\ None \notin Invoices \cup Agents \cup Invoice \cup Entry
    /\ Contested \notin Entry \cup {None}

\* The lines one request wrote.
Batch == [revision : Nat, lines : LineChoices]

VARIABLES
    inv,            \* agent_invoices, with the sum of their payments
    lines,          \* invoice_lines
    overlapped,     \* history: invoices two requests were in progress on
    strained,       \* history: agents who came to owe more than was checked
    req

db == <<inv, lines>>
vars == <<inv, lines, overlapped, strained, req>>

Idle == [at |-> "idle", inv |-> None]

CreateReq == [at : {"create"}, inv : {None}, agent : Agents, lines : LineChoices]

CustomerReq == [at : {"transfer"}, inv : {None}, transfer : LineChoices, tips : LineChoices]
               \cup [at : {"tips"}, inv : {None}, tips : LineChoices]

EditReq == [at : {"edit"}, inv : Invoices, lines : LineChoices]
           \cup [at : {"lines"}, inv : Invoices, lines : LineChoices, doomed : SUBSET Batch]

StatusReq == [at : {"post", "cancel"}, inv : Invoices]

PayReq == [at : {"pay"}, inv : Invoices, amount : Amounts, status : {"PAID", "POSTED"}]

Request == {Idle} \cup CreateReq \cup CustomerReq \cup EditReq \cup StatusReq \cup PayReq

Ready(p, op) == op \in Ops /\ req[p] = Idle
Hold(p, r) == req' = [req EXCEPT ![p] = r]
Done(p) == Hold(p, Idle)

\* A request begins to work on an invoice.
Begin(p, r) ==
    /\ inv[r.inv] # None
    /\ Hold(p, r)
    /\ overlapped' = IF \E o \in Procs \ {p} : req[o].inv = r.inv
                     THEN overlapped \cup {r.inv}
                     ELSE overlapped
    /\ UNCHANGED <<db, strained>>

-----------------------------------------------------------------------------
(***************************************************************************)
(* Creating invoices.                                                      *)
(***************************************************************************)

\* Mutant: drafts do not count.
MutOutstanding(a) ==
    SumFunction([i \in {k \in Invoices : /\ inv[k] # None /\ inv[k].agent = a
                                         /\ inv[k].status = "POSTED"} |-> inv[i].total])

\* The totals of an agent's drafts and posted invoices, whatever is paid of them.
Outstanding(a) ==
    SumFunction([i \in {k \in Invoices : /\ inv[k] # None /\ inv[k].agent = a
                                         /\ inv[k].status \in {"DRAFT", "POSTED"}}
                   |-> inv[i].total])

WithinCredit(a, total) ==
    CreditLimit[a] > 0 => Outstanding(a) + total <= CreditLimit[a]

Creating(a) == {p \in Procs : req[p].at = "create" /\ req[p].agent = a}

CreateLoad(p, a, ls) ==
    /\ Ready(p, "create")
    /\ WithinCredit(a, InvoiceTotal(ls))
    /\ Hold(p, [at |-> "create", inv |-> None, agent |-> a, lines |-> ls])
    /\ strained' = IF Creating(a) # {} THEN strained \cup {a} ELSE strained
    /\ UNCHANGED <<db, overlapped>>

\* Mutant: the new invoice does not count as the first revision of its lines.
MutNewInvoice(i, a, ls) ==
    /\ inv[i] = None
    /\ inv' = [inv EXCEPT ![i] = [status |-> "DRAFT", agent |-> a, total |-> InvoiceTotal(ls),
                                  paid |-> 0]]
    /\ lines' = [lines EXCEPT ![i] = {[revision |-> 1, lines |-> ls]}]

NewInvoice(i, a, ls) ==
    /\ inv[i] = None
    /\ inv' = [inv EXCEPT ![i] = [status |-> "DRAFT", agent |-> a, total |-> InvoiceTotal(ls),
                                  paid |-> 0, revision |-> 1]]
    /\ lines' = [lines EXCEPT ![i] = {[revision |-> 1, lines |-> ls]}]

CreateCommit(p, i) ==
    /\ req[p].at = "create"
    /\ NewInvoice(i, req[p].agent, req[p].lines)
    /\ Done(p)
    /\ UNCHANGED <<overlapped, strained>>

\* A customer gets an invoice of its transfers and one of its drivers' tips, at prices
\* stored in whole cents and each unless there is nothing on it, one after the other and
\* in no transaction.
CustomerLoad(p, transfer, tips) ==
    /\ Ready(p, "customer")
    /\ \A k \in DOMAIN transfer : transfer[k].rate = 0 /\ WholeCents(transfer[k].net)
    /\ \A k \in DOMAIN tips : tips[k].rate = 0 /\ WholeCents(tips[k].net)
    /\ Hold(p, [at |-> "transfer", inv |-> None, transfer |-> transfer, tips |-> tips])
    /\ UNCHANGED <<db, overlapped, strained>>

CustomerTransfer(p) ==
    /\ req[p].at = "transfer"
    /\ IF req[p].transfer = <<>>
       THEN UNCHANGED db
       ELSE \E i \in Invoices : NewInvoice(i, None, req[p].transfer)
    /\ Hold(p, [at |-> "tips", inv |-> None, tips |-> req[p].tips])
    /\ UNCHANGED <<overlapped, strained>>

CustomerTips(p) ==
    /\ req[p].at = "tips"
    /\ IF req[p].tips = <<>>
       THEN UNCHANGED db
       ELSE \E i \in Invoices : NewInvoice(i, None, req[p].tips)
    /\ Done(p)
    /\ UNCHANGED <<overlapped, strained>>

-----------------------------------------------------------------------------
(***************************************************************************)
(* Editing, posting and cancelling a draft.                                *)
(***************************************************************************)

\* Mutant: an invoice can be edited and cancelled until it is paid.
MutDraft(row) == row.status \in {"DRAFT", "POSTED"}

Draft(row) == row.status = "DRAFT"

EditLoad(p, i, ls) ==
    /\ Ready(p, "edit")
    /\ Draft(inv[i])
    /\ inv[i].revision < MaxRevisions
    /\ Begin(p, [at |-> "edit", inv |-> i, lines |-> ls])

\* deleteMany sees the lines committed when it begins, and no later ones.
EditDelete(p) ==
    /\ req[p].at = "edit"
    /\ Hold(p, [at |-> "lines", inv |-> req[p].inv, lines |-> req[p].lines,
                doomed |-> lines[req[p].inv]])
    /\ UNCHANGED <<db, overlapped, strained>>

EditCommit(p) ==
    LET q == req[p]
        new == inv[q.inv].revision + 1
        total == InvoiceTotal(q.lines)
    IN
    /\ q.at = "lines"
    /\ lines' = [lines EXCEPT ![q.inv] =
                   (@ \ q.doomed) \cup {[revision |-> new, lines |-> q.lines]}]
    /\ inv' = [inv EXCEPT ![q.inv].total = total, ![q.inv].revision = new]
    /\ strained' = IF inv[q.inv].total < total THEN strained \cup ({inv[q.inv].agent} \ {None})
                                               ELSE strained
    /\ Done(p)
    /\ UNCHANGED overlapped

StatusLoad(p, i, at) ==
    /\ Ready(p, at)
    /\ Draft(inv[i])
    /\ Begin(p, [at |-> at, inv |-> i])

\* A late request puts an invoice that was settled back among those that are owed.
Reopens(i, status) ==
    strained' = IF inv[i].status \in {"PAID", "CANCELLED"} /\ status = "POSTED"
                THEN strained \cup ({inv[i].agent} \ {None})
                ELSE strained

StatusCommit(p) ==
    LET q == req[p]
        status == IF q.at = "post" THEN "POSTED" ELSE "CANCELLED"
    IN
    /\ q.at \in {"post", "cancel"}
    /\ inv' = [inv EXCEPT ![q.inv].status = status]
    /\ Reopens(q.inv, status)
    /\ Done(p)
    /\ UNCHANGED <<lines, overlapped>>

-----------------------------------------------------------------------------
(***************************************************************************)
(* Payments.                                                               *)
(***************************************************************************)

\* Mutant: what was paid before does not count.
MutPayable(row, amount) ==
    /\ row.status \notin {"CANCELLED", "PAID"}
    /\ amount <= Grain * row.total

Payable(row, amount) ==
    /\ row.status \notin {"CANCELLED", "PAID"}
    /\ Grain * row.paid + amount <= Grain * row.total

\* Mutant: so that no rounding hinders it, a sum two cents short counts as the total.
MutStatusesOncePaid(row, amount) ==
    IF Grain * row.paid + amount < Grain * (row.total - 2) THEN {"POSTED"} ELSE {"PAID"}

\* POSTED stands for partially paid as well.  When instalments meet the total exactly,
\* their binary sum may fall short of it; a single payment's does not.
StatusesOncePaid(row, amount) ==
    IF Grain * row.paid + amount < Grain * row.total THEN {"POSTED"}
    ELSE IF row.paid = 0 THEN {"PAID"}
    ELSE {"PAID", "POSTED"}

PayLoad(p, i, amount) ==
    /\ Ready(p, "pay")
    /\ Payable(inv[i], amount)
    /\ \E status \in StatusesOncePaid(inv[i], amount) :
         Begin(p, [at |-> "pay", inv |-> i, amount |-> amount, status |-> status])

\* What the column keeps of a payment.
Booked(amount) == Cents(amount, Grain, TRUE)

PayCommit(p) ==
    LET q == req[p] IN
    /\ q.at = "pay"
    /\ inv' = [inv EXCEPT ![q.inv].paid = @ + Booked(q.amount), ![q.inv].status = q.status]
    /\ Reopens(q.inv, q.status)
    /\ Done(p)
    /\ UNCHANGED <<lines, overlapped>>

\* The handler threw, found no free number for its invoice, or the server died.
Drop(p) ==
    /\ req[p] # Idle
    /\ Done(p)
    /\ UNCHANGED <<db, overlapped, strained>>

-----------------------------------------------------------------------------
Init ==
    /\ inv = [i \in Invoices |-> None]
    /\ lines = [i \in Invoices |-> {}]
    /\ overlapped = {}
    /\ strained = {}
    /\ req = [p \in Procs |-> Idle]

Create(p) ==
    \/ \E ls \in LineChoices :
         \/ \E a \in Agents : CreateLoad(p, a, ls)
         \/ \E tips \in LineChoices : CustomerLoad(p, ls, tips)
    \/ \E i \in Invoices : CreateCommit(p, i)
    \/ CustomerTransfer(p) \/ CustomerTips(p)

WorkOn(p, i) ==
    /\ inv[i] # None
    /\ \/ \E ls \in LineChoices : EditLoad(p, i, ls)
       \/ \E at \in {"post", "cancel"} : StatusLoad(p, i, at)
       \/ \E amount \in Amounts : PayLoad(p, i, amount)

Commit(p) == EditDelete(p) \/ EditCommit(p) \/ StatusCommit(p) \/ PayCommit(p)

Next == \E p \in Procs : Create(p) \/ (\E i \in Invoices : WorkOn(p, i)) \/ Commit(p) \/ Drop(p)

Spec == Init /\ [][Next]_vars

-----------------------------------------------------------------------------
(***************************************************************************)
(* Properties.                                                             *)
(***************************************************************************)

\* Every row and every request is of its kind.
TypeOK ==
    /\ inv \in [Invoices -> Invoice \cup {None}]
    /\ lines \in [Invoices -> SUBSET Batch]
    /\ overlapped \subseteq Invoices
    /\ strained \subseteq Agents
    /\ req \in [Procs -> Request]

Working(i) == {p \in Procs : req[p].inv = i}
Editing(i) == {p \in Working(i) : req[p].at \in {"edit", "lines"}}
Firm(i) == inv[i] # None /\ inv[i].status # "DRAFT" /\ Editing(i) = {}
Closed(i) == inv[i] # None /\ inv[i].status \in {"PAID", "CANCELLED"} /\ Working(i) = {}

\* Posted is immutable once the requests that began before are over: an invoice that
\* is no draft and that nobody is editing keeps its lines and its total for good, and
\* a paid or cancelled one that nobody works on keeps everything.
FirmInvoicesStayFirm ==
    [][\A i \in Invoices :
         /\ Firm(i) => Firm(i)' /\ lines'[i] = lines[i] /\ inv'[i].total = inv[i].total
         /\ Closed(i) => Closed(i)' /\ inv'[i] = inv[i]]_vars

Balanced(row) ==
    /\ row.paid <= row.total
    /\ row.status = "PAID" => row.paid = row.total /\ row.paid > 0
    /\ row.status \in {"DRAFT", "CANCELLED"} => row.paid = 0

\* An invoice is PAID only when its payments, as they are booked, add up to its total
\* to the cent; they never add up to more, and a draft or a cancelled invoice has none.
\* (With requests that overlap, a late cancellation hides what was paid, and two
\* payments can exceed the total.)
PaidInFull == \A i \in Invoices \ overlapped : inv[i] # None => Balanced(inv[i])

\* The total in the header and those of the lines of the last edit, each rounded in its
\* own way, differ by at most half a cent for each line and half a cent for the header;
\* to the cent they agree if every net is a whole number of cents.  That is so while
\* edits overlap; without an overlap there are no other lines.
TotalsMatchLines ==
    \A i \in Invoices :
        inv[i] # None =>
          \E b \in lines[i] :
            LET total == inv[i].total
                sum == SumFunction([k \in DOMAIN b.lines |-> LineTotal(b.lines[k])])
            IN
            /\ b.revision = inv[i].revision
            /\ 2 * total <= 2 * sum + Len(b.lines) + 1
            /\ 2 * sum <= 2 * total + Len(b.lines) + 1
            /\ (\A k \in DOMAIN b.lines : WholeCents(b.lines[k].net)) => total = sum
            /\ i \notin overlapped => lines[i] = {b}

\* An agent with a limit never owes more, in drafts and posted invoices, unless two of
\* its invoices were being created at the same time, the lines of a draft were raised,
\* or a late request put a paid or cancelled invoice back to POSTED.
CreditIsKept ==
    \A a \in Agents \ strained : CreditLimit[a] > 0 => Outstanding(a) <= CreditLimit[a]

(* --- the ledger --- *)

LedgerView ==
    [i \in Invoices |->
       IF inv[i] = None THEN None
       ELSE IF i \in overlapped THEN Contested
       ELSE [status |-> inv[i].status, total |-> inv[i].total, paid |-> inv[i].paid]]

Money == {Booked(amount) : amount \in Amounts} \cup {InvoiceTotal(ls) : ls \in LineChoices}

Ledger == INSTANCE InvoiceLedger WITH ledger <- LedgerView

\* Draft -> Posted (immutable) -> Paid, for every invoice its requests take turns on.
LedgerSpec == Ledger!Spec

(* --- what the documents claim and the code does not do --- *)

\* README.md: "Invoice lifecycle: Draft -> Posted (immutable) -> Paid".
PostedIsImmutable ==
    [][\A i \in Invoices :
         inv[i] # None /\ inv[i].status \in {"POSTED", "PAID"}
         => lines'[i] = lines[i] /\ inv'[i].total = inv[i].total]_vars

\* README.md, again: paying is the end of it, and only a draft can be posted or cancelled.
SettledIsFinal ==
    [][\A i \in Invoices :
         inv[i] # None /\ inv[i].status \in {"PAID", "CANCELLED"}
         => inv'[i].status = inv[i].status]_vars

=============================================================================
