# iTourTT in TLA+

This directory specifies and verifies the backend of iTourTT, a dispatch and
finance system for tourist transfers: a NestJS service on Prisma and PostgreSQL
(`backend/src`), used by a web front end (`frontend`) and two phone apps
(`mobile`). The modules are written from the code; where a document of the
repository says something else, a run shows the difference.

1. [Inventory](#1-inventory)
2. [How the code runs, and how a request is modelled](#2-how-the-code-runs-and-how-a-request-is-modelled)
3. [The modules](#3-the-modules)
4. [Runs, bounds, and what they show](#4-runs-bounds-and-what-they-show)
5. [Disagreements between code and documents](#5-disagreements-between-code-and-documents)
6. [Proofs](#6-proofs)
7. [What is not modelled](#7-what-is-not-modelled)
8. [What could follow](#8-what-could-follow)

To check a configuration or a module of proofs:

    tlc -workers 2 -config DispatchPortal.cfg MCDispatch.tla
    tlapm Dispatch_proofs.tla

## 1. Inventory

Paths are relative to `backend/src`. "State" names the tables a component writes.

### The dispatch side

| Component | State | Operations | Correct when |
|---|---|---|---|
| Dispatch console (`dispatch/dispatch.service.ts`) | `traffic_assignments`; `traffic_jobs.status` | assignJob, reassignJob, unassignJob; unlockJob and lockJob | an assigned job is not PENDING; a rep has three hours between flights; the vehicle has the seats |
| Traffic jobs (`traffic-jobs/…service.ts`) | `traffic_jobs`, `rep_fees` | create, bulkCreate, update, updateStatus, remove | the office's transitions hold; a completed arrival pays its rep once; no completed job is deleted |
| Driver portal (`driver-portal/…service.ts`) | `driverStatus`, `status_change_logs`, `no_show_evidence`, `collectionCollected` | updateJobStatus, submitNoShow, markCollected | reports stand and are logged; a no-show has evidence; nothing comes in after the 48-hour lock |
| Rep portal (`rep-portal/…service.ts`) | `repStatus`, logs, evidence | updateJobStatus, submitNoShow | as above |
| Supplier portal (`supplier-portal/…service.ts`) | `supplierStatus` | completeJob | only the owner of the vehicle completes, and once |
| Job locks (`job-locks/…service.ts`) | `*UnlockedAt` columns of `traffic_jobs` | unlockJob, lockJob for each of four tabs | a sealed job stays quiet |
| Vehicles, drivers, reps | `isActive`, and master data | toggleStatus, assignVehicle, unassignVehicle, CRUD | inactive ones get no new job |

The seven share the rows of a job and its assignment. They never call one
another: the database is their only meeting point. Notifications, pushes and
e-mails are fired after a commit, are not awaited for a decision, and are
never read back.

### The money side

| Component | State | Operations | Correct when |
|---|---|---|---|
| Agent and customer invoicing (`finance/finance.service.ts`) | `agent_invoices`, `invoice_lines`, `payments` | createInvoice, generateCustomerInvoices, updateInvoiceLines, updateInvoiceStatus, createPayment, the credit check | draft, posted (immutable), paid; header and lines agree but for roundings; PAID only when paid in full; credit limit kept |
| Collections and fees (same file) | `collectionLiquidatedAt`, `rep_fees`, `driver_trip_fees`, `supplier_costs` | liquidateCollection, createRepFee, createDriverFee, createSupplierCost | only collected cash is liquidated, and stays collected |
| Guest bookings (`guest-bookings`, `public-api`) | `guest_bookings` | createBooking, cancelBooking, convertToJob | one booking becomes at most one job; a cancelled one none |
| Online payments (`payments`, its Stripe gateway) | `payment_transactions`, `guest_bookings.paymentStatus` | createPaymentSession, webhook, verification, refund | what the guest paid reaches the booking, under repeated, late and failing deliveries; nothing is PAID that was not |

### Around them

| Component | What it keeps | Correct when |
|---|---|---|
| WhatsApp reminders (`whatsapp-notifications`) | a log per reminder, and the hourly cron job | one reminder per job and person; everybody has a turn |
| Permissions (`permissions`, `common/guards/permissions.guard.ts`) | `roles`, `role_permissions_v2`; in the guard, a cache of what it loaded of a user, 60 seconds | an answer rests on rights of at most a minute ago; a role that grants a key grants those above it |
| Clients (`frontend/src/lib/api.ts`, `mobile/packages/shared/src/api/client.ts`, their auth stores) | access and refresh token, the flag `isRefreshing`, the queue of requests that wait for a refresh | one refresh serves all that were refused; every request is settled; a logout is final |
| Authentication and users (`auth`, `users`) | `users`: password and refresh-token hashes, `isActive`, the role | who was switched off or revoked gets no more tokens |
| Drivers and reps as staff (`drivers`, `reps`, a part of `suppliers`) | numbers, accounts, `deletedAt`; `driver_vehicles` | one account each; who was deleted cannot log in; one primary vehicle |
| Locations (`locations`) | the tree country, airport, city, zone, hotel | no place is left under a deleted one |
| Agents, customers, price lists; the rest of suppliers | master data | single-row writes |
| Reports, exports; AI parser; e-mail, settings; audit log | (read-only, external, or written and never read back) | – |

### Where it is hard

There are practically no automated tests in the backend, and nearly every
handler is check-then-act: it loads rows, throws if they do not allow the
operation, and then writes in a `prisma.$transaction` that repeats none of the
checks. PostgreSQL runs at its default READ COMMITTED; there are no `SELECT …
FOR UPDATE`, no version columns, and no conditional updates. What protects the
data when requests overlap is therefore only

  * unique keys: `traffic_assignments.trafficJobId`, the evidence per job and
    side, invoice and job numbers, an account's phone, a role's key, the
    reminder of a job to a number, a driver's vehicle;
  * foreign keys: the restricting one from `status_change_logs` to the
    assignment, and those of a role, which cascade to its keys and set its
    users' to null;
  * row locks, which a transaction's first write takes and holds to its end.

Which properties survive on these alone, and which do not, is the main question
of the specifications. The hazards, each at its line, are listed in
`PROJECT.json`: interleaved and repeated requests, checks that are stale when
used, orders of legal calls that reach an illegal state, rounding and boundary
values, half-done sequences after a crash, the repeated events of an external
gateway, a cache nobody invalidates, and the clients' queue of calls that wait
for new tokens.

## 2. How the code runs, and how a request is modelled

A request in progress is a member of `Procs`. `req[p]` is a record of the local
variables the handler holds across its awaits, with `at` naming what it does
next; `Idle` is a worker without a request. Most operations are two actions:

  * *Load* reads and checks. Its guard is the conjunction of the handler's
    conditions; what it remembers are the fields of the record.
  * *Commit* is the transaction. It writes from the record, guarded by what the
    database itself enforces: the row with that id still exists (`RowOf`), a
    unique key is free, a foreign key does not restrict, the row is not locked
    by another transaction (`RowFree`).

Assigning and reassigning have a third step between them (*Check*), since the
code loads the job first and reads vehicle, driver and rep in later queries: the
schedule and the passengers it compares with are those loaded before. Within one
*Check* the queries are taken together.

`updateStatus` is split inside its transaction. Its first statement takes the
lock of the job's row, and the statements that follow read assignment and fees
and act upon them. `StatusWrite` is the first statement with the reads;
`StatusSync` the remaining writes and the commit. Between the two, another
request can run, but not write that job's row. An edit of invoice lines is split
too: its `deleteMany` deletes the lines it sees when it begins (`EditDelete`),
and the lines another edit commits meanwhile survive `EditCommit`.

`Drop(p)` is everything that ends a request without a write: an exception, a
transaction the database aborts (missing row, unique or foreign key, deadlock), a
crash of the server. A commit whose guard is false is such a request, and
`Drop` is its only way out.

`Sessions`, `Bookings`, `Permissions`, `Staff`, `Locations` and `DriverVehicles`
use the same form, under the names of their own requests (`call`, `req`, `guard`
and `edit`, `task`, `request`, `assigning`); `Reminders` has runs of the cron job
in the place of requests. Their `Break`, `Fail`, `Abandon`, `Drop`, `End` and
`FailToAssign` are `Drop`. Where a handler makes several writes without a
transaction, each is a step, and the failure between them is possible: the two
rows of a webhook, the account and the driver of `softDelete`, the old primary and
the new pair of `assignVehicle`, the sheets of an import, a reminder and its log.

In Dispatch five operations are single steps: creating a job, entering a rep's fee by hand,
locking and unlocking a tab, switching a vehicle or person on or off. What they
write does not depend on what other requests change, and the only thing that
could slip in between their read and their write is a deletion of the job, which
touches none of the columns they write.

### Data

Times are hours, or `NoTime`; a schedule is a record of day, service, flight and
times. The 48-hour rule is the job's flag `overdue`, which the calendar sets
(`BecomeOverdue`) and an edit of the date may set or clear. The clock moves only
through these flags.

What is stored of money is a number of cents. What the office enters may have more
decimals, since the DTOs ask for numbers (create-invoice.dto.ts:31-45,
update-invoice-lines.dto.ts:29-40): nets are counted in `Grain`-ths of a cent, tax
rates in `Grain`-ths of a per cent. `LineTax`, `LineTotal` and `Subtotal` round where
the code does, with `Cents`: the tax of a line and its total each by themselves, the
nets of the header once after they are added up. Binary floating point shows at two
places. A decimal fraction that ends in an exact half has a binary neighbour below or
above it, and `toFixed(2)` follows that: `RoundsUp` is the set of reckonings that go
up, one of `<<"tax", line>>`, `<<"line", line>>`, `<<"subtotal", lines>>`. And the
binary sum of instalments that meet a total exactly may fall short of it, so that
`StatusesOncePaid` is a choice. The amounts are taken to be so small that sums err by
less than a grain.

History variables are not in the code and decide nothing. They record how
much a property may claim, that is, at which jobs, bookings or people two
requests were at once, or what was true before:

  * `unvetted[j]` (Dispatch): what was edited since the assignment was checked
    against it (the schedule, or the passenger count). The code re-checks
    neither.
  * `overlapped` (Invoicing): the invoices on which two requests were in progress
    at once.
  * `strained` (Invoicing): the agents of whom two invoices were being created at
    once, one of whose drafts was raised, or one of whose paid or cancelled invoices
    a late request put back to POSTED. In none of the three does the code check the
    credit against all the agent owes.
  * `overlapped` (Bookings, Reminders), `raced` (Locations), `met` and
    `renumbered` (Staff), `crowded` (DriverVehicles): the bookings, jobs, places
    and people at which two requests were at once, in the sense the comment at
    each says. A request's own flag `raced` (Bookings) says that another job was
    inserted since it read its number.
  * `known`, `aborted` (Reminders), `openedFor`, `retired` (Staff), `actedAs` and
    `granted` (Permissions): what was sent and is or will be logged, which jobs a
    run left undone, whom an account was opened for, who was deleted on a page of
    their own, and when a user last acted in a role and a role last granted a
    key.

`revision` numbers the edits of an invoice's lines; in the code the lines carry
only their invoice. It lets properties name the lines of the last edit.

## 3. The modules

| Module | Of | Content |
|---|---|---|
| `JobRules` | status tables and pure checks of `dispatch`, `traffic-jobs`, the portals | transitions of office, driver and rep; the reference time of a job; same flight; the three-hour gap |
| `Dispatch` | dispatch, traffic jobs, three portals, job locks, cash desk, toggling | the life of a job and its assignment, one group of actions per component: `Console`, `Editor`, `Portals`, `CashDesk`, `Instant` |
| `Dispatch_proofs` | – | theorems about `Dispatch` |
| `MCDispatch` | – | agendas and fleets for TLC |
| `InvoiceLedger` | README.md:36, "Draft -> Posted (immutable) -> Paid" | abstract: what an invoice promises |
| `Invoicing` | the invoices of `finance.service.ts` | invoices, lines and payments; refines `InvoiceLedger` |
| `Invoicing_proofs` | – | theorems about `Invoicing`, the refinement among them |
| `MCInvoicing` | – | lines and limits for TLC |
| `Sessions` | the HTTP clients of front end and phones, `auth.service.ts`, the guard of tokens | calls, their refusal, the refresh and its queue; logging in and out; switching off and revoking a user |
| `Sessions_proofs`, `MCSessions` | – | theorems; values for TLC |
| `BookingLedger` | `guest_bookings` | abstract: a booking is driven once and paid for, or cancelled |
| `Bookings` | `guest-bookings`, `public-api`, `payments`, the numbering of `traffic-jobs` | bookings, checkouts and webhooks, conversion and the numbers of jobs; refines `BookingLedger` |
| `Bookings_proofs`, `MCBookings` | – | theorems, the refinement among them; values for TLC |
| `Permissions` | `permissions.service.ts`, `permissions.guard.ts`, creation and roles of users | roles, their keys, the guard and its cache |
| `Reminders` | `whatsapp-notifications.service.ts` | the cron job, the messages and their log |
| `Staff` | accounts of drivers and reps | opening, switching and retiring them |
| `DriverVehicles` | `assignVehicle` and `unassignVehicle` | the vehicles of a driver |
| `Locations` | `locations.service.ts` | the tree of places, deletions, the import |
| `Permissions_proofs`, `Reminders_proofs`, `Staff_proofs` (with `DriverVehicles`), `Locations_proofs` | – | theorems |
| `MCServices` | – | the last five modules side by side, for TLC |

Actions carry the names of the handlers (`assignJob` is `AssignLoad`,
`AssignCheck`, `AssignCommit`); `map` in `PROJECT.json` names the lines of each
definition. Definitions called `Mut…` are not part of the model: each is a
plausible bug in the definition that follows it, and shows that a property
notices.

Points of the code that a reader may not expect, and which the modules keep:

  * The portals never look at the job's own status or `deletedAt`, and never
    change it: a driver can complete a cancelled or deleted job. The office's
    closing status overwrites the portals'.
  * A reassignment looks at the assignment only; its own assignment is left out
    of the agenda it compares with.
  * `unassignJob` takes a job of any status back to PENDING, completed ones too.
    So a job can be completed twice; `OneGeneratedFee` is about that.
  * An edit writes the passenger count even if the request has none.
  * `markCollected` and `StatusSync` write by job id, whoever holds the job now.
  * A payment posts a draft; `POSTED` also stands for partially paid.
  * The server hashes refresh tokens with bcrypt, which reads 72 bytes, and the
    first 72 of two refresh tokens of one user are equal. A refresh finds out
    whether a hash is there, not whose it is: `user.refreshable` is a flag.
  * login and refresh write the hash after their checks and a slow hashing,
    without another look. The server is not told of a logout. A phone clears its
    tokens asynchronously, and also when a refresh merely failed to connect.
    Switching a driver on again (`toggleStatus`) can follow a deletion that it
    overtook.
  * Webhooks write `PAID` without looking at the booking: one that was cancelled
    while its checkout was open is paid all the same, and two checkouts of one
    booking can both be paid. Only the cancellation of a booking that is already
    paid says that a refund may be due.
  * References are compared as strings, so the number after ITT-9999 is read for
    ever. Removed jobs keep their rows, and their numbers.
  * The guard takes the time before it loads, and never hears of a change;
    `invalidateCache` has no caller. Deleting a role leaves users who were given
    it meanwhile without one.
  * What deletes the account's rights is the deletion on the driver's or rep's own
    page. `suppliers.deleteDriver` leaves the account as it is.
  * An unassigned vehicle keeps its row, and rows are unique: assigning it again
    always fails, after the old primary was unset.

## 4. Runs, bounds, and what they show

Deadlock checking is off because the office may stop: with every job, assignment
row, revision, booking or number of the bounds used up, there is nothing to do.

The runs of Dispatch and Invoicing assume no fairness: nothing there happens
unless somebody asks for it, and there is no timer, retry or queue that the
code's scheduling would have to keep moving. Three runs have a liveness property,
under this fairness:

  * `sessions`: `WF_vars(Proceed(c))` for each call `c`. `Proceed` is what happens
    to a call without its user: the event loop runs the next handler of a settled
    promise, and every HTTP request ends in an answer or an error. The calls of the
    phones' client have a timeout of 30 seconds (client.ts:23). Its refresh is a bare
    `axios.post` (client.ts:87) without one, like the browser's requests: there the
    assumption is that the connection itself ends, which is up to the operating
    system. On a connection that stays mute for ever, the refresh and whatever waits
    for it would too. Nothing is assumed of users, of the clock or of which of the
    two ends it is.
  * `bookings`: weak fairness of the delivery of a payment the server has not
    answered, because Stripe repeats an event until it is answered, and strong
    fairness of the server's two writes: not every one of infinitely many
    deliveries fails half-way. Stripe gives up after some days, so `PaymentsArrive`
    says that the handler can be repeated until it succeeds, not that a server
    that is out of order for longer hears of every payment. Requests of guests and
    the office have none.
  * `services`: `WF_remindersVars(Proceed(r))` for each run of the cron job, as
    above: the database and the messaging service answer or fail. The cron job
    itself need not fire.

| Run | Configuration | Distinct states | Shows |
|---|---|---|---|
| `dispatch_portal` | 1 job, 1 driver, 1 rep, 2 requests, 2 assignment rows | 1.35 million | `TypeOK`, `NoAssignedJobIsPending`, `OneGeneratedFee`, `LogsKeepTheirAssignment`, `NoShowIsEvidenced` survive every interleaving |
| `dispatch_locks` | 1 job, 2 requests, the calendar, the driver's lock | 1.39 million | `SealedJobsStayQuiet` |
| `dispatch_turns` | 1 job, 1 driver, a vehicle of two seats, 2 requests that take turns, 1 assignment row | 1.5 million | `SeatsForEverybody`, `DriverReportsStand`, `DriverNoShowIsAccountedFor`, `CompletedJobsRemain` |
| `dispatch_roster` | 2 jobs, 1 rep, 5 schedules, 1 request at a time | 2.3 million | `RepsKeepTheGap` |
| `invoicing` | 2 invoices, 1 agent, 2 requests, 2 revisions, half cents | 1.5 million | `TypeOK`, `PaidInFull`, `TotalsMatchLines`, `CreditIsKept`, `FirmInvoicesStayFirm`, `LedgerSpec` |
| `sessions` | a browser and a phone of one user, 2 calls, 2 pairs of tokens | 425,000 | `TypeOK`, `OneRefreshServesAll`, `CallsSettle`, `WithdrawnMeansWithdrawn`, `LoggedOutStaysOut` |
| `bookings` | 2 bookings, 2 requests, 1 checkout, the second number has a digit more | 536,000 | `TypeOK`, `DrivenOncePaid`, `NumbersAreFresh`, `PaymentsArrive`, `LedgerSpec` |
| `services` | five components in turn, see below | 885,000 | `GrantsAreClosed`, `NothingIsStale`, `NobodyIsRemindedTwice`, `SentStaysSent`, `EverybodyIsTried`, `OneAccountEach`, `RetiredAreOut`, `NoOrphans`, `OnePrimary`, and the types of all |
| `dispatch_rep_race` | 2 jobs, 2 requests | – | violates `RepsKeepTheGap` |
| `dispatch_cash` | 1 job, 1 request at a time | – | violates `LiquidatedCashWasCollected` |
| `invoicing_posted` | 1 invoice, 2 requests | – | violates `PostedIsImmutable` |
| `invoicing_paid` | 1 invoice, 2 requests | – | violates `SettledIsFinal` |

**With any number of requests** (`dispatch_portal`, `dispatch_locks`). These rest
on the database: that a late request cannot leave an assigned job PENDING follows
from the unique key, the two writes of each transaction, and an office table that
leads nowhere back to PENDING; that a rep is paid once, from the row lock that
`updateStatus` happens to take before it looks for a fee; that a logged report
keeps its assignment, from the foreign key; that a no-show comes once and with
its evidence, from the unique key and the transaction. `SealedJobsStayQuiet` is
an action property: the lock is checked before the write, so a request let in
earlier may still write; but once none is left, an overdue and locked job takes
no report, evidence or collected cash before somebody unlocks it or moves it to
another day.

**With requests that take turns** (`dispatch_turns`, `dispatch_roster`). These five
properties are about orders of legal calls, and each is false once certain requests
overlap (`dispatch_rep_race` shows it for one). Dispatch.tla names the overlaps that
have to be excluded, as conditions on the requests in progress (`EditsAwaitBookings`,
`RemovalsAwaitUpdates`, `UpdatesTakeTurns`, `ReassignmentsTakeTurns`,
`ReportsTakeTurns`, `RepsAreBookedInTurn`): the locks that the handlers would have to
take and do not. `dispatch_turns` leaves out the states that break one of the first
five (the constraint `TurnsTaken`); all other steps of two requests interleave. A
second constraint, `OneThing`, is a bound: no cash to collect, an edit changes only
the passengers, a reassignment the vehicle or the driver. Groups of two and three and
a vehicle of two seats are enough for every comparison to matter, also the one at a
reassignment, after the group has grown. `dispatch_roster` has a single request in
progress, which makes room for five schedules. Which property needs which condition
is in §6.

The properties are stated as far as the code keeps them: seats until the passengers
are edited (§5 goes on from there), the gap until a job is rescheduled, a
driver's closing report until the office closes the job or the driver changes.
`CompletedJobsRemain` says that no job is completed and deleted at once, which is all
that `remove` looks at: work that was completed, taken back to PENDING by unassigning
and then deleted is gone, and the property does not object.
The five schedules are chosen for the rule's cases: two flights two hours apart, one
at exactly three hours, a departure reckoned from its pick-up, an excursion without a
time. `RepsKeepTheGap` does not use the code's comparison but one of its own
(`TogetherOrApart`), so a wrong threshold shows as well as one that looks only at
earlier jobs.

**Invoices.** `PaidInFull` and `LedgerSpec` speak of invoices on which requests
take turns; the mapping to the ledger sends an invoice that two requests worked
on at once to `Contested`, of which nothing is promised. `PaidInFull` goes one way:
what is PAID is paid to the cent. The other way is false of the code, even without an
overlap (§5).

`TotalsMatchLines` says how far apart the two reckonings of an invoice can be: half a
cent for the header and half a cent for each line, and nothing at all if the nets are
whole cents. Three lines of 1.004 are stored as 3.00 under a header of 3.01. It holds
of overlapping edits too: the header goes with the lines of the last one, though lines
of others may remain beside them. `FirmInvoicesStayFirm` holds under every
interleaving: when the edits begun before the posting are over, lines and total are
final; `invoicing_posted` is about those edits.

`CreditIsKept` holds for the agents not in `strained`, that is, unless two invoices of
the agent were being created at once, a draft's lines were raised, or a late request
put a settled invoice back to POSTED (`invoicing_paid`) after its credit was used.

One choice of lines has nets of 3.5 and 2.5 cents at 20 per cent, whose halves go up
in the lines and down in the header: the lines come to 9 cents under a header of 8,
and a tax rounded once at the end would be another. Payments of 4 cover a part or, in
two, the whole; the limit has room for two untaxed invoices and not for an untaxed and
a taxed one.

**Sessions.** The two clients share their design and differ in one point: a phone
that failed to refresh empties the queue and then awaits the clearing of its
tokens while `isRefreshing` is still set. A call refused in that window joins a
queue nobody empties (`Stranded`). `CallsSettle` says that this is the only
way for a call never to end, and that a browser's always does. Two calls are the
fewest of which one waits for the other. Two pairs of tokens are a session and its
renewal; `MaxPairs` also bounds how often the token of a call that waited can expire
again before it is retried, which in reality nothing bounds but its lifetime.

**Bookings.** Two bookings compete for a number and two requests for a booking;
`LastPadded = 1` puts the step from ITT-9999 to ITT-10000 where the second job
gets its number. `DrivenOncePaid` and `NumbersAreFresh` hold under every
interleaving. `LedgerSpec` promises something of a booking as long as
requests that decide about it take turns: the code loses the race of a conversion
with a cancellation (a CANCELLED booking with a job) or with another conversion
(two jobs, one of them nobody's). Payments are never in that race, and
`PaymentsArrive` holds of every booking.

**Services.** The five components share no state, so what one does says nothing
about another. `MCServices` picks one (`focus`) and lets the others rest; the
state space is the sum of theirs, not the product. Bounds: a user, a role, a page
with a button, a lifetime and a clock of one unit, a request at the guard and two
changes of roles; two jobs, two runs of the cron job, one hour (it may fire again
each time the hour comes round), two messages; a driver, a rep, two numbers, two
accounts, two requests; four places on three levels and two requests; one driver,
three vehicles, two requests. These are the fewest with a race (two requests), with
a hierarchy that has a middle, and with a third vehicle beside the old and the
new primary. Every property but `EverybodyIsTried` is also proved without bounds.

**Bounds of Dispatch and Invoicing.** One job is enough for what concerns a single
job: no handler other than the agenda check reads a second one. Two jobs are the
fewest that can clash, two requests the fewest that can race, and each check in the
code is against one earlier write. A second assignment row (`MaxAssignments = 2` in
`dispatch_portal` and `dispatch_roster`) shows a job being reopened and assigned
anew. With `MaxRevisions = 2` two overlapping edits both begin at the first revision
and write the second and the third, which suffices for lines of one to survive the
other. `CreateRepFee` is bounded to one fee by hand. For the properties with a
theorem the bounds do not matter.

`Procs` is symmetric in these runs, and in `invoicing` the invoices are too: no
definition distinguishes them. The action and refinement properties checked under
symmetry are step-wise; the three runs with liveness use none.

## 5. Disagreements between code and documents

Four are races or sequences that a run shows:

1. **A rep is sent to two flights at once** (`dispatch_rep_race`). `assignJob`
   checks the rep at dispatch.service.ts:170 and begins to write at :174. Two
   assignments both pass and both commit. progress.md:448 forbids it.
2. **Liquidated cash becomes uncollected** (`dispatch_cash`). `markCollected(false)`
   does not look at the liquidation (driver-portal.service.ts:222), which
   finance.service.ts:1105 allows only for collected cash.
3. **A posted invoice changes** (`invoicing_posted`). `updateInvoiceLines` checks
   for a draft at finance.service.ts:458 and writes from :479. An invoice posted
   in between has its lines and total replaced; README.md:36 calls it immutable.
4. **A paid invoice is merely posted again** (`invoicing_paid`). `updateInvoiceStatus`
   checks for a draft at finance.service.ts:523 and writes at :526 by the id alone. A
   payment in between made it PAID; README.md:36 has the lifecycle end there.

Three can be read off the code, and need no run:

5. **Drivers are never checked.** `validateDriverAvailability` is empty
   (dispatch.service.ts:757), and the comment above it says that this is intended
   ("no time restrictions, free assignment allowed", :755). progress.md:536-538 still
   demands one job at a time and three hours, and progress.md:814 ticks it off.
6. **More passengers than seats.** `update` writes the passenger count
   (traffic-jobs.service.ts:294) without looking at the assigned vehicle, also with
   no other request about. memory.md:27: "Pax must never exceed vehicle capacity."
7. **A fully paid invoice stays posted.** `createPayment` adds binary fractions
   (finance.service.ts:633-638) and compares the sum with the total (:649): 0.70 and
   0.10 come to less than 0.80. The comment at :651 takes POSTED to mean partially
   paid. In the other direction, 0.10 and 0.20 come to more than 0.30, and the last
   instalment is refused.

Other races the code loses, of which no document promises the opposite, are among
the hazards with a note: deletion of a job completed meanwhile, two payments that
overlap, a reassignment that keeps the report of the previous driver, the
conversion of a booking while it is cancelled, a place created under one that is
being deleted, an account opened for somebody who is being deleted, two primary
vehicles at once.

## 6. Proofs

All theorems are for every value of the constants that satisfies the named
assumptions: any number of jobs, people, vehicles, invoices, clients, bookings,
roles, places and requests in progress. The assumptions say that capacities,
limits and bounds are natural numbers, payments positive, times hours or
`NoTime`, that an invoice's lines are a sequence of natural nets and tax rates,
that there are finitely many invoices, that NULL is neither a person nor a row,
that keys above a key's are above it too, and that places form levels; TLC
evaluates them in the runs.

The nets and rates are natural numbers of grains: the DTOs admit no negative price,
quantity or rate, and a number that was entered has finitely many decimals, so that
some `Grain` counts finitely many of them exactly. `Grain` is any positive number, and
`RoundsUp` any set. A line is its net and its rate, so two lines with the same net from
different prices and quantities round their halves the same way in the model; what is proved
holds of either way. That totals are
natural numbers of cents is not assumed but proved.

### Dispatch_proofs

| Theorem | Property |
|---|---|
| `TypeCorrect` | `TypeOK` |
| `AssignedIsNotPending` | `NoAssignedJobIsPending` |
| `FeesAreGeneratedOnce` | `OneGeneratedFee` |
| `ReportsKeepTheirAssignment` | `LogsKeepTheirAssignment` |
| `NoShowsAreEvidenced` | `NoShowIsEvidenced` |
| `SealedJobsAreQuiet` | `SealedJobsStayQuiet` |
| `SeatsSuffice` | `SeatsForEverybody`, if `EditsAwaitBookings` |
| `CompletedJobsAreKept` | `CompletedJobsRemain`, if `RemovalsAwaitUpdates` |
| `DriverNoShowsAreAccountedFor` | `DriverNoShowIsAccountedFor`, if `UpdatesTakeTurns` |
| `ReportsOfDriversStand` | `DriverReportsStand`, if `ReassignmentsTakeTurns` and `ReportsTakeTurns` |
| `RepsAreKeptApart` | `RepsKeepTheGap`, if `EditsAwaitBookings`, `UpdatesTakeTurns` and `RepsAreBookedInTurn` |

**Of every behaviour.** The five invariants are not inductive, since a commit writes
what a load found earlier. The inductive invariant `IInv` adds, for every request in
progress, what it may rely on until it commits (`RequestOK`): its job exists; a
status it is to write is not PENDING; a plain report is never NO_SHOW and a no-show
always is; a `sync` that holds an assignment still finds it, and one that owes a fee
still finds none. The last two are true only because the row lock has one holder,
which is the conjunct `OneWriter`. The lemmas are per group of actions: loads only
hold a request (`LoadKeepsIInv`), a write keeps what other requests rely on
(`CommitKeepsRequests`), and one lemma per commit. `SealedJobsStayQuiet` follows
step by step: a quiet job has no portal request in progress, so no portal can commit
on it, and the lock admits no new one.

**With requests that take turns.** The last five theorems are of the form
`Spec /\ []Condition => []Property`. The conditions do not restrict how many
requests there are, only that certain two of one job (of one rep, for the last)
are not between load and commit together; anything else may overlap. They are not
met by the code as it stands. They say what is missing:

| Condition | What would establish it | What breaks without it |
|---|---|---|
| `EditsAwaitBookings` | `update` and `assignJob`/`reassignJob` lock the job's row before they check | passengers or hour change after they were checked; the commit, which comes last, does not look again |
| `RemovalsAwaitUpdates` | `remove` and `updateStatus` lock the job before they look at it | a job is completed after `remove` looked, or deleted after `updateStatus` did |
| `UpdatesTakeTurns` | `updateStatus` checks the transition under the lock it takes anyway | the second update overwrites a job closed as NO_SHOW, or brings back one that was closed and whose rep is booked elsewhere |
| `ReassignmentsTakeTurns` | `reassignJob` compares with the driver in the row, not the one it loaded | a reassignment back to the driver whom another request has put in meanwhile resets the report that this driver has closed |
| `ReportsTakeTurns` | the portals check the transition inside the transaction | the slower of two reports reopens what the faster, or the office, closed |
| `RepsAreBookedInTurn` | `checkRepAvailability` and the write under one lock on the rep | `dispatch_rep_race` |

Every condition of a theorem is needed: TLC finds the property violated on one or
two jobs and two requests once any one is left out.

The proof has three layers. (1) `ShapeOfStep`: every step is a `SideStep`
(no request involved), a `LoadStep` (a request learns what `Loaded` says and the
database stays) or a `WriteStep` on one job, which has one of nine effects
(`Assigned`, `Reassigned`, ..., `Noted`) and ends its request; `NextRequest` is the
same from the side of a request. The action definitions are opened only here.
(2) For each property an invariant that says what a request still knows when it
commits: the passengers it counted (`Counted`), that the job is not deleted or
completed (`Removes`), that it is open (`Open`), that an assignment's number
belongs to its job (`Numbered`, without any condition), that a report is open and
the driver known as long as the assignment is there (`Attached`), that the rep is
free (`Fits`). The rep's agenda needs in addition that a reassignment leaves out
its own assignment and no other (`AvailableIsFree`, from `Numbered`) and that
clashing is symmetric (`ClashesAreMutual`). (3) The conditions enter at one place
each, where the request `o` that knows something meets the `WriteStep` of another
request on the same job.

### Invoicing_proofs

| Theorem | Property |
|---|---|
| `TypeCorrect` | `TypeOK` |
| `InvoicesArePaidInFull` | `PaidInFull` |
| `FirmInvoicesAreFirm` | `FirmInvoicesStayFirm` |
| `InvoicesFollowTheLedger` | `LedgerSpec` |
| `TotalsMatch` | `TotalsMatchLines` |
| `CreditIsNeverExceeded` | `CreditIsKept` |

`IInv` adds that requests work on invoices that exist (`HaveRows`), that an
invoice with two requests at work is in `overlapped` (`Alone`), and that on any
other invoice the row still satisfies what the request's checks found (`Fresh`).
Under `Fresh` a commit is as good as a check and a write in one step, and
`PaidInFull` is preserved. For the refinement, a load is a stutter of the ledger
or contests the invoice (`BeginInLedger`), a new row opens one (`InsertInLedger`),
a commit on a contested invoice is a stutter (`ViewOfContested`), and on any other
one it is `Revise`, `Close` or `Pay`.

`TotalsMatch` and `CreditIsNeverExceeded` are about roundings and sums, over the lines of an
invoice and over the invoices of an agent. `SumFunction` is a fold of the community
modules, that is, a function chosen to satisfy a recursion over subsets. Its
properties are proved by minimal counterexample, which is first-order: among the
subsets of a finite set for which a lemma fails, one has no smaller one in it
(`MinimalSubset`). So the recursion exists over every finite set
(`RecursionExists`), a subset has the same one (`RecursionsAgree`), and a sum is
one summand more than the sum over the rest, whichever summand is taken. With
that, `LinesInv` says that one batch of lines belongs to the header, and that an
edit alone on its invoice is going to delete all the lines there are (`DoomsAll`).

The distance between header and lines is counted in half grains, where division is
gone. `CentsAreNear`: a rounding moves an amount by at most half a cent either way,
and, by `WholeCentsStay`, not at all if it is a whole number of cents. A line's total
is its net and its tax, rounded, and the header counts the same taxes. `HalvesAddUp`
adds up the half cents of the lines, again by minimal counterexample; the header has
half a cent of its own, and `TotalOfLines` puts the two together. The payments need
less: what is booked of a payment that fits still fits (`PaymentFits`), because the
total is whole cents.

`CreditInv` says that an agent outside `strained` has at most one invoice in the
making, and that it fits beside what the agent owes; `DebtStep` is the arithmetic:
a write to one invoice changes the debt by what that invoice owes. Creating is the
only write outside `strained` that raises a debt, for raising a draft and reopening a
settled invoice put the agent there (`ReopensStrains`).

### Sessions_proofs

| Theorem | Property |
|---|---|
| `Types` | `TypeOK` |
| `OneRefresh` | `OneRefreshServesAll` |
| `WithdrawnIsWithdrawn` | `WithdrawnMeansWithdrawn` |
| `NoSessionComesBack` | `LoggedOutStaysOut` |

`OneRefreshServesAll` is nearly inductive; it lacks that only phones are ever in
the step that clears tokens (`OnlyPhonesClear`), or a browser's queue could fill
after it was emptied. The two action properties follow step by step from the
type: only `Issue` issues, and it needs a request that was checked.

### Bookings_proofs

| Theorem | Property |
|---|---|
| `Types` | `TypeOK` |
| `PaidBeforeDriven` | `DrivenOncePaid` |
| `FreshNumbers` | `NumbersAreFresh` |
| `KeepsLedger` | `LedgerSpec` |

`IInv` adds that a checkout is recorded once, paid only when recorded and
delivered only when paid (`Recorded`), that transactions and checkout requests
are of bookings that exist (`Paying`), that the booking a request is deciding on
exists, and is paid and stays so when it is an online booking about to be
converted (`Checked`), that outside the overlapped bookings there is one such
request at a time and its booking is still as it found it (`Undecided`), and that
the job of a booking has a number in use (`Jobs`). With these a conversion is
a `Drive` of the ledger, a second webhook a stutter, and the beginning of a second
decision a `Contest`.

### Permissions_proofs

| Theorem | Property |
|---|---|
| `RightsAreNamed` | `PermissionsTypeOK` |
| `HierarchyIsKept` | `GrantsAreClosed` |
| `AnswersAreFresh` | `NothingIsStale` |

Two halves. `RightsInv`: that changes of one role leave closed rows when they
meet needs that each saw, with a key, all the rows below it (`SawWhole`), so
that what it leaves in place is closed as well. `GuardInv`: what a request
carries to the cache, and what the cache holds, was so at one moment `s`, the
entry ends at `s + TTL`, and the two histories only grow (`HistoryGrows`).

### Reminders_proofs, Staff_proofs, Locations_proofs

| Theorem | Property |
|---|---|
| `RemindersTypes`, `RemindedOnce`, `NoReminderIsForgotten` | `RemindersTypeOK`, `NobodyIsRemindedTwice`, `SentStaysSent` |
| `StaffTypes`, `NoSecondAccount`, `RetiredStayOut` | `StaffTypeOK`, `OneAccountEach`, `RetiredAreOut` |
| `NoTwoPrimaries` | `OnePrimary` |
| `PlacesCountedOnAreThere`, `TreeStaysWhole` | `LocationsTypeOK`, `NoOrphans` |

Reminders: the messages that are known of are those logged or about to be
(`Counted`), and at a job outside `overlapped` there is one run (`OneAtATime`).
Staff: an account that is being opened for somebody has the number that person
still has (`Numbered`), an account has one owner (`Owned`), and outside `met` a
person's requests find what they loaded (`Undisturbed`). Vehicles: outside
`crowded`, the request that is to create the primary finds no other. Locations: a
place that is being deleted has nothing under it, and nobody counts on it
(`DeletesAreSafe`), unless it is in `raced`.

### Only model-checked

  * The liveness properties `CallsSettle`, `PaymentsArrive` and `EverybodyIsTried`:
    liveness under fairness and `ENABLED` are out of the provers' reach.
  * That the conditions of the five theorems above are needed, and the
    first four disagreements of §5: these are counterexamples.

Every other property of a passing run is a theorem.

## 7. What is not modelled

  * Around the handlers: notifications, pushes, e-mails and the audit log (no
    handler waits for them or reads them back); `bulkCreate`, a loop of `create`;
    the numbering of invoices, of which a commit only knows that it may be refused
    (`Drop`); the jobs behind the invoice lines; fees of drivers and costs of
    suppliers, which no decision reads.
  * `createPayment` reads the invoice and its payments in one step; Prisma issues
    two SELECTs. The difference needs another request in between, that is, an
    overlap.
  * A customer's invoice whose lines are empty is skipped in the code and in
    `CustomerTransfer` and `CustomerTips`; no configuration has empty lines.
  * Bookings: prices, quotes and extras; `refundPayment`, which has no caller; the
    gateways of two banks, which throw; an event for a session without a row,
    since a guest gets the link only when the row is there.
  * Sessions: passwords, profiles and registration; what a call does once it is let
    through.
  * Permissions: the renaming of a role. A role's slug follows its name, and only
    the slug makes a role the administrator's, so renaming that role takes its
    rights. Also `users/role-permissions.service.ts`, an older table per module
    that the guard does not read.
  * Reminders: the test message, the sign's PDF, the template. The log is per job
    and number, so a job that is moved to another day is not reminded of again;
    whether midnight is hour 0 or 24 is left to the runtime's locale data.
  * Staff: `suppliers.delete` and `bulkDelete` mark one row; zones of reps,
    licences, compliance records and deposits of vehicles are single rows.
  * Locations: names and codes. The import finds the place above by its name
    alone, leaves out the sample lines of its template, and does not look for
    hotels that are there already.
  * Components listed as `not_modelled` in `PROJECT.json`: master data (agents,
    customers, price lists, most of suppliers), reports, exports, settings, text
    processing. They write single rows without a lifecycle, or nothing.
  * The pages of the front end and the apps, two thirds of the repository's lines:
    forms, tables, translations and layout. They hold no state that outlives a
    page and none another page depends on, but for tokens, which `Sessions`
    models. This is why the modules, which cover the backend's handlers with a
    protocol in them, stand for a small share of the lines.

## 8. What could follow

1. Jobs behind the invoice lines, composing `Dispatch` and `Invoicing`: jobs are
   offered when completed and on no invoice (finance.service.ts:989-1058), and
   nothing looks again when the invoice is created.
2. The handlers with the locks of the table in §6, where the six conditions would be
   invariants: the five conditional theorems would then hold of every behaviour.
3. Compliance records of vehicles and their deposits, and the spreadsheet imports
   of suppliers, as operations on sets of rows.
