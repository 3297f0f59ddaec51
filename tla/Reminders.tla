----------------------------- MODULE Reminders -----------------------------
(***************************************************************************)
(* Reminders to clients: once an hour a cron job looks whether this is the *)
(* hour to send, asks for the jobs of the next day, and sends each client  *)
(* a message, unless the log says that it was sent.                        *)
(*                                                                         *)
(* A message goes out first and is logged later, and nothing waits for a   *)
(* run to end before the next begins.                                      *)
(***************************************************************************)
EXTENDS Naturals, FiniteSets

CONSTANTS
    Jobs,           \* jobs, each with its client's number: another number is another job
    Runs,           \* runs of the cron job that can be in progress at once
    Hours,          \* bound: the hours of a day
    MaxMessages,    \* bound: the messages about a job the log knows of
    Off             \* the hour to send, when reminders are disabled

ASSUME HoursAssumption ==
    Hours \in Nat \ {0} /\ MaxMessages \in Nat /\ Off \notin 0 .. Hours - 1 /\ IsFiniteSet(Runs)

VARIABLES
    log,            \* whatsapp_notification_logs
    hour, fired,    \* the hour in Cairo, and whether the cron job has fired in it
    sendHour,       \* whatsapp_settings
    run,
    known,          \* history: the messages that went out and were logged, or are to be
    overlapped,     \* history: jobs two runs were at, at once
    aborted         \* history: jobs a run had to do when it came to an end

clock == <<hour, fired, sendHour>>
history == <<known, overlapped, aborted>>
remindersVars == <<log, clock, run, history>>

Resting == [at |-> "resting"]

\* A run has jobs left; it is at one of them; a message to it was sent, or failed.
RunStates ==
    {Resting}
    \cup [at : {"next"}, left : SUBSET Jobs]
    \cup [at : {"send", "sent", "failed"}, left : SUBSET Jobs, job : Jobs]

AtJob(r) == run[r].at \in {"send", "sent", "failed"}
On(r, j) == AtJob(r) /\ run[r].job = j

\* The runs that sent a message about a job, and have yet to log it.
Unlogged(j) == {r \in Runs : run[r].at = "sent" /\ run[r].job = j}

\* What a run has yet to do.
ToDo(r) == CASE run[r].at = "resting" -> {}
             [] run[r].at = "next" -> run[r].left
             [] OTHER -> run[r].left \cup {run[r].job}

Go(r, state) == run' = [run EXCEPT ![r] = state]
Next1(r) == [at |-> "next", left |-> run[r].left]
Step(r, at) == Go(r, [run[r] EXCEPT !.at = at])

-----------------------------------------------------------------------------
\* updateSettings.
SetHour(h) ==
    /\ sendHour' = h
    /\ UNCHANGED <<log, hour, fired, run, history>>

Hour ==
    /\ hour' = (hour + 1) % Hours
    /\ fired' = FALSE
    /\ UNCHANGED <<log, sendHour, run, history>>

\* The jobs of the next day whose client has a number, and which are not closed.
Fire(r, jobs) ==
    /\ ~fired /\ fired' = TRUE
    /\ sendHour = hour /\ run[r] = Resting
    /\ Go(r, [at |-> "next", left |-> jobs])
    /\ UNCHANGED <<log, hour, sendHour, history>>

\* Mutant: a reminder is skipped when it failed, and not when it was sent.
MutSkips(entry) == entry = "FAILED"

Skips(entry) == entry = "SENT"

\* Mutant: the job that is looked at stays in the list.
MutAfter(r, j) == run[r].left

After(r, j) == run[r].left \ {j}

\* The log is looked at.
Check(r, j) ==
    /\ run[r].at = "next" /\ j \in run[r].left
    /\ Go(r, IF Skips(log[j]) THEN [at |-> "next", left |-> After(r, j)]
             ELSE [at |-> "send", left |-> After(r, j), job |-> j])
    /\ overlapped' = IF \E o \in Runs : On(o, j) THEN overlapped \cup {j} ELSE overlapped
    /\ UNCHANGED <<log, clock, known, aborted>>

\* External: the gateway takes the message and says so; or it refuses, or its answer is lost.
Send(r, answered) ==
    LET j == run[r].job IN
    /\ run[r].at = "send"
    /\ answered => known[j] < MaxMessages
    /\ Step(r, IF answered THEN "sent" ELSE "failed")
    /\ known' = IF answered THEN [known EXCEPT ![j] = @ + 1] ELSE known
    /\ UNCHANGED <<log, clock, overlapped, aborted>>

LogSent(r) ==
    /\ run[r].at = "sent"
    /\ log' = [log EXCEPT ![run[r].job] = "SENT"]
    /\ Go(r, Next1(r))
    /\ UNCHANGED <<clock, history>>

\* The upsert is in the same try block as the message.
LogSentFails(r) ==
    /\ run[r].at = "sent"
    /\ Step(r, "failed")
    /\ known' = [known EXCEPT ![run[r].job] = @ - 1]
    /\ UNCHANGED <<log, clock, overlapped, aborted>>

\* Mutant: one failure ends the run.
MutAfterFailure(r) == Resting

AfterFailure(r) == Next1(r)

LogFailed(r) ==
    /\ run[r].at = "failed"
    /\ log' = [log EXCEPT ![run[r].job] = "FAILED"]
    /\ Go(r, AfterFailure(r))
    /\ UNCHANGED <<clock, history>>

\* What fails in the catch block, and while the log is looked at, ends the run.
Abort(r) ==
    /\ run[r].at \in {"next", "failed"} /\ ToDo(r) # {}
    /\ aborted' = aborted \cup ToDo(r)
    /\ Go(r, Resting)
    /\ UNCHANGED <<log, clock, known, overlapped>>

Finish(r) ==
    /\ run[r].at = "next" /\ run[r].left = {}
    /\ Go(r, Resting)
    /\ UNCHANGED <<log, clock, history>>

\* The server dies: a message just sent is not logged.
Crash ==
    /\ \E r \in Runs : run[r] # Resting
    /\ run' = [r \in Runs |-> Resting]
    /\ known' = [j \in Jobs |-> known[j] - Cardinality(Unlogged(j))]
    /\ aborted' = aborted \cup UNION {ToDo(r) : r \in Runs}
    /\ UNCHANGED <<log, clock, overlapped>>

RemindersInit ==
    /\ log = [j \in Jobs |-> "NONE"]
    /\ hour = 0 /\ fired = FALSE
    /\ sendHour = Off
    /\ run = [r \in Runs |-> Resting]
    /\ known = [j \in Jobs |-> 0]
    /\ overlapped = {}
    /\ aborted = {}

\* What the event loop does of its own accord: requests to the database and the gateway are
\* answered, or fail.
Proceed(r) ==
    \/ \E j \in Jobs : Check(r, j)
    \/ \E answered \in BOOLEAN : Send(r, answered)
    \/ LogSent(r) \/ LogSentFails(r) \/ LogFailed(r) \/ Abort(r) \/ Finish(r)

RemindersNext ==
    \/ \E h \in (0 .. Hours - 1) \cup {Off} : SetHour(h)
    \/ Hour
    \/ \E r \in Runs, jobs \in SUBSET Jobs : Fire(r, jobs)
    \/ \E r \in Runs : Proceed(r)
    \/ Crash

RemindersFairness == \A r \in Runs : WF_remindersVars(Proceed(r))

RemindersSpec == RemindersInit /\ [][RemindersNext]_remindersVars /\ RemindersFairness

-----------------------------------------------------------------------------
(***************************************************************************)
(* Properties.                                                             *)
(***************************************************************************)

\* The log, the clock and the runs are of their kind, and a run is done with the job it is at.
RemindersTypeOK ==
    /\ log \in [Jobs -> {"NONE", "SENT", "FAILED"}]
    /\ hour \in 0 .. Hours - 1 /\ fired \in BOOLEAN
    /\ sendHour \in (0 .. Hours - 1) \cup {Off}
    /\ run \in [Runs -> RunStates]
    /\ \A r \in Runs : AtJob(r) => run[r].job \notin run[r].left
    /\ known \in [Jobs -> Nat]
    /\ overlapped \subseteq Jobs /\ aborted \subseteq Jobs

\* Whatever fails, is repeated or dies, nobody is sent another message when one is in the log
\* or about to be: only messages whose record was lost are repeated, unless two runs were at
\* one job at once.
NobodyIsRemindedTwice == \A j \in Jobs \ overlapped : known[j] <= 1

\* A reminder that was sent stays so: no later failure is written over it.
SentStaysSent ==
    [][\A j \in Jobs \ overlapped : log[j] = "SENT" => log'[j] = "SENT"]_remindersVars

\* A client whose message fails does not keep the others waiting: everybody a run set out to
\* remind is in the log in the end, unless the run was cut short.
EverybodyIsTried ==
    \A j \in Jobs : (\E r \in Runs : j \in ToDo(r)) ~> (log[j] # "NONE" \/ j \in aborted)

=============================================================================
