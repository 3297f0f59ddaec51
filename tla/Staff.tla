------------------------------- MODULE Staff -------------------------------
(***************************************************************************)
(* The drivers and reps who work with the portals, and the accounts they   *)
(* log in with.  An account is opened for a person's number, is switched   *)
(* on and off with the person, and is switched off when the person is      *)
(* deleted.                                                                *)
(*                                                                         *)
(* Every request loads the person first and writes later, what it writes   *)
(* depends on what it loaded.                                              *)
(***************************************************************************)

CONSTANTS
    Drivers, Reps,
    Numbers,        \* mobile numbers
    Accounts,       \* bound: the accounts ever opened
    Tasks,          \* requests that can be in progress at once
    NoAccount,
    NoNumber        \* the number of an account not opened yet

People == Drivers \cup Reps
NoOne == "no one"

ASSUME StaffAssumption ==
    /\ Drivers \cap Reps = {} /\ NoOne \notin People
    /\ NoAccount \notin Accounts /\ NoNumber \notin Numbers

VARIABLES
    number,         \* mobile_number of a person
    deleted,        \* the people with a deletedAt
    accountOf,      \* user_id of a person
    phone,          \* phone of an account
    enabled,        \* the accounts that are active
    task,           \* requests in progress
    openedFor,      \* history: whom an account was opened for
    renumbered,     \* history: people whose number changed while an account was opened
    met,            \* history: people at whom two requests were at once
    retired         \* history: people deleted on their own page

people == <<number, deleted, accountOf>>
accounts == <<phone, enabled>>
staffHistory == <<openedFor, renumbered, met, retired>>
staffVars == <<people, accounts, task, staffHistory>>

Free == [at |-> "free"]

Unopened == {a \in Accounts : phone[a] = NoNumber}

TaskStates ==
    {Free}
    \cup [at : {"open"}, p : People, number : Numbers]
    \cup [at : {"toggle"}, p : People, on : BOOLEAN, account : Accounts]
    \cup [at : {"retire", "disabled"}, p : People, account : Accounts \cup {NoAccount}]

Busy(t, p) == task[t] # Free /\ task[t].p = p

Begin(t, p, state) ==
    /\ task[t] = Free /\ p \notin deleted
    /\ task' = [task EXCEPT ![t] = state]
    /\ met' = IF \E o \in Tasks : Busy(o, p) THEN met \cup {p} ELSE met

Ends(t) == task' = [task EXCEPT ![t] = Free]

-----------------------------------------------------------------------------
\* update; of the fields of a person, the number matters.
Renumber(p, n) ==
    /\ p \notin deleted
    /\ number' = [number EXCEPT ![p] = n]
    /\ renumbered' = IF \E t \in Tasks : Busy(t, p) /\ task[t].at = "open"
                     THEN renumbered \cup {p} ELSE renumbered
    /\ UNCHANGED <<deleted, accountOf, accounts, task, openedFor, met, retired>>

\* createUserAccount looks at the person, and whether anybody has the number.
OpenLoad(t, p) ==
    /\ Begin(t, p, [at |-> "open", p |-> p, number |-> number[p]])
    /\ accountOf[p] = NoAccount
    /\ \A a \in Accounts : phone[a] # number[p]
    /\ UNCHANGED <<people, accounts, openedFor, renumbered, retired>>

\* Mutant: users.phone is not unique.
MutUnique(n) == TRUE

Unique(n) == \A a \in Accounts : phone[a] # n

\* The user and the link to it, in one transaction.
Open(t) ==
    LET p == task[t].p
        n == task[t].number
        a == CHOOSE new \in Unopened : TRUE
    IN
    /\ task[t].at = "open" /\ Unopened # {}
    /\ Unique(n)
    /\ phone' = [phone EXCEPT ![a] = n]
    /\ enabled' = enabled \cup {a}
    /\ accountOf' = [accountOf EXCEPT ![p] = a]
    /\ openedFor' = [openedFor EXCEPT ![a] = p]
    /\ Ends(t)
    /\ UNCHANGED <<number, deleted, renumbered, met, retired>>

\* toggleStatus, of a person who is on or off, whatever the account is.  For one without an
\* account nothing of what is modelled here changes.
ToggleLoad(t, p, on) ==
    /\ accountOf[p] # NoAccount
    /\ Begin(t, p, [at |-> "toggle", p |-> p, on |-> on, account |-> accountOf[p]])
    /\ UNCHANGED <<people, accounts, openedFor, renumbered, retired>>

Toggle(t) ==
    LET own == {task[t].account} IN
    /\ task[t].at = "toggle"
    /\ enabled' = IF task[t].on THEN enabled \cup own ELSE enabled \ own
    /\ Ends(t)
    /\ UNCHANGED <<people, phone, staffHistory>>

RetireLoad(t, p) ==
    /\ Begin(t, p, [at |-> "retire", p |-> p, account |-> accountOf[p]])
    /\ UNCHANGED <<people, accounts, openedFor, renumbered, retired>>

\* Mutant: the account is left as it is.
MutDisables(account) == enabled

Disables(account) == enabled \ {account}

\* Mutant: the person is not marked deleted.
MutGone(p) ==
    /\ deleted' = deleted
    /\ retired' = retired \cup {p}

Gone(p) ==
    /\ deleted' = deleted \cup {p}
    /\ retired' = retired \cup {p}

\* softDelete of a rep, in one transaction.
RetireRep(t) ==
    /\ task[t].at = "retire" /\ task[t].p \in Reps
    /\ enabled' = Disables(task[t].account)
    /\ Gone(task[t].p)
    /\ Ends(t)
    /\ UNCHANGED <<number, accountOf, phone, openedFor, renumbered, met>>

\* softDelete of a driver, the account first and then the driver.
DisableDriver(t) ==
    /\ task[t].at = "retire" /\ task[t].p \in Drivers
    /\ enabled' = Disables(task[t].account)
    /\ task' = [task EXCEPT ![t].at = "disabled"]
    /\ UNCHANGED <<people, phone, staffHistory>>

RetireDriver(t) ==
    /\ task[t].at = "disabled"
    /\ Gone(task[t].p)
    /\ Ends(t)
    /\ UNCHANGED <<number, accountOf, accounts, openedFor, renumbered, met>>

\* A supplier's page deletes a driver, and leaves the account alone.
SupplierDeletes(p) ==
    /\ p \in Drivers \ deleted
    /\ deleted' = deleted \cup {p}
    /\ UNCHANGED <<number, accountOf, accounts, task, staffHistory>>

Drop(t) ==
    /\ task[t] # Free
    /\ Ends(t)
    /\ UNCHANGED <<people, accounts, staffHistory>>

StaffInit ==
    /\ number \in [People -> Numbers]
    /\ deleted = {}
    /\ accountOf = [p \in People |-> NoAccount]
    /\ phone = [a \in Accounts |-> NoNumber]
    /\ enabled = {}
    /\ task = [t \in Tasks |-> Free]
    /\ openedFor = [a \in Accounts |-> NoOne]
    /\ renumbered = {}
    /\ met = {}
    /\ retired = {}

StaffNext ==
    \/ \E p \in People :
        \/ \E n \in Numbers : Renumber(p, n)
        \/ SupplierDeletes(p)
        \/ \E t \in Tasks : OpenLoad(t, p) \/ RetireLoad(t, p)
        \/ \E t \in Tasks, on \in BOOLEAN : ToggleLoad(t, p, on)
    \/ \E t \in Tasks :
        \/ Open(t) \/ Toggle(t) \/ RetireRep(t) \/ DisableDriver(t) \/ RetireDriver(t) \/ Drop(t)

StaffSpec == StaffInit /\ [][StaffNext]_staffVars

-----------------------------------------------------------------------------
(***************************************************************************)
(* Properties.                                                             *)
(***************************************************************************)

\* People, accounts and requests are of their kind, a person's account was opened, and who was
\* retired is gone.
StaffTypeOK ==
    /\ number \in [People -> Numbers]
    /\ accountOf \in [People -> (Accounts \ Unopened) \cup {NoAccount}]
    /\ phone \in [Accounts -> Numbers \cup {NoNumber}]
    /\ enabled \subseteq Accounts \ Unopened
    /\ task \in [Tasks -> TaskStates]
    /\ openedFor \in [Accounts -> People \cup {NoOne}]
    /\ retired \subseteq deleted
    /\ deleted \cup renumbered \cup met \subseteq People

\* Nobody gets a second account and nobody's is another's, however many requests open accounts
\* for whomever at once: an account belongs to whom it was opened for, unless the number
\* changed while it was opened, which can leave an account that is nobody's.
OneAccountEach ==
    \A a \in Accounts :
        openedFor[a] \in People \ renumbered => accountOf[openedFor[a]] = a

\* Who was deleted on the drivers' or the reps' page cannot log in any more, and is not
\* switched on again, unless two requests were at the same person at once.
RetiredAreOut == \A p \in retired \ met : accountOf[p] \notin enabled

=============================================================================
