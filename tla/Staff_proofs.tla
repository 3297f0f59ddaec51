---------------------------- MODULE Staff_proofs ----------------------------
(***************************************************************************)
(* Proofs about Staff and DriverVehicles, for any number of people,        *)
(* accounts, vehicles and requests.                                        *)
(*                                                                         *)
(* IInv of Staff says why a stale load is harmless: an account is opened   *)
(* for the number its person still has, so that a second one finds it      *)
(* taken; and who is alone at a person holds the account the person has.   *)
(***************************************************************************)
EXTENDS Staff, DriverVehicles, TLAPS

\* The account a request switches on or off.
Holds(t, a) == task[t].at \in {"toggle", "retire", "disabled"} /\ task[t].account = a

\* Accounts in use were opened, and for the person who has or holds them.
Owned ==
    /\ \A p \in People, a \in Accounts : accountOf[p] = a => openedFor[a] = p
    /\ \A t \in Tasks, a \in Accounts : Holds(t, a) => phone[a] # NoNumber /\ openedFor[a] = task[t].p

Opens(t, p) == task[t].at = "open" /\ task[t].p = p

\* The number an account is opened for is the person's, and that of the account opened before.
Numbered ==
    \A t \in Tasks, p \in People \ renumbered :
        Opens(t, p) =>
            /\ task[t].number = number[p]
            /\ accountOf[p] # NoAccount => phone[accountOf[p]] = task[t].number

\* A person whom one request at a time was at.
Undisturbed(p) ==
    /\ \A t, o \in Tasks : Busy(t, p) /\ Busy(o, p) => t = o
    /\ \A t \in Tasks : Busy(t, p) /\ task[t].at \in {"toggle", "retire", "disabled"}
                        => task[t].account = accountOf[p]
    /\ \A t \in Tasks : Busy(t, p) /\ task[t].at = "disabled" => accountOf[p] \notin enabled
    /\ p \in retired => accountOf[p] \notin enabled /\ \A t \in Tasks : ~Busy(t, p)

StaffInv ==
    /\ StaffTypeOK /\ OneAccountEach /\ Owned /\ Numbered
    /\ \A p \in People \ met : Undisturbed(p)

-----------------------------------------------------------------------------
LEMMA TaskKinds ==
    ASSUME NEW s \in TaskStates
    PROVE  /\ s.at = "free" <=> s = Free
           /\ s # Free => s.p \in People
           /\ s.at = "open" => s.number \in Numbers
           /\ s.at \in {"retire", "disabled"} => s.account \in Accounts \cup {NoAccount}
           /\ s.at = "toggle" => s.account \in Accounts /\ s.on \in BOOLEAN
BY DEF TaskStates, Free

LEMMA FreeIsOne == Free \in TaskStates /\ Free.at = "free"
BY DEF Free, TaskStates

LEMMA StaffInitHolds == StaffInit => StaffInv
<1> SUFFICES ASSUME StaffInit PROVE StaffInv
  OBVIOUS
<1>1. \A t \in Tasks : task[t] = Free /\ task[t].at = "free" /\ \A p : ~Busy(t, p)
  BY FreeIsOne DEF StaffInit, Busy
<1>2. StaffTypeOK
  BY <1>1, FreeIsOne, StaffAssumption DEF StaffInit, StaffTypeOK, Unopened
<1>3. Owned /\ Numbered /\ \A p \in People : Undisturbed(p)
  BY <1>1, StaffAssumption DEF StaffInit, Owned, Numbered, Undisturbed, Holds, Opens
<1>4. OneAccountEach
  BY StaffAssumption DEF StaffInit, OneAccountEach
<1> QED
  BY <1>2, <1>3, <1>4 DEF StaffInv

-----------------------------------------------------------------------------
(***************************************************************************)
(* One lemma for each way in which a step disturbs the invariant.          *)
(***************************************************************************)

\* Where a request begins or ends.
LEMMA Moves ==
    ASSUME StaffTypeOK, NEW t \in Tasks, NEW s \in TaskStates, task' = [task EXCEPT ![t] = s]
    PROVE  /\ task' \in [Tasks -> TaskStates] /\ task'[t] = s
           /\ \A o \in Tasks \ {t} : task'[o] = task[o]
BY DEF StaffTypeOK

LEMMA Beginning ==
    ASSUME StaffInv, NEW t \in Tasks, NEW p \in People, NEW s \in TaskStates,
           Begin(t, p, s), s.p = p, s # Free,
           UNCHANGED <<people, accounts, openedFor, renumbered, retired>>,
           s.at = "open" => s.number = number[p] /\ accountOf[p] = NoAccount,
           s.at \in {"toggle", "retire"} => s.account = accountOf[p],
           s.at # "disabled"
    PROVE  StaffInv'
<1>0. StaffTypeOK /\ OneAccountEach /\ Owned /\ Numbered /\ \A q \in People \ met : Undisturbed(q)
  BY DEF StaffInv
<1>1. /\ number' = number /\ deleted' = deleted /\ accountOf' = accountOf /\ phone' = phone
      /\ enabled' = enabled /\ openedFor' = openedFor /\ renumbered' = renumbered /\ retired' = retired
      /\ met \subseteq met' /\ met' \subseteq met \cup {p}
      /\ ((\E o \in Tasks : Busy(o, p)) => p \in met')
      /\ task[t] = Free /\ p \notin deleted
  BY DEF Begin, people, accounts
<1>2. task' \in [Tasks -> TaskStates] /\ task'[t] = s /\ \A o \in Tasks \ {t} : task'[o] = task[o]
  BY <1>0, Moves DEF Begin
<1>3. StaffTypeOK'
  BY <1>0, <1>1, <1>2 DEF StaffTypeOK, Unopened
<1>4. OneAccountEach'
  BY <1>0, <1>1 DEF OneAccountEach
<1>5. Owned'
  <2>1. ASSUME NEW a \in Accounts, s.at \in {"toggle", "retire"}, s.account = a
        PROVE  phone[a] # NoNumber /\ openedFor[a] = p
    BY <1>0, <2>1, StaffAssumption DEF Owned, StaffTypeOK, Unopened
  <2> QED
    BY <1>0, <1>1, <1>2, <2>1 DEF Owned, Holds
<1>6. Numbered'
  BY <1>0, <1>1, <1>2 DEF Numbered, Opens
<1>7. ASSUME NEW q \in People \ met' PROVE Undisturbed(q)'
  <2>1. Undisturbed(q) /\ \A o \in Tasks \ {t} : Busy(o, q)' <=> Busy(o, q)
    BY <1>0, <1>1, <1>2 DEF Busy
  <2>2. ~Busy(t, q) /\ (Busy(t, q)' <=> q = p)
    BY <1>1, <1>2 DEF Busy
  <2>3. q = p => q \notin retired /\ \A o \in Tasks : ~Busy(o, q)
    BY <1>0, <1>1 DEF StaffTypeOK
  <2> QED
    BY <1>1, <1>2, <2>1, <2>2, <2>3 DEF Undisturbed
<1> QED
  BY <1>3, <1>4, <1>5, <1>6, <1>7 DEF StaffInv

\* A request ends or goes on, accounts may be switched off, and people may be deleted.
LEMMA SwitchingOff ==
    ASSUME StaffInv, NEW t \in Tasks, NEW s \in {Free, [task[t] EXCEPT !.at = "disabled"]},
           task' = [task EXCEPT ![t] = s],
           s = Free \/ (task[t].at = "retire" /\ accountOf[task[t].p] \notin enabled')
                    \/ (task[t].at = "retire" /\ task[t].p \in met),
           UNCHANGED <<number, accountOf, phone, openedFor, renumbered, met>>,
           enabled' \subseteq enabled,
           deleted \subseteq deleted', deleted' \subseteq People,
           retired \subseteq retired', retired' \subseteq deleted',
           \A p \in retired' \ retired :
              task[t] # Free /\ task[t].p = p /\ s = Free /\ (p \in met \/ accountOf[p] \notin enabled')
    PROVE  StaffInv'
<1>0. StaffTypeOK /\ OneAccountEach /\ Owned /\ Numbered /\ \A q \in People \ met : Undisturbed(q)
  BY DEF StaffInv
<1>1. s \in TaskStates /\ (s # Free => s.at = "disabled" /\ s.p = task[t].p /\ s.account = task[t].account)
  <2>1. CASE s = Free
    BY <2>1, FreeIsOne
  <2>2. CASE s # Free
    <3>1. task[t] \in [at : {"retire", "disabled"}, p : People, account : Accounts \cup {NoAccount}]
      BY <1>0, <2>2 DEF StaffTypeOK, TaskStates, Free
    <3> QED
      BY <2>2, <3>1 DEF TaskStates
  <2> QED
    BY <2>1, <2>2
<1>2. task' \in [Tasks -> TaskStates] /\ task'[t] = s /\ \A o \in Tasks \ {t} : task'[o] = task[o]
  BY <1>0, <1>1, Moves
<1>3. StaffTypeOK'
  BY <1>0, <1>2 DEF StaffTypeOK, Unopened
<1>4. OneAccountEach'
  BY <1>0 DEF OneAccountEach
<1>5. Owned'
  BY <1>0, <1>1, <1>2, FreeIsOne DEF Owned, Holds
<1>6. Numbered'
  BY <1>0, <1>1, <1>2, FreeIsOne DEF Numbered, Opens
<1>7. ASSUME NEW q \in People \ met' PROVE Undisturbed(q)'
  <2>1. Undisturbed(q)
    BY <1>0
  <2>2. \A o \in Tasks : Busy(o, q)' => Busy(o, q)
    BY <1>1, <1>2, FreeIsOne DEF Busy, Free
  <2>3. ASSUME NEW o \in Tasks, Busy(o, q)' PROVE task'[o].account = task[o].account /\ (o # t => task'[o] = task[o])
    BY <1>1, <1>2, <2>3 DEF Busy
  <2>4. ASSUME NEW o \in Tasks, Busy(o, q)', task'[o].at = "disabled" PROVE accountOf[q] \notin enabled'
    BY <1>1, <1>2, <2>1, <2>2, <2>4, FreeIsOne DEF Undisturbed, Busy
  <2>5. ASSUME NEW o \in Tasks, Busy(o, q)', task'[o].at \in {"toggle", "retire", "disabled"}
        PROVE  task'[o].account = accountOf[q]
    BY <1>1, <1>2, <2>1, <2>2, <2>3, <2>5, FreeIsOne DEF Undisturbed, Busy
  <2>6. q \in retired' => accountOf[q] \notin enabled' /\ \A o \in Tasks : ~Busy(o, q)'
    <3>1. CASE q \in retired
      BY <2>1, <2>2, <3>1 DEF Undisturbed
    <3>2. CASE q \in retired' \ retired
      <4>1. Busy(t, q) /\ s = Free /\ accountOf[q] \notin enabled'
        BY <3>2 DEF Busy
      <4>2. \A o \in Tasks : Busy(o, q)' => o = t
        BY <2>1, <2>2, <4>1 DEF Undisturbed
      <4> QED
        BY <1>2, <4>1, <4>2 DEF Busy
    <3> QED
      BY <3>1, <3>2
  <2> QED
    BY <2>1, <2>2, <2>4, <2>5, <2>6 DEF Undisturbed
<1> QED
  BY <1>3, <1>4, <1>5, <1>6, <1>7 DEF StaffInv

LEMMA OpenKeeps ==
    ASSUME StaffInv, NEW t \in Tasks, Open(t)
    PROVE  StaffInv'
<1> DEFINE p == task[t].p
           n == task[t].number
           a == CHOOSE new \in Unopened : TRUE
<1>0. StaffTypeOK /\ OneAccountEach /\ Owned /\ Numbered /\ \A q \in People \ met : Undisturbed(q)
  BY DEF StaffInv
<1>1. /\ a \in Accounts /\ phone[a] = NoNumber /\ Opens(t, p) /\ task[t] \in TaskStates /\ task[t] # Free
      /\ p \in People /\ n \in Numbers /\ n # NoNumber
  <2>1. task[t].at = "open" /\ Unopened # {} /\ task[t] \in TaskStates
    BY <1>0 DEF Open, StaffTypeOK
  <2>2. a \in Unopened
    BY <2>1
  <2> QED
    BY <2>1, <2>2, TaskKinds, FreeIsOne, StaffAssumption DEF Unopened, Opens
<1>2. /\ \A b \in Accounts : phone[b] # n
      /\ phone' = [phone EXCEPT ![a] = n] /\ enabled' = enabled \cup {a}
      /\ accountOf' = [accountOf EXCEPT ![p] = a] /\ openedFor' = [openedFor EXCEPT ![a] = p]
      /\ task' = [task EXCEPT ![t] = Free]
      /\ UNCHANGED <<number, deleted, renumbered, met, retired>>
  BY DEF Open, Unique, Ends
<1>3. task' \in [Tasks -> TaskStates] /\ task'[t] = Free /\ \A o \in Tasks \ {t} : task'[o] = task[o]
  BY <1>0, <1>2, FreeIsOne, Moves
<1>4. Busy(t, p)
  BY <1>1 DEF Busy
<1>5. p \notin renumbered => \A b \in Accounts : openedFor[b] # p
  BY <1>0, <1>1, <1>2, StaffAssumption DEF OneAccountEach, Numbered
<1>6. p \notin renumbered => n = number[p]
  BY <1>0, <1>1 DEF Numbered
<1> HIDE DEF a, p, n
<1>7. /\ phone'[a] = n /\ \A b \in Accounts \ {a} : phone'[b] = phone[b]
      /\ openedFor'[a] = p /\ \A b \in Accounts \ {a} : openedFor'[b] = openedFor[b]
      /\ accountOf'[p] = a /\ \A q \in People \ {p} : accountOf'[q] = accountOf[q]
  BY <1>0, <1>1, <1>2 DEF StaffTypeOK
<1>8. StaffTypeOK'
  <2>1. phone' \in [Accounts -> Numbers \cup {NoNumber}] /\ openedFor' \in [Accounts -> People \cup {NoOne}]
    BY <1>0, <1>1, <1>2 DEF StaffTypeOK
  <2>2. Accounts \ Unopened' = (Accounts \ Unopened) \cup {a}
    BY <1>1, <1>7 DEF Unopened
  <2>3. accountOf' \in [People -> (Accounts \ Unopened') \cup {NoAccount}]
    BY <1>0, <1>1, <1>2, <2>2 DEF StaffTypeOK
  <2>4. enabled' \subseteq Accounts \ Unopened'
    BY <1>0, <1>2, <2>2 DEF StaffTypeOK
  <2> QED
    BY <1>0, <1>2, <1>3, <2>1, <2>3, <2>4 DEF StaffTypeOK
<1>9. OneAccountEach'
  BY <1>0, <1>1, <1>2, <1>5, <1>7 DEF OneAccountEach
<1>10. \A q \in People : accountOf[q] # a
  BY <1>0, <1>1, StaffAssumption DEF StaffTypeOK, Unopened
<1>11. \A o \in Tasks : ~Holds(o, a)
  BY <1>0, <1>1 DEF Owned
<1>12. Owned'
  <2>1. \A o \in Tasks, b \in Accounts : Holds(o, b)' => Holds(o, b) /\ task'[o] = task[o]
    BY <1>3, FreeIsOne DEF Holds
  <2> QED
    BY <1>0, <1>1, <1>7, <1>10, <1>11, <2>1 DEF Owned
<1>13. Numbered'
  <2> SUFFICES ASSUME NEW o \in Tasks, NEW q \in People \ renumbered, Opens(o, q)'
               PROVE  /\ task'[o].number = number[q]
                      /\ accountOf'[q] # NoAccount => phone'[accountOf'[q]] = task'[o].number
    BY <1>2 DEF Numbered
  <2>1. o # t /\ task'[o] = task[o] /\ Opens(o, q)
    BY <1>3, FreeIsOne DEF Opens
  <2>2. task[o].number = number[q] /\ (accountOf[q] # NoAccount => phone[accountOf[q]] = task[o].number)
    BY <1>0, <2>1 DEF Numbered
  <2>3. CASE q = p
    BY <1>6, <1>7, <2>1, <2>2, <2>3
  <2>4. CASE q # p
    <3>1. accountOf'[q] = accountOf[q] /\ accountOf[q] # a /\ accountOf[q] \in Accounts \cup {NoAccount}
      BY <1>0, <1>7, <1>10, <2>4 DEF StaffTypeOK
    <3> QED
      BY <1>7, <2>1, <2>2, <3>1
  <2> QED
    BY <2>3, <2>4
<1>14. ASSUME NEW q \in People \ met' PROVE Undisturbed(q)'
  <2>1. Undisturbed(q) /\ q \notin met
    BY <1>0, <1>2
  <2>2. \A o \in Tasks : Busy(o, q)' => Busy(o, q) /\ o # t /\ task'[o] = task[o]
    BY <1>3 DEF Busy
  <2>3. CASE q = p
    <3>1. \A o \in Tasks : ~Busy(o, q)'
      BY <1>4, <2>1, <2>2, <2>3 DEF Undisturbed
    <3>2. q \notin retired'
      BY <1>2, <1>4, <2>1, <2>3 DEF Undisturbed
    <3> QED
      BY <3>1, <3>2 DEF Undisturbed
  <2>4. CASE q # p
    <3>1. accountOf'[q] = accountOf[q] /\ (accountOf[q] \notin enabled => accountOf[q] \notin enabled')
      BY <1>2, <1>7, <1>10, <2>4
    <3> QED
      BY <1>2, <2>1, <2>2, <3>1 DEF Undisturbed
  <2> QED
    BY <2>3, <2>4
<1> QED
  BY <1>8, <1>9, <1>12, <1>13, <1>14 DEF StaffInv

\* An account is switched on again.
LEMMA ToggleKeeps ==
    ASSUME StaffInv, NEW t \in Tasks, Toggle(t)
    PROVE  StaffInv'
<1>0. StaffTypeOK /\ OneAccountEach /\ Owned /\ Numbered /\ \A q \in People \ met : Undisturbed(q)
  BY DEF StaffInv
<1>1. /\ number' = number /\ deleted' = deleted /\ accountOf' = accountOf /\ phone' = phone
      /\ openedFor' = openedFor /\ renumbered' = renumbered /\ met' = met /\ retired' = retired
      /\ task' = [task EXCEPT ![t] = Free] /\ task[t].at = "toggle"
  BY DEF Toggle, people, staffHistory, Ends
<1>2. task[t].p \in People /\ task[t].account \in Accounts /\ Holds(t, task[t].account) /\ Busy(t, task[t].p)
  BY <1>0, <1>1, TaskKinds, FreeIsOne DEF StaffTypeOK, Holds, Busy
<1>3. task' \in [Tasks -> TaskStates] /\ task'[t] = Free /\ \A o \in Tasks \ {t} : task'[o] = task[o]
  BY <1>0, <1>1, FreeIsOne, Moves
<1>4. enabled' \subseteq enabled \cup {task[t].account}
  BY DEF Toggle
<1>5. StaffTypeOK'
  <2>1. task[t].account \in Accounts \ Unopened
    BY <1>0, <1>2 DEF Owned, Unopened
  <2> QED
    BY <1>0, <1>1, <1>3, <1>4, <2>1 DEF StaffTypeOK, Unopened
<1>6. OneAccountEach' /\ Owned' /\ Numbered'
  BY <1>0, <1>1, <1>3, FreeIsOne DEF OneAccountEach, Owned, Numbered, Holds, Opens
<1>7. ASSUME NEW q \in People \ met' PROVE Undisturbed(q)'
  <2>1. Undisturbed(q) /\ \A o \in Tasks : Busy(o, q)' => Busy(o, q) /\ o # t /\ task'[o] = task[o]
    BY <1>0, <1>1, <1>3 DEF Busy
  <2>2. CASE q = task[t].p
    <3>1. (\A o \in Tasks : ~Busy(o, q))' /\ q \notin retired
      BY <1>2, <2>1, <2>2 DEF Undisturbed
    <3> QED
      BY <1>1, <3>1 DEF Undisturbed
  <2>3. CASE q # task[t].p
    <3>1. accountOf[q] # task[t].account
      BY <1>0, <1>2, <2>3 DEF Owned
    <3> QED
      BY <1>1, <1>4, <2>1, <3>1 DEF Undisturbed
  <2> QED
    BY <2>2, <2>3
<1> QED
  BY <1>5, <1>6, <1>7 DEF StaffInv

LEMMA RenumberKeeps ==
    ASSUME StaffInv, NEW p \in People, NEW n \in Numbers, Renumber(p, n)
    PROVE  StaffInv'
<1>0. StaffTypeOK /\ OneAccountEach /\ Owned /\ Numbered /\ \A q \in People \ met : Undisturbed(q)
  BY DEF StaffInv
<1>1. /\ number' = [number EXCEPT ![p] = n] /\ UNCHANGED <<deleted, accountOf, phone, enabled, task, openedFor, met, retired>>
      /\ renumbered \subseteq renumbered' /\ renumbered' \subseteq renumbered \cup {p}
      /\ (\E t \in Tasks : Busy(t, p) /\ task[t].at = "open") => p \in renumbered'
  BY DEF Renumber, accounts
<1>2. StaffTypeOK' /\ OneAccountEach' /\ Owned'
  BY <1>0, <1>1 DEF StaffTypeOK, Unopened, OneAccountEach, Owned, Holds
<1>3. Numbered'
  <2>1. \A t \in Tasks : Opens(t, p) => Busy(t, p)
    BY <1>0, FreeIsOne DEF Opens, Busy
  <2> QED
    BY <1>0, <1>1, <2>1 DEF Numbered, Opens, StaffTypeOK
<1>4. \A q \in People \ met' : Undisturbed(q)'
  BY <1>0, <1>1 DEF Undisturbed, Busy
<1> QED
  BY <1>2, <1>3, <1>4 DEF StaffInv

LEMMA StaffStepKeeps == StaffInv /\ [StaffNext]_staffVars => StaffInv'
<1> SUFFICES ASSUME StaffInv, [StaffNext]_staffVars PROVE StaffInv'
  OBVIOUS
<1>0. StaffTypeOK /\ Owned /\ \A q \in People \ met : Undisturbed(q)
  BY DEF StaffInv
<1>1. ASSUME NEW t \in Tasks, NEW p \in People, OpenLoad(t, p) PROVE StaffInv'
  <2> DEFINE s == [at |-> "open", p |-> p, number |-> number[p]]
  <2>1. s \in TaskStates /\ s.at = "open" /\ s.p = p /\ s.number = number[p] /\ s # Free
    BY <1>0, FreeIsOne DEF TaskStates, StaffTypeOK
  <2>2. Begin(t, p, s) /\ accountOf[p] = NoAccount /\ UNCHANGED <<people, accounts, openedFor, renumbered, retired>>
    BY <1>1 DEF OpenLoad
  <2> HIDE DEF s
  <2> QED
    BY <2>1, <2>2, Beginning
<1>2. ASSUME NEW t \in Tasks, NEW p \in People, NEW on \in BOOLEAN, ToggleLoad(t, p, on) PROVE StaffInv'
  <2> DEFINE s == [at |-> "toggle", p |-> p, on |-> on, account |-> accountOf[p]]
  <2>1. s \in TaskStates /\ s.at = "toggle" /\ s.p = p /\ s.account = accountOf[p] /\ s # Free
    BY <1>0, <1>2, FreeIsOne DEF TaskStates, StaffTypeOK, ToggleLoad
  <2>2. Begin(t, p, s) /\ UNCHANGED <<people, accounts, openedFor, renumbered, retired>>
    BY <1>2 DEF ToggleLoad
  <2> HIDE DEF s
  <2> QED
    BY <2>1, <2>2, Beginning
<1>3. ASSUME NEW t \in Tasks, NEW p \in People, RetireLoad(t, p) PROVE StaffInv'
  <2> DEFINE s == [at |-> "retire", p |-> p, account |-> accountOf[p]]
  <2>1. s \in TaskStates /\ s.at = "retire" /\ s.p = p /\ s.account = accountOf[p] /\ s # Free
    BY <1>0, FreeIsOne DEF TaskStates, StaffTypeOK
  <2>2. Begin(t, p, s) /\ UNCHANGED <<people, accounts, openedFor, renumbered, retired>>
    BY <1>3 DEF RetireLoad
  <2> HIDE DEF s
  <2> QED
    BY <2>1, <2>2, Beginning
<1>4. ASSUME NEW t \in Tasks, task[t].at \in {"retire", "disabled"}
      PROVE  /\ task[t] # Free /\ task[t].p \in People
             /\ task[t].p \in met \/ accountOf[task[t].p] \notin enabled \ {task[t].account}
             /\ task[t].at = "disabled" => task[t].p \in met \/ accountOf[task[t].p] \notin enabled
  <2>1. task[t] # Free /\ task[t].p \in People /\ Busy(t, task[t].p)
    BY <1>0, <1>4, TaskKinds, FreeIsOne DEF StaffTypeOK, Busy
  <2> QED
    BY <1>0, <1>4, <2>1 DEF Undisturbed
<1>5. ASSUME NEW t \in Tasks, RetireRep(t) PROVE StaffInv'
  <2>1. /\ task[t].at = "retire" /\ task' = [task EXCEPT ![t] = Free]
        /\ enabled' = enabled \ {task[t].account} /\ deleted' = deleted \cup {task[t].p}
        /\ retired' = retired \cup {task[t].p}
        /\ UNCHANGED <<number, accountOf, phone, openedFor, renumbered, met>>
    BY <1>5 DEF RetireRep, Gone, Ends, Disables
  <2>2. deleted' \subseteq People /\ retired' \subseteq deleted'
    BY <1>0, <1>4, <2>1 DEF StaffTypeOK
  <2>3. \A p \in retired' \ retired :
          task[t] # Free /\ task[t].p = p /\ (p \in met \/ accountOf[p] \notin enabled')
    BY <1>4, <2>1
  <2> QED
    BY <2>1, <2>2, <2>3, SwitchingOff
<1>6. ASSUME NEW t \in Tasks, DisableDriver(t) PROVE StaffInv'
  <2>1. /\ task[t].at = "retire" /\ task' = [task EXCEPT ![t] = [task[t] EXCEPT !.at = "disabled"]]
        /\ enabled' = enabled \ {task[t].account}
        /\ UNCHANGED <<number, deleted, accountOf, phone, openedFor, renumbered, met, retired>>
    BY <1>6 DEF DisableDriver, Disables, people, staffHistory
  <2>2. deleted' \subseteq People /\ retired' \subseteq deleted'
    BY <1>0, <2>1 DEF StaffTypeOK
  <2> QED
    BY <1>4, <2>1, <2>2, SwitchingOff
<1>7. ASSUME NEW t \in Tasks, RetireDriver(t) PROVE StaffInv'
  <2>1. /\ task[t].at = "disabled" /\ task' = [task EXCEPT ![t] = Free]
        /\ deleted' = deleted \cup {task[t].p} /\ retired' = retired \cup {task[t].p}
        /\ UNCHANGED <<number, accountOf, phone, enabled, openedFor, renumbered, met>>
    BY <1>7 DEF RetireDriver, Gone, Ends, accounts
  <2>2. deleted' \subseteq People /\ retired' \subseteq deleted'
    BY <1>0, <1>4, <2>1 DEF StaffTypeOK
  <2>3. \A p \in retired' \ retired :
          task[t] # Free /\ task[t].p = p /\ (p \in met \/ accountOf[p] \notin enabled')
    BY <1>4, <2>1
  <2> QED
    BY <2>1, <2>2, <2>3, SwitchingOff
<1>8. ASSUME NEW t \in Tasks, Drop(t) PROVE StaffInv'
  <2>1. /\ task' = [task EXCEPT ![t] = Free]
        /\ UNCHANGED <<number, deleted, accountOf, phone, enabled, openedFor, renumbered, met, retired>>
    BY <1>8 DEF Drop, Ends, people, accounts, staffHistory
  <2>2. deleted' \subseteq People /\ retired' \subseteq deleted'
    BY <1>0, <2>1 DEF StaffTypeOK
  <2> QED
    BY <2>1, <2>2, SwitchingOff
<1>9. ASSUME NEW p \in People, SupplierDeletes(p) PROVE StaffInv'
  <2>1. /\ deleted' = deleted \cup {p}
        /\ UNCHANGED <<number, accountOf, phone, enabled, task, openedFor, renumbered, met, retired>>
    BY <1>9 DEF SupplierDeletes, accounts, staffHistory
  <2> QED
    BY <2>1 DEF StaffInv, StaffTypeOK, Unopened, OneAccountEach, Owned, Numbered, Undisturbed, Holds, Opens, Busy
<1>10. CASE UNCHANGED staffVars
  <2>1. UNCHANGED <<number, deleted, accountOf, phone, enabled, task, openedFor, renumbered, met, retired>>
    BY <1>10 DEF staffVars, people, accounts, staffHistory
  <2> QED
    BY <2>1 DEF StaffInv, StaffTypeOK, Unopened, OneAccountEach, Owned, Numbered, Undisturbed, Holds, Opens, Busy
<1> QED
  BY <1>1, <1>2, <1>3, <1>5, <1>6, <1>7, <1>8, <1>9, <1>10, OpenKeeps, ToggleKeeps, RenumberKeeps DEF StaffNext

LEMMA StaffInvariant == StaffSpec => []StaffInv
BY StaffInitHolds, StaffStepKeeps, PTL DEF StaffSpec

\* People, accounts and requests stay of their kind, and who was retired is gone.
THEOREM StaffTypes == StaffSpec => []StaffTypeOK
<1>1. StaffInv => StaffTypeOK
  BY DEF StaffInv
<1> QED
  BY <1>1, StaffInvariant, PTL

\* However many requests open accounts at once, an account is its person's and the only one,
\* unless the number changed meanwhile.
THEOREM NoSecondAccount == StaffSpec => []OneAccountEach
<1>1. StaffInv => OneAccountEach
  BY DEF StaffInv
<1> QED
  BY <1>1, StaffInvariant, PTL

\* Who was deleted stays logged out, unless two requests met at the person.
THEOREM RetiredStayOut == StaffSpec => []RetiredAreOut
<1>1. StaffInv => RetiredAreOut
  BY DEF StaffInv, StaffTypeOK, Undisturbed, RetiredAreOut
<1> QED
  BY <1>1, StaffInvariant, PTL

-----------------------------------------------------------------------------
(***************************************************************************)
(* The vehicles of a driver.                                               *)
(***************************************************************************)

Assignments ==
    {NoAssignment}
    \cup [at : {"unset", "create"}, d : Chauffeurs, v : Vehicles, primary : BOOLEAN]

Alone(d) ==
    /\ \A s, o \in Assigners : Assigns(s, d) /\ Assigns(o, d) => s = o
    /\ \A s \in Assigners :
         Assigns(s, d) /\ assigning[s].at = "create" /\ assigning[s].primary
         => \A v \in Vehicles : pair[d][v] # "primary"

VehiclesInv ==
    /\ pair \in [Chauffeurs -> [Vehicles -> PairStates]]
    /\ assigning \in [Assigners -> Assignments]
    /\ crowded \subseteq Chauffeurs
    /\ OnePrimary
    /\ \A d \in Chauffeurs \ crowded : Alone(d)

LEMMA AssignmentKinds ==
    /\ NoAssignment \in Assignments /\ NoAssignment.at = "none"
    /\ \A r \in Assignments : r.at # "none" =>
          /\ r # NoAssignment /\ r.d \in Chauffeurs /\ r.v \in Vehicles /\ r.primary \in BOOLEAN
          /\ [r EXCEPT !.at = "create"] \in Assignments
          /\ [r EXCEPT !.at = "create"].at = "create"
          /\ [r EXCEPT !.at = "create"].d = r.d /\ [r EXCEPT !.at = "create"].primary = r.primary
          /\ [r EXCEPT !.at = "create"] # NoAssignment
BY DEF Assignments, NoAssignment

LEMMA VehiclesInitHolds == VehiclesInit => VehiclesInv
BY AssignmentKinds DEF VehiclesInit, VehiclesInv, OnePrimary, Alone, Assigns, PairStates

LEMMA VehiclesStepKeeps == VehiclesInv /\ [VehiclesNext]_vehiclesVars => VehiclesInv'
<1> SUFFICES ASSUME VehiclesInv, [VehiclesNext]_vehiclesVars PROVE VehiclesInv'
  OBVIOUS
<1>0. /\ pair \in [Chauffeurs -> [Vehicles -> PairStates]] /\ assigning \in [Assigners -> Assignments]
      /\ crowded \subseteq Chauffeurs /\ OnePrimary /\ \A d \in Chauffeurs \ crowded : Alone(d)
  BY DEF VehiclesInv
<1>1. ASSUME NEW s \in Assigners, NEW d \in Chauffeurs, NEW v \in Vehicles, NEW primary \in BOOLEAN,
             AssignLoad(s, d, v, primary)
      PROVE  VehiclesInv'
  <2> DEFINE r == [at |-> IF primary THEN "unset" ELSE "create", d |-> d, v |-> v, primary |-> primary]
  <2>1. r \in Assignments /\ r.d = d /\ (r.at = "create" => ~r.primary) /\ r # NoAssignment
    BY AssignmentKinds DEF Assignments
  <2>2. /\ assigning' = [assigning EXCEPT ![s] = r] /\ assigning[s] = NoAssignment /\ pair' = pair
        /\ crowded \subseteq crowded' /\ crowded' \subseteq crowded \cup {d}
        /\ ((\E o \in Assigners : Assigns(o, d)) => d \in crowded')
    BY <1>1 DEF AssignLoad
  <2> HIDE DEF r
  <2>3. assigning' \in [Assigners -> Assignments] /\ assigning'[s] = r /\ \A o \in Assigners \ {s} : assigning'[o] = assigning[o]
    BY <1>0, <2>1, <2>2
  <2>4. OnePrimary'
    BY <1>0, <2>2 DEF OnePrimary
  <2>5. ASSUME NEW e \in Chauffeurs \ crowded' PROVE Alone(e)'
    <3>1. Alone(e) /\ ~Assigns(s, e) /\ (e = d => \A o \in Assigners : ~Assigns(o, e))
      BY <1>0, <2>2 DEF Assigns
    <3>2. \A o \in Assigners : Assigns(o, e)' <=> IF o = s THEN e = d ELSE Assigns(o, e)
      BY <2>1, <2>3 DEF Assigns
    <3> QED
      BY <2>1, <2>2, <2>3, <3>1, <3>2 DEF Alone
  <2> QED
    BY <1>0, <2>2, <2>3, <2>4, <2>5 DEF VehiclesInv
<1>2. ASSUME NEW s \in Assigners, UnsetPrimary(s) PROVE VehiclesInv'
  <2> DEFINE r == [assigning[s] EXCEPT !.at = "create"]
             d == assigning[s].d
  <2>1. r \in Assignments /\ r.d = d /\ d \in Chauffeurs /\ r # NoAssignment /\ Assigns(s, d)
    BY <1>0, <1>2, AssignmentKinds DEF UnsetPrimary, Assigns
  <2>2. /\ assigning' = [assigning EXCEPT ![s] = r] /\ crowded' = crowded
        /\ pair' = [pair EXCEPT ![d] = [v \in Vehicles |-> Demoted(@[v])]]
    BY <1>2 DEF UnsetPrimary
  <2>3. \A o \in Assigners, e \in Chauffeurs : Assigns(o, e)' <=> Assigns(o, e)
    BY <1>0, <2>1, <2>2 DEF Assigns
  <2> HIDE DEF r, d
  <2>4. /\ pair' \in [Chauffeurs -> [Vehicles -> PairStates]]
        /\ \A v \in Vehicles : pair'[d][v] # "primary"
        /\ \A e \in Chauffeurs \ {d} : pair'[e] = pair[e]
    BY <1>0, <2>1, <2>2 DEF Demoted, PairStates
  <2>5. OnePrimary'
    BY <1>0, <2>2, <2>4 DEF OnePrimary
  <2>6. ASSUME NEW e \in Chauffeurs \ crowded PROVE Alone(e)'
    <3>1. Alone(e)
      BY <1>0
    <3>2. CASE e = d
      BY <2>3, <2>4, <3>1, <3>2 DEF Alone
    <3>3. CASE e # d
      <4>1. \A o \in Assigners : Assigns(o, e) => o # s
        BY <2>1, <3>3 DEF Assigns, d
      <4> QED
        BY <1>0, <2>2, <2>3, <2>4, <3>1, <3>3, <4>1 DEF Alone
    <3> QED
      BY <3>2, <3>3
  <2> QED
    BY <1>0, <2>1, <2>2, <2>4, <2>5, <2>6 DEF VehiclesInv
<1>3. ASSUME NEW s \in Assigners, CreatePair(s) \/ FailToAssign(s) PROVE VehiclesInv'
  <2> DEFINE r == assigning[s]
             state == IF r.primary THEN "primary" ELSE "other"
  <2>1. assigning' = [assigning EXCEPT ![s] = NoAssignment] /\ crowded' = crowded
    BY <1>3 DEF CreatePair, FailToAssign
  <2>2. assigning' \in [Assigners -> Assignments] /\ assigning'[s] = NoAssignment
        /\ \A o \in Assigners \ {s} : assigning'[o] = assigning[o]
    BY <1>0, <2>1, AssignmentKinds
  <2>3. \A o \in Assigners, e \in Chauffeurs : Assigns(o, e)' => Assigns(o, e) /\ o # s
    BY <2>2 DEF Assigns
  <2>4. CASE FailToAssign(s)
    <3>1. pair' = pair
      BY <2>4 DEF FailToAssign
    <3> QED
      BY <1>0, <2>1, <2>2, <2>3, <3>1 DEF VehiclesInv, OnePrimary, Alone
  <2>5. CASE CreatePair(s)
    <3>1. r.at = "create" /\ r.d \in Chauffeurs /\ r.v \in Vehicles /\ Assigns(s, r.d) /\ state \in PairStates
      BY <1>0, <2>5, AssignmentKinds DEF CreatePair, Assigns, PairStates
    <3>2. pair' = [pair EXCEPT ![r.d][r.v] = state]
      BY <2>5 DEF CreatePair
    <3>3. /\ pair' \in [Chauffeurs -> [Vehicles -> PairStates]]
          /\ \A e \in Chauffeurs, v \in Vehicles :
               pair'[e][v] = IF e = r.d /\ v = r.v THEN state ELSE pair[e][v]
      BY <1>0, <3>1, <3>2
    <3>4. ASSUME NEW e \in Chauffeurs \ crowded, NEW v \in Vehicles, NEW w \in Vehicles,
                 pair'[e][v] = "primary", pair'[e][w] = "primary"
          PROVE  v = w
      BY <1>0, <3>1, <3>3, <3>4 DEF OnePrimary, Alone
    <3>5. ASSUME NEW e \in Chauffeurs \ crowded PROVE Alone(e)'
      <4>1. Alone(e)
        BY <1>0
      <4>2. CASE e = r.d
        <5>1. \A o \in Assigners : ~Assigns(o, e)'
          BY <2>3, <3>1, <4>1, <4>2 DEF Alone
        <5> QED
          BY <5>1 DEF Alone
      <4>3. CASE e # r.d
        BY <2>2, <2>3, <3>3, <4>1, <4>3 DEF Alone
      <4> QED
        BY <4>2, <4>3
    <3> QED
      BY <1>0, <2>1, <2>2, <3>3, <3>4, <3>5 DEF VehiclesInv, OnePrimary
  <2> QED
    BY <1>3, <2>4, <2>5
<1>4. ASSUME NEW d \in Chauffeurs, NEW v \in Vehicles, Unassign(d, v) PROVE VehiclesInv'
  <2>1. pair' = [pair EXCEPT ![d][v] = "ended"] /\ assigning' = assigning /\ crowded' = crowded
    BY <1>4 DEF Unassign
  <2>2. /\ pair' \in [Chauffeurs -> [Vehicles -> PairStates]]
        /\ \A e \in Chauffeurs, w \in Vehicles : pair'[e][w] = "primary" => pair[e][w] = "primary"
    BY <1>0, <2>1 DEF PairStates
  <2> QED
    BY <1>0, <2>1, <2>2 DEF VehiclesInv, OnePrimary, Alone, Assigns
<1>5. CASE UNCHANGED vehiclesVars
  BY <1>5 DEF vehiclesVars, VehiclesInv, OnePrimary, Alone, Assigns
<1> QED
  BY <1>1, <1>2, <1>3, <1>4, <1>5 DEF VehiclesNext

\* A driver never has two primary vehicles by requests that take turns.
THEOREM NoTwoPrimaries == VehiclesSpec => []OnePrimary
<1>1. VehiclesInv => OnePrimary
  BY DEF VehiclesInv
<1> QED
  BY <1>1, VehiclesInitHolds, VehiclesStepKeeps, PTL DEF VehiclesSpec

=============================================================================
