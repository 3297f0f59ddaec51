-------------------------- MODULE Reminders_proofs --------------------------
(***************************************************************************)
(* Proofs about Reminders for any number of jobs and of runs in progress.  *)
(*                                                                         *)
(* IInv adds to the types what a run relies on between its look at the log *)
(* and its last write: as long as no two runs were at a job at once, only  *)
(* it is at the job, the log does not say that a message was sent, and the *)
(* only message the log may come to know of is the one it just sent.       *)
(***************************************************************************)
EXTENDS Reminders, TLAPS, FiniteSetTheorems

\* Messages sent and not logged yet are among those that are to be logged.
Counted == \A j \in Jobs : Cardinality(Unlogged(j)) <= known[j]

\* A job that one run at a time was at.
OneAtATime(j) ==
    /\ \A r, o \in Runs : On(r, j) /\ On(o, j) => r = o
    /\ \A r \in Runs : On(r, j) => log[j] # "SENT"
    /\ known[j] <= 1
    /\ log[j] # "SENT" /\ Unlogged(j) = {} => known[j] = 0

IInv == RemindersTypeOK /\ Counted /\ \A j \in Jobs \ overlapped : OneAtATime(j)

-----------------------------------------------------------------------------
LEMMA Kinds ==
    ASSUME NEW s \in RunStates
    PROVE  /\ s.at = "resting" <=> s = Resting
           /\ s.at = "next" => s.left \subseteq Jobs
           /\ s.at \in {"send", "sent", "failed"} => s.left \subseteq Jobs /\ s.job \in Jobs
BY DEF RunStates, Resting

LEMMA RestingIsOne == Resting \in RunStates /\ Resting.at = "resting"
BY DEF Resting, RunStates

LEMMA NextStates ==
    ASSUME NEW left \in SUBSET Jobs
    PROVE  /\ [at |-> "next", left |-> left] \in RunStates
           /\ \A at \in {"send", "sent", "failed"}, j \in Jobs :
                [at |-> at, left |-> left, job |-> j] \in RunStates
BY DEF RunStates

\* A run that takes a step keeps what it does not write.
LEMMA Stepped ==
    ASSUME NEW s \in RunStates, s.at \in {"send", "sent"}, NEW at \in {"sent", "failed"}
    PROVE  LET t == [s EXCEPT !.at = at] IN
           t \in RunStates /\ t.at = at /\ t.job = s.job /\ t.left = s.left
<1>1. s \in [at : {"send", "sent", "failed"}, left : SUBSET Jobs, job : Jobs]
  BY DEF RunStates, Resting
<1> QED
  BY <1>1 DEF RunStates

LEMMA Finite == \A j : IsFiniteSet(Unlogged(j)) /\ Cardinality(Unlogged(j)) \in Nat
<1> TAKE j
<1>1. Unlogged(j) \in SUBSET Runs
  BY DEF Unlogged
<1> QED
  BY <1>1, HoursAssumption, FS_Subset, FS_CardinalityType

LEMMA Removed ==
    ASSUME NEW j, NEW r
    PROVE  /\ Cardinality(Unlogged(j) \ {r}) \in Nat
           /\ Cardinality(Unlogged(j) \ {r}) =
                IF r \in Unlogged(j) THEN Cardinality(Unlogged(j)) - 1 ELSE Cardinality(Unlogged(j))
           /\ Cardinality(Unlogged(j) \ {r}) <= Cardinality(Unlogged(j))
<1>1. IsFiniteSet(Unlogged(j)) /\ Cardinality(Unlogged(j)) \in Nat
  BY Finite
<1>2. /\ IsFiniteSet(Unlogged(j) \ {r})
      /\ Cardinality(Unlogged(j) \ {r}) =
           IF r \in Unlogged(j) THEN Cardinality(Unlogged(j)) - 1 ELSE Cardinality(Unlogged(j))
  BY <1>1, FS_RemoveElement
<1>3. Cardinality(Unlogged(j) \ {r}) \in Nat
  BY <1>2, FS_CardinalityType
<1> QED
  BY <1>1, <1>2, <1>3

\* Where one run goes on, who is at a job changes for that run only.
LEMMA GoesOn ==
    ASSUME RemindersTypeOK, NEW r \in Runs, NEW s \in RunStates, Go(r, s)
    PROVE  /\ run' \in [Runs -> RunStates] /\ run'[r] = s
           /\ \A o \in Runs \ {r} : run'[o] = run[o]
           /\ \A o \in Runs \ {r}, j \in Jobs : On(o, j)' <=> On(o, j)
           /\ \A j \in Jobs : On(r, j)' <=> s.at \in {"send", "sent", "failed"} /\ s.job = j
           /\ \A j \in Jobs : Unlogged(j)' =
                IF s.at = "sent" /\ s.job = j THEN Unlogged(j) \cup {r} ELSE Unlogged(j) \ {r}
BY DEF RemindersTypeOK, Go, On, AtJob, Unlogged

\* A run that sets out for jobs, skips one or leaves one, and nothing else of note.
LEMMA RunKeeps ==
    ASSUME IInv, NEW r \in Runs, NEW s \in RunStates, Go(r, s), run[r].at # "sent",
           s.at \in {"resting", "next"},
           log' = log, known' = known, overlapped \subseteq overlapped', overlapped' \subseteq Jobs
    PROVE  /\ run' \in [Runs -> RunStates]
           /\ \A o \in Runs : AtJob(o)' => run'[o].job \notin run'[o].left
           /\ Counted' /\ \A j \in Jobs \ overlapped' : OneAtATime(j)'
<1>0. RemindersTypeOK /\ Counted /\ \A j \in Jobs \ overlapped : OneAtATime(j)
  BY DEF IInv
<1>1. \A j \in Jobs : Unlogged(j)' = Unlogged(j) /\ ~On(r, j)'
  BY <1>0, GoesOn DEF Unlogged
<1>2. \A o \in Runs, j \in Jobs : On(o, j)' => On(o, j)
  BY <1>0, <1>1, GoesOn
<1>3. Counted'
  BY <1>0, <1>1 DEF Counted
<1>4. \A j \in Jobs \ overlapped' : OneAtATime(j)'
  BY <1>0, <1>1, <1>2 DEF OneAtATime
<1>5. \A o \in Runs : AtJob(o)' => run'[o].job \notin run'[o].left
  BY <1>0, GoesOn DEF RemindersTypeOK, AtJob
<1> QED
  BY <1>0, <1>3, <1>4, <1>5, GoesOn

LEMMA InitHolds == RemindersInit => IInv
<1> SUFFICES ASSUME RemindersInit PROVE IInv
  OBVIOUS
<1>1. \A r \in Runs : run[r] = Resting /\ ~AtJob(r)
  BY RestingIsOne DEF RemindersInit, AtJob
<1>2. \A j \in Jobs : Unlogged(j) = {} /\ \A r \in Runs : ~On(r, j)
  BY <1>1, RestingIsOne DEF Unlogged, On
<1>3. RemindersTypeOK
  <2>1. 0 \in 0 .. Hours - 1
    BY HoursAssumption
  <2>2. run \in [Runs -> RunStates]
    BY RestingIsOne DEF RemindersInit
  <2> QED
    BY <1>1, <2>1, <2>2 DEF RemindersInit, RemindersTypeOK
<1>4. Counted
  BY <1>2, FS_EmptySet DEF RemindersInit, Counted
<1>5. \A j \in Jobs : OneAtATime(j)
  BY <1>2 DEF RemindersInit, OneAtATime
<1> QED
  BY <1>3, <1>4, <1>5 DEF IInv

-----------------------------------------------------------------------------
(***************************************************************************)
(* One lemma for each step of a run.                                       *)
(***************************************************************************)

LEMMA CheckKeeps ==
    ASSUME IInv, NEW r \in Runs, NEW j \in Jobs, Check(r, j)
    PROVE  IInv'
<1> DEFINE left == run[r].left \ {j}
           there == [at |-> "send", left |-> left, job |-> j]
           past == [at |-> "next", left |-> left]
<1>0. RemindersTypeOK /\ Counted /\ \A i \in Jobs \ overlapped : OneAtATime(i)
  BY DEF IInv
<1>1. run[r].at = "next" /\ left \subseteq Jobs /\ j \notin left /\ \A i \in Jobs : ~On(r, i)
  BY <1>0, Kinds DEF Check, RemindersTypeOK, On, AtJob
<1>2. overlapped \subseteq overlapped' /\ overlapped' \subseteq Jobs /\ known' = known /\ log' = log
      /\ UNCHANGED <<clock, aborted>> /\ ((\E o \in Runs : On(o, j)) => j \in overlapped')
  BY <1>0 DEF Check, RemindersTypeOK
<1>3. CASE Skips(log[j])
  <2>1. Go(r, past) /\ past \in RunStates /\ past.at = "next"
    BY <1>1, <1>3, NextStates DEF Check, After
  <2> HIDE DEF past
  <2>2. /\ run' \in [Runs -> RunStates]
        /\ \A o \in Runs : AtJob(o)' => run'[o].job \notin run'[o].left
        /\ Counted' /\ \A i \in Jobs \ overlapped' : OneAtATime(i)'
    BY <1>1, <1>2, <2>1, RunKeeps
  <2> QED
    BY <1>0, <1>2, <2>2 DEF IInv, RemindersTypeOK, clock
<1>4. CASE ~Skips(log[j])
  <2>1. Go(r, there) /\ there \in RunStates /\ there.at = "send" /\ there.job = j /\ there.left = left
    BY <1>1, <1>4, NextStates DEF Check, After
  <2> HIDE DEF there
  <2>2. log[j] # "SENT"
    BY <1>4 DEF Skips
  <2>3. \A i \in Jobs : Unlogged(i)' = Unlogged(i)
    BY <1>0, <1>1, <2>1, GoesOn DEF Unlogged
  <2>4. \A i \in Jobs \ overlapped' : OneAtATime(i)'
    <3> SUFFICES ASSUME NEW i \in Jobs \ overlapped' PROVE OneAtATime(i)'
      OBVIOUS
    <3>1. OneAtATime(i) /\ (i = j => \A o \in Runs : ~On(o, i))
      BY <1>0, <1>2
    <3>2. \A o \in Runs : On(o, i)' <=> (IF o = r THEN i = j ELSE On(o, i))
      BY <1>0, <2>1, GoesOn
    <3>3. (\A o, p \in Runs : On(o, i) /\ On(p, i) => o = p)'
      BY <1>1, <3>1, <3>2 DEF OneAtATime
    <3>4. (\A o \in Runs : On(o, i) => log[i] # "SENT")'
      BY <1>2, <2>2, <3>1, <3>2 DEF OneAtATime
    <3> QED
      BY <1>2, <2>3, <3>1, <3>3, <3>4 DEF OneAtATime
  <2>5. \A o \in Runs : AtJob(o)' => run'[o].job \notin run'[o].left
    BY <1>0, <1>1, <2>1, GoesOn DEF RemindersTypeOK, AtJob
  <2>6. Counted'
    BY <1>0, <1>2, <2>3 DEF Counted
  <2> QED
    BY <1>0, <1>2, <2>1, <2>4, <2>5, <2>6, GoesOn DEF IInv, RemindersTypeOK, clock
<1> QED
  BY <1>3, <1>4

LEMMA SendKeeps ==
    ASSUME IInv, NEW r \in Runs, NEW answered \in BOOLEAN, Send(r, answered)
    PROVE  IInv'
<1> DEFINE s == [run[r] EXCEPT !.at = IF answered THEN "sent" ELSE "failed"]
           j == run[r].job
<1>0. RemindersTypeOK /\ Counted /\ \A i \in Jobs \ overlapped : OneAtATime(i)
  BY DEF IInv
<1>1. /\ run[r].at = "send" /\ run[r] \in RunStates /\ j \in Jobs /\ On(r, j)
      /\ \A i \in Jobs : On(r, i) => i = j
  BY <1>0, Kinds DEF Send, RemindersTypeOK, On, AtJob
<1>2. Go(r, s) /\ s \in RunStates /\ s.at = (IF answered THEN "sent" ELSE "failed")
      /\ s.job = j /\ s.left = run[r].left
  BY <1>1, Stepped DEF Send, Step
<1>3. /\ log' = log /\ overlapped' = overlapped /\ UNCHANGED <<clock, aborted>>
      /\ known' = IF answered THEN [known EXCEPT ![j] = @ + 1] ELSE known
  BY DEF Send
<1> HIDE DEF s
<1>4. \A o \in Runs, i \in Jobs : On(o, i)' <=> On(o, i)
  BY <1>0, <1>1, <1>2, GoesOn
<1>5. \A i \in Jobs : Unlogged(i)' = IF answered /\ i = j THEN Unlogged(i) \cup {r} ELSE Unlogged(i)
  BY <1>0, <1>1, <1>2, GoesOn DEF Unlogged
<1> HIDE DEF j
<1>6. known' \in [Jobs -> Nat] /\ \A i \in Jobs : known'[i] = IF answered /\ i = j THEN known[i] + 1 ELSE known[i]
  BY <1>0, <1>1, <1>3 DEF RemindersTypeOK
<1>7. \A o \in Runs : AtJob(o)' => run'[o].job \notin run'[o].left
  BY <1>0, <1>1, <1>2, GoesOn DEF RemindersTypeOK, AtJob, j
<1>8. RemindersTypeOK'
  BY <1>0, <1>2, <1>3, <1>6, <1>7, GoesOn DEF RemindersTypeOK, clock
<1>9. Counted'
  <2> SUFFICES ASSUME NEW i \in Jobs PROVE Cardinality(Unlogged(i))' <= known'[i]
    BY DEF Counted
  <2>1. Cardinality(Unlogged(i)) <= known[i] /\ known[i] \in Nat /\ Cardinality(Unlogged(i)) \in Nat
    BY <1>0, Finite DEF Counted, RemindersTypeOK
  <2>2. Cardinality(Unlogged(i) \cup {r}) <= Cardinality(Unlogged(i)) + 1
    BY <2>1, Finite, FS_AddElement
  <2>3. Cardinality(Unlogged(i) \cup {r}) \in Nat
    BY Finite, FS_AddElement, FS_CardinalityType
  <2> QED
    BY <1>5, <1>6, <2>1, <2>2, <2>3
<1>10. ASSUME NEW i \in Jobs \ overlapped PROVE OneAtATime(i)'
  <2>1. OneAtATime(i) /\ known[i] \in Nat
    BY <1>0 DEF RemindersTypeOK
  <2>2. i = j => log[i] # "SENT" /\ Unlogged(i) = {} /\ known[i] = 0
    <3>1. SUFFICES ASSUME i = j PROVE log[i] # "SENT" /\ Unlogged(i) = {} /\ known[i] = 0
      OBVIOUS
    <3>2. log[i] # "SENT"
      BY <1>1, <2>1, <3>1 DEF OneAtATime
    <3>3. \A o \in Runs : On(o, i) => o = r
      BY <1>1, <2>1, <3>1 DEF OneAtATime
    <3>4. Unlogged(i) = {}
      BY <1>1, <3>1, <3>3 DEF Unlogged, On, AtJob
    <3> QED
      BY <2>1, <3>2, <3>4 DEF OneAtATime
  <2>3. known'[i] <= 1
    BY <1>6, <2>1, <2>2 DEF OneAtATime
  <2>4. (log[i] # "SENT" /\ Unlogged(i) = {} => known[i] = 0)'
    BY <1>3, <1>5, <1>6, <2>1, <2>2 DEF OneAtATime
  <2>5. (\A o, p \in Runs : On(o, i) /\ On(p, i) => o = p)' /\ (\A o \in Runs : On(o, i) => log[i] # "SENT")'
    BY <1>3, <1>4, <2>1 DEF OneAtATime
  <2> QED
    BY <2>3, <2>4, <2>5 DEF OneAtATime
<1> QED
  BY <1>3, <1>8, <1>9, <1>10 DEF IInv

\* What is logged is that of the run at the job: a message that was sent, or a failure.
LEMMA LogKeeps ==
    ASSUME IInv, NEW r \in Runs, NEW entry,
           (LogSent(r) /\ entry = "SENT") \/ (LogFailed(r) /\ entry = "FAILED")
    PROVE  IInv'
<1> DEFINE s == [at |-> "next", left |-> run[r].left]
           j == run[r].job
<1>0. RemindersTypeOK /\ Counted /\ \A i \in Jobs \ overlapped : OneAtATime(i)
  BY DEF IInv
<1>1. /\ run[r].at = IF entry = "SENT" THEN "sent" ELSE "failed"
      /\ run[r] \in RunStates /\ entry \in {"SENT", "FAILED"}
  BY <1>0 DEF LogSent, LogFailed, RemindersTypeOK
<1>2. j \in Jobs /\ run[r].left \subseteq Jobs /\ On(r, j) /\ \A i \in Jobs : On(r, i) => i = j
  BY <1>1, Kinds DEF On, AtJob
<1>3. Go(r, s) /\ s \in RunStates /\ s.at = "next" /\ log' = [log EXCEPT ![j] = entry]
      /\ UNCHANGED <<clock, history>>
  BY <1>2, NextStates DEF LogSent, LogFailed, Next1, AfterFailure
<1> HIDE DEF s
<1>4. \A o \in Runs, i \in Jobs : On(o, i)' <=> On(o, i) /\ o # r
  BY <1>0, <1>3, GoesOn
<1>5. \A i \in Jobs : Unlogged(i)' = Unlogged(i) \ {r}
  BY <1>0, <1>3, GoesOn
<1>6. \A i \in Jobs : r \in Unlogged(i) <=> i = j /\ entry = "SENT"
  BY <1>1 DEF Unlogged
<1> HIDE DEF j
<1>7. log' \in [Jobs -> {"NONE", "SENT", "FAILED"}] /\ log'[j] = entry /\ \A i \in Jobs \ {j} : log'[i] = log[i]
  BY <1>0, <1>1, <1>2, <1>3 DEF RemindersTypeOK
<1>8. \A o \in Runs : AtJob(o)' => run'[o].job \notin run'[o].left
  BY <1>0, <1>3, GoesOn DEF RemindersTypeOK, AtJob
<1>9. RemindersTypeOK'
  BY <1>0, <1>3, <1>7, <1>8, GoesOn DEF RemindersTypeOK, clock, history
<1>10. Counted'
  <2> SUFFICES ASSUME NEW i \in Jobs PROVE Cardinality(Unlogged(i))' <= known'[i]
    BY DEF Counted
  <2>1. Cardinality(Unlogged(i)) <= known[i] /\ known[i] \in Nat /\ Cardinality(Unlogged(i)) \in Nat
    BY <1>0, Finite DEF Counted, RemindersTypeOK
  <2>2. Cardinality(Unlogged(i) \ {r}) <= Cardinality(Unlogged(i)) /\ Cardinality(Unlogged(i) \ {r}) \in Nat
    BY <2>1, Removed
  <2> QED
    BY <1>3, <1>5, <2>1, <2>2 DEF history
<1>11. ASSUME NEW i \in Jobs \ overlapped PROVE OneAtATime(i)'
  <2>1. OneAtATime(i) /\ known'[i] = known[i]
    BY <1>0, <1>3 DEF history
  <2>2. CASE i = j
    <3>1. (\A o \in Runs : ~On(o, i))'
      BY <1>2, <1>4, <2>1, <2>2 DEF OneAtATime
    <3>2. entry = "FAILED" => log[i] # "SENT" /\ Unlogged(i) = {}
      <4>1. SUFFICES ASSUME entry = "FAILED" PROVE log[i] # "SENT" /\ Unlogged(i) = {}
        OBVIOUS
      <4>2. log[i] # "SENT" /\ \A o \in Runs : On(o, i) => o = r
        BY <1>2, <2>1, <2>2 DEF OneAtATime
      <4>3. \A o \in Unlogged(i) : o \in Runs /\ On(o, i)
        BY DEF Unlogged, On, AtJob
      <4> QED
        BY <1>6, <4>1, <4>2, <4>3
    <3> QED
      BY <1>1, <1>7, <2>1, <2>2, <3>1, <3>2 DEF OneAtATime
  <2>3. CASE i # j
    <3>1. Unlogged(i)' = Unlogged(i) /\ log'[i] = log[i]
      BY <1>5, <1>6, <1>7, <2>3
    <3> QED
      BY <1>4, <2>1, <3>1 DEF OneAtATime
  <2> QED
    BY <2>2, <2>3
<1> QED
  BY <1>3, <1>9, <1>10, <1>11 DEF IInv, history

LEMMA LogSentFailsKeeps ==
    ASSUME IInv, NEW r \in Runs, LogSentFails(r)
    PROVE  IInv'
<1> DEFINE s == [run[r] EXCEPT !.at = "failed"]
           j == run[r].job
<1>0. RemindersTypeOK /\ Counted /\ \A i \in Jobs \ overlapped : OneAtATime(i)
  BY DEF IInv
<1>1. /\ run[r].at = "sent" /\ run[r] \in RunStates /\ j \in Jobs /\ On(r, j) /\ r \in Unlogged(j)
      /\ \A i \in Jobs : On(r, i) => i = j
  BY <1>0, Kinds DEF LogSentFails, RemindersTypeOK, On, AtJob, Unlogged
<1>2. Go(r, s) /\ s \in RunStates /\ s.at = "failed" /\ s.job = j /\ s.left = run[r].left
  BY <1>1, Stepped DEF LogSentFails, Step
<1>3. /\ log' = log /\ overlapped' = overlapped /\ UNCHANGED <<clock, aborted>>
      /\ known' = [known EXCEPT ![j] = @ - 1]
  BY DEF LogSentFails
<1> HIDE DEF s
<1>4. \A o \in Runs, i \in Jobs : On(o, i)' <=> On(o, i)
  BY <1>0, <1>1, <1>2, GoesOn
<1>5. \A i \in Jobs : Unlogged(i)' = Unlogged(i) \ {r} /\ (i # j => Unlogged(i)' = Unlogged(i))
  BY <1>0, <1>1, <1>2, GoesOn DEF Unlogged
<1> HIDE DEF j
<1>6. \A i \in Jobs : Cardinality(Unlogged(i)) <= known[i] /\ known[i] \in Nat /\ Cardinality(Unlogged(i)) \in Nat
  BY <1>0, Finite DEF Counted, RemindersTypeOK
<1>7. \A i \in Jobs : i = j =>
        Cardinality(Unlogged(i))' = Cardinality(Unlogged(i)) - 1 /\ Cardinality(Unlogged(i))' \in Nat
  BY <1>1, <1>5, Removed
<1>8. known[j] >= 1
  BY <1>1, <1>6, <1>7
<1>9. known' \in [Jobs -> Nat] /\ known'[j] = known[j] - 1 /\ \A i \in Jobs \ {j} : known'[i] = known[i]
  BY <1>0, <1>1, <1>3, <1>6, <1>8 DEF RemindersTypeOK
<1>10. \A o \in Runs : AtJob(o)' => run'[o].job \notin run'[o].left
  BY <1>0, <1>1, <1>2, GoesOn DEF RemindersTypeOK, AtJob, j
<1>11. RemindersTypeOK'
  BY <1>0, <1>2, <1>3, <1>9, <1>10, GoesOn DEF RemindersTypeOK, clock
<1>12. Counted'
  <2> SUFFICES ASSUME NEW i \in Jobs PROVE Cardinality(Unlogged(i))' <= known'[i]
    BY DEF Counted
  <2>1. CASE i = j
    BY <1>1, <1>6, <1>7, <1>9, <2>1
  <2>2. CASE i # j
    <3>1. Cardinality(Unlogged(i))' = Cardinality(Unlogged(i))
      BY <1>5, <2>2
    <3> QED
      BY <1>6, <1>9, <2>2, <3>1
  <2> QED
    BY <2>1, <2>2
<1>13. ASSUME NEW i \in Jobs \ overlapped PROVE OneAtATime(i)'
  <2>1. OneAtATime(i)
    BY <1>0
  <2>2. (\A o, p \in Runs : On(o, i) /\ On(p, i) => o = p)' /\ (\A o \in Runs : On(o, i) => log[i] # "SENT")'
    BY <1>3, <1>4, <2>1 DEF OneAtATime
  <2>3. known'[i] <= 1 /\ (log[i] # "SENT" /\ Unlogged(i) = {} => known[i] = 0)'
    BY <1>1, <1>3, <1>5, <1>6, <1>8, <1>9, <2>1 DEF OneAtATime
  <2> QED
    BY <2>2, <2>3 DEF OneAtATime
<1> QED
  BY <1>3, <1>11, <1>12, <1>13 DEF IInv

\* The server dies, and with it the records of the messages that were not logged yet.
LEMMA CrashKeeps ==
    ASSUME IInv, Crash
    PROVE  IInv'
<1>0. RemindersTypeOK /\ Counted /\ \A i \in Jobs \ overlapped : OneAtATime(i)
  BY DEF IInv
<1>1. /\ run' = [r \in Runs |-> Resting] /\ log' = log /\ overlapped' = overlapped /\ UNCHANGED clock
      /\ known' = [j \in Jobs |-> known[j] - Cardinality(Unlogged(j))]
      /\ aborted' = aborted \cup UNION {ToDo(r) : r \in Runs}
  BY DEF Crash
<1>2. /\ \A r \in Runs : ~AtJob(r)' /\ \A j \in Jobs : ~On(r, j)'
      /\ \A j \in Jobs : Unlogged(j)' = {}
  BY <1>1, RestingIsOne DEF AtJob, On, Unlogged
<1>3. \A j \in Jobs : Cardinality(Unlogged(j)) <= known[j] /\ known[j] \in Nat /\ Cardinality(Unlogged(j)) \in Nat
  BY <1>0, Finite DEF Counted, RemindersTypeOK
<1>4. known' \in [Jobs -> Nat] /\ \A j \in Jobs : known'[j] = known[j] - Cardinality(Unlogged(j))
  BY <1>1, <1>3
<1>5. \A r \in Runs : ToDo(r) \subseteq Jobs
  BY <1>0, Kinds DEF RemindersTypeOK, ToDo, RunStates, Resting
<1>6. RemindersTypeOK'
  BY <1>0, <1>1, <1>2, <1>4, <1>5, RestingIsOne DEF RemindersTypeOK, clock
<1>7. Counted'
  BY <1>2, <1>4, FS_EmptySet DEF Counted
<1>8. ASSUME NEW j \in Jobs \ overlapped PROVE OneAtATime(j)'
  <2>1. OneAtATime(j)
    BY <1>0
  <2>2. Unlogged(j) # {} => Cardinality(Unlogged(j)) >= 1
    BY <1>3, Finite, FS_EmptySet
  <2>3. Unlogged(j) = {} => Cardinality(Unlogged(j)) = 0
    BY FS_EmptySet
  <2>4. known'[j] <= 1 /\ (log[j] # "SENT" => known'[j] = 0)
    BY <1>3, <1>4, <2>1, <2>2, <2>3 DEF OneAtATime
  <2> QED
    BY <1>1, <1>2, <2>4 DEF OneAtATime
<1> QED
  BY <1>1, <1>6, <1>7, <1>8 DEF IInv

\* The clock and the settings.
LEMMA ClockKeeps ==
    ASSUME IInv, (\E h \in (0 .. Hours - 1) \cup {Off} : SetHour(h)) \/ Hour
    PROVE  IInv'
<1>1. log' = log /\ run' = run /\ known' = known /\ overlapped' = overlapped /\ aborted' = aborted
  BY DEF SetHour, Hour, history
<1>2. hour' \in 0 .. Hours - 1 /\ fired' \in BOOLEAN /\ sendHour' \in (0 .. Hours - 1) \cup {Off}
  <2>1. hour \in 0 .. Hours - 1 /\ Hours \in Nat \ {0} /\ fired \in BOOLEAN /\ sendHour \in (0 .. Hours - 1) \cup {Off}
    BY HoursAssumption DEF IInv, RemindersTypeOK
  <2>2. (hour + 1) % Hours \in 0 .. Hours - 1
    BY <2>1
  <2> QED
    BY <2>1, <2>2 DEF SetHour, Hour
<1> QED
  BY <1>1, <1>2 DEF IInv, RemindersTypeOK, Counted, OneAtATime, Unlogged, On, AtJob

LEMMA StepKeeps == IInv /\ [RemindersNext]_remindersVars => IInv'
<1> SUFFICES ASSUME IInv, [RemindersNext]_remindersVars PROVE IInv'
  OBVIOUS
<1>0. RemindersTypeOK
  BY DEF IInv
<1>1. ASSUME NEW r \in Runs, NEW jobs \in SUBSET Jobs, Fire(r, jobs) PROVE IInv'
  <2> DEFINE s == [at |-> "next", left |-> jobs]
  <2>1. s \in RunStates /\ s.at = "next" /\ Go(r, s) /\ run[r].at # "sent"
    BY <1>1, NextStates, RestingIsOne DEF Fire
  <2>2. log' = log /\ known' = known /\ overlapped' = overlapped /\ aborted' = aborted
        /\ hour' = hour /\ sendHour' = sendHour /\ fired' = TRUE
    BY <1>1 DEF Fire, history
  <2> HIDE DEF s
  <2> QED
    BY <1>0, <2>1, <2>2, RunKeeps DEF IInv, RemindersTypeOK
<1>2. ASSUME NEW r \in Runs, Abort(r) \/ Finish(r) PROVE IInv'
  <2>1. /\ Go(r, Resting) /\ run[r].at # "sent" /\ log' = log /\ known' = known
        /\ overlapped' = overlapped /\ UNCHANGED clock /\ aborted' \subseteq aborted \cup ToDo(r)
    BY <1>2 DEF Abort, Finish, history
  <2>2. ToDo(r) \subseteq Jobs
    BY <1>0, Kinds DEF RemindersTypeOK, ToDo, RunStates, Resting
  <2> QED
    BY <1>0, <2>1, <2>2, RestingIsOne, RunKeeps DEF IInv, RemindersTypeOK, clock
<1>3. CASE UNCHANGED remindersVars
  <2>1. /\ log' = log /\ run' = run /\ known' = known /\ overlapped' = overlapped /\ aborted' = aborted
        /\ hour' = hour /\ fired' = fired /\ sendHour' = sendHour
    BY <1>3 DEF remindersVars, clock, history
  <2> QED
    BY <2>1 DEF IInv, RemindersTypeOK, Counted, OneAtATime, Unlogged, On, AtJob
<1>4. ASSUME NEW r \in Runs, LogSent(r) PROVE IInv'
  <2>1. (LogSent(r) /\ "SENT" = "SENT") \/ (LogFailed(r) /\ "SENT" = "FAILED")
    BY <1>4
  <2> QED
    BY <2>1, LogKeeps
<1>5. ASSUME NEW r \in Runs, LogFailed(r) PROVE IInv'
  BY <1>5, LogKeeps
<1>6. ASSUME NEW r \in Runs, Proceed(r) PROVE IInv'
  BY <1>2, <1>4, <1>5, <1>6, CheckKeeps, SendKeeps, LogSentFailsKeeps DEF Proceed
<1> QED
  BY <1>1, <1>3, <1>6, CrashKeeps, ClockKeeps DEF RemindersNext

-----------------------------------------------------------------------------
LEMMA Invariant == RemindersSpec => []IInv
BY InitHolds, StepKeeps, PTL DEF RemindersSpec

\* The log, the clock and the runs stay of their kind.
THEOREM RemindersTypes == RemindersSpec => []RemindersTypeOK
<1>1. IInv => RemindersTypeOK
  BY DEF IInv
<1> QED
  BY <1>1, Invariant, PTL

\* However many runs of the cron job overlap, fail or die, nobody is sent a message when the
\* log knows of one, unless two of them were at one job at once.
THEOREM RemindedOnce == RemindersSpec => []NobodyIsRemindedTwice
<1>1. IInv => NobodyIsRemindedTwice
  BY DEF IInv, NobodyIsRemindedTwice, OneAtATime
<1> QED
  BY <1>1, Invariant, PTL

\* A failure is never written over a message that was sent.
THEOREM NoReminderIsForgotten == RemindersSpec => SentStaysSent
<1>1. IInv /\ [RemindersNext]_remindersVars
      => [\A j \in Jobs \ overlapped : log[j] = "SENT" => log'[j] = "SENT"]_remindersVars
  <2> SUFFICES ASSUME IInv, RemindersNext, NEW j \in Jobs \ overlapped, log[j] = "SENT"
               PROVE  log'[j] = "SENT"
    OBVIOUS
  <2>1. \A r \in Runs : ~On(r, j)
    BY DEF IInv, OneAtATime
  <2>2. ASSUME NEW r \in Runs, LogFailed(r) PROVE log'[j] = "SENT"
    BY <2>1, <2>2 DEF LogFailed, On, AtJob, IInv, RemindersTypeOK
  <2>3. ASSUME NEW r \in Runs, LogSent(r) PROVE log'[j] = "SENT"
    BY <2>3 DEF LogSent, IInv, RemindersTypeOK
  <2>4. \/ log' = log
        \/ \E r \in Runs : LogFailed(r) \/ LogSent(r)
    BY DEF RemindersNext, Proceed, SetHour, Hour, Fire, Crash, Check, Send, LogSentFails, Abort, Finish
  <2> QED
    BY <2>2, <2>3, <2>4
<1> QED
  BY <1>1, Invariant, PTL DEF RemindersSpec, SentStaysSent

=============================================================================
