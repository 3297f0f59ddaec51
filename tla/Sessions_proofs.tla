-------------------------- MODULE Sessions_proofs --------------------------
(***************************************************************************)
(* Proofs about Sessions for any number of clients, calls and tokens.      *)
(*                                                                         *)
(* TypeOK and OneRefreshServesAll are inductive together with              *)
(* OnlyPhonesClear: the clearing during which a phone's call can join a    *)
(* refresh that is over does not occur in a browser.  The action           *)
(* properties need no more than TypeOK.                                    *)
(***************************************************************************)
EXTENDS Sessions, TLAPS

OnlyPhonesClear == \A c \in Calls : call[c].at = "clearing" => AppOf(c) \in Phones

IInv == TypeOK /\ OneRefreshServesAll /\ OnlyPhonesClear

LEMMA Idle == Over \in Call /\ Over.at = "settled" /\ Over.app = NoApp
BY DEF Over, Call, Steps, NoPair

\* What Make, Goes and Settles leave of a call.
LEMMA GoesOn ==
    ASSUME TypeOK, NEW c \in Calls, ~Settled(c), NEW at \in Steps \ {"settled"},
           NEW n \in Pairs \cup {NoPair}, Goes(c, at, n)
    PROVE  /\ call' \in [Calls -> Call]
           /\ call'[c].at = at /\ call'[c].app = call[c].app
           /\ \A o \in Calls \ {c} : call'[o] = call[o]
           /\ (\A o \in Calls : Settled(o) <=> AppOf(o) = NoApp)'
<1>1. call[c] \in Call
  BY DEF TypeOK
<1>2. [call[c] EXCEPT !.at = at, !.pair = n] \in Call
  BY <1>1 DEF Call
<1>3. /\ call' = [call EXCEPT ![c] = [call[c] EXCEPT !.at = at, !.pair = n]]
  BY DEF Goes, TypeOK
<1>4. QED
  BY <1>1, <1>2, <1>3 DEF TypeOK, Settled, AppOf, Call

LEMMA SettlesIt ==
    ASSUME TypeOK, NEW c \in Calls, Settles(c)
    PROVE  /\ call' \in [Calls -> Call]
           /\ call'[c] = Over
           /\ \A o \in Calls \ {c} : call'[o] = call[o]
           /\ (\A o \in Calls : Settled(o) <=> AppOf(o) = NoApp)'
BY Idle DEF Settles, TypeOK, Settled, AppOf

\* A call in progress is a call of an app.
LEMMA InProgress ==
    ASSUME TypeOK, NEW c \in Calls, ~Settled(c)
    PROVE  AppOf(c) \in Apps
BY DEF TypeOK, Settled, AppOf, Call

\* What GiveUp leaves of the calls.
LEMMA GaveUp ==
    ASSUME TypeOK, NEW c \in Calls, GiveUp(c)
    PROVE  /\ c \notin Queue(AppOf(c))
           /\ \A o \in Calls \ {c} : call'[o] = IF o \in Queue(AppOf(c)) THEN Over ELSE call[o]
           /\ \/ /\ AppOf(c) \in Phones
                 /\ call'[c].at = "clearing" /\ call'[c].app = call[c].app
                 /\ UNCHANGED <<store, refreshing>>
              \/ /\ AppOf(c) \notin Phones
                 /\ call'[c] = Over
                 /\ store' = [store EXCEPT ![AppOf(c)] = NoPair]
                 /\ refreshing' = [refreshing EXCEPT ![AppOf(c)] = FALSE]
<1> DEFINE fail(S) == [o \in Calls |-> IF o \in S THEN Over ELSE call[o]]
<1>1. c \notin Queue(AppOf(c))
  BY DEF GiveUp, Queue, Mine
<1>2. CASE /\ AppOf(c) \in Phones
           /\ call' = [fail(Rejected(AppOf(c))) EXCEPT ![c].at = "clearing"]
           /\ UNCHANGED <<store, refreshing>>
  <2>1. \A o \in Calls \ {c} : call'[o] = IF o \in Queue(AppOf(c)) THEN Over ELSE call[o]
    BY <1>2 DEF Rejected
  <2>2. fail(Rejected(AppOf(c)))[c] = call[c]
    BY <1>1 DEF Rejected
  <2>3. call'[c].at = "clearing" /\ call'[c].app = call[c].app
    BY <1>2, <2>2 DEF TypeOK, Call
  <2> QED
    BY <1>1, <1>2, <2>1, <2>3
<1>3. CASE /\ AppOf(c) \notin Phones
           /\ call' = fail(Rejected(AppOf(c)) \cup {c})
           /\ store' = [store EXCEPT ![AppOf(c)] = NoPair]
           /\ refreshing' = [refreshing EXCEPT ![AppOf(c)] = FALSE]
  BY <1>1, <1>3 DEF Rejected
<1> QED
  BY <1>2, <1>3 DEF GiveUp

-----------------------------------------------------------------------------
LEMMA TypeInit == Init => TypeOK
<1> SUFFICES ASSUME Init PROVE TypeOK
  OBVIOUS
<1>1. 0 \in 0 .. MaxPairs
  BY PairsAssumption
<1> QED
  BY Idle, <1>1 DEF Init, TypeOK, NoPair, Settled, AppOf

LEMMA TypeStep == TypeOK /\ [Next]_vars => TypeOK'
<1> SUFFICES ASSUME TypeOK, [Next]_vars PROVE TypeOK'
  OBVIOUS
<1>1. ASSUME NEW c \in Calls, NEW a \in Apps, NEW kind \in {"query", "login"}, Make(c, a, kind)
      PROVE  TypeOK'
  <2> DEFINE new == [Over EXCEPT !.at = "made", !.app = a, !.kind = kind]
  <2>1. new \in Call /\ new.at = "made" /\ new.app = a
    BY DEF Over, Call, Steps, NoPair
  <2>2. call' = [call EXCEPT ![c] = new]
    BY <1>1 DEF Make
  <2> HIDE DEF new
  <2>3. call' \in [Calls -> Call] /\ (\A o \in Calls : Settled(o) <=> AppOf(o) = NoApp)'
    BY <2>1, <2>2, AppsAssumption DEF TypeOK, Settled, AppOf
  <2> QED
    BY <1>1, <2>3 DEF Make, TypeOK, server, clock
<1>2. ASSUME NEW c \in Calls, Attach(c) PROVE TypeOK'
  <2>1. ~Settled(c) /\ store[AppOf(c)] \in Pairs \cup {NoPair} /\ "sent" \in Steps \ {"settled"}
    BY <1>2, InProgress DEF Attach, TypeOK, Settled, Steps
  <2> QED
    BY <1>2, <2>1, GoesOn DEF Attach, TypeOK, server, clock
<1>3. ASSUME NEW c \in Calls, Serve(c) PROVE TypeOK'
  BY <1>3, SettlesIt DEF Serve, TypeOK, server, clock
<1>4. ASSUME NEW c \in Calls, Refuse(c) PROVE TypeOK'
  <2>1. /\ ~Settled(c) /\ "queued" \in Steps \ {"settled"} /\ "refresh" \in Steps \ {"settled"}
        /\ NoPair \in Pairs \cup {NoPair}
    BY <1>4 DEF Refuse, Settled, Steps, RefreshSteps
  <2>2. UNCHANGED <<server, clock, store>>
    BY <1>4 DEF Refuse
  <2>3. CASE Settles(c) /\ UNCHANGED refreshing
    BY <2>2, <2>3, SettlesIt DEF TypeOK, server, clock
  <2>4. CASE Goes(c, "queued", NoPair) /\ UNCHANGED refreshing
    BY <2>1, <2>2, <2>4, GoesOn DEF TypeOK, server, clock
  <2>5. CASE /\ call' = [call EXCEPT ![c].at = "refresh", ![c].pair = NoPair, ![c].retry = TRUE]
             /\ refreshing' = [refreshing EXCEPT ![AppOf(c)] = TRUE]
    <3> DEFINE new == [call[c] EXCEPT !.at = "refresh", !.pair = NoPair, !.retry = TRUE]
    <3>1. new \in Call /\ new.at = "refresh" /\ new.app = call[c].app
      BY <2>1 DEF TypeOK, Call
    <3>2. call' = [call EXCEPT ![c] = new]
      BY <2>5 DEF TypeOK
    <3> HIDE DEF new
    <3>3. call' \in [Calls -> Call] /\ (\A o \in Calls : Settled(o) <=> AppOf(o) = NoApp)'
      BY <2>1, <3>1, <3>2 DEF TypeOK, Settled, AppOf
    <3> QED
      BY <2>2, <2>5, <3>3 DEF TypeOK, server, clock
  <2> QED
    BY <1>4, <2>3, <2>4, <2>5 DEF Refuse
<1>5. ASSUME NEW c \in Calls, Break(c) PROVE TypeOK'
  <2>1. ~Settled(c) /\ "refused" \in Steps \ {"settled"} /\ NoPair \in Pairs \cup {NoPair}
    BY <1>5 DEF Break, Settled, Steps, RefreshSteps
  <2> QED
    BY <1>5, <2>1, GoesOn, SettlesIt DEF Break, TypeOK, server, clock
<1>6. ASSUME NEW c \in Calls, LoginCheck(c) \/ RefreshCheck(c) PROVE TypeOK'
  <2>1. /\ ~Settled(c) /\ "login" \in Steps \ {"settled"} /\ "renew" \in Steps \ {"settled"}
        /\ NoPair \in Pairs \cup {NoPair}
    BY <1>6 DEF LoginCheck, RefreshCheck, Settled, Steps, RefreshSteps
  <2> QED
    BY <1>6, <2>1, GoesOn DEF LoginCheck, RefreshCheck, TypeOK, server, clock
<1>7. ASSUME NEW c \in Calls, Issue(c) PROVE TypeOK'
  <2> DEFINE at == IF call[c].at = "login" THEN "logged_in" ELSE "renewed"
  <2>1. ~Settled(c) /\ at \in Steps \ {"settled"}
    BY <1>7 DEF Issue, Settled, Steps, RefreshSteps
  <2>2. issued + 1 \in Pairs /\ issued' \in 0 .. MaxPairs
    BY <1>7, PairsAssumption DEF Issue, TypeOK, Pairs
  <2>3. Goes(c, at, issued + 1)
    BY <1>7 DEF Issue
  <2> HIDE DEF at
  <2> QED
    BY <1>7, <2>1, <2>2, <2>3, GoesOn DEF Issue, TypeOK, clock
<1>8. ASSUME NEW c \in Calls, RefreshStart(c) PROVE TypeOK'
  <2> DEFINE at == IF HasToken(store[AppOf(c)]) THEN "posted" ELSE "refused"
  <2>1. ~Settled(c) /\ at \in Steps \ {"settled"}
    BY <1>8 DEF RefreshStart, Settled, Steps, RefreshSteps
  <2>2. store[AppOf(c)] \in Pairs \cup {NoPair}
    BY <2>1, InProgress DEF TypeOK
  <2>3. Goes(c, at, store[AppOf(c)])
    BY <1>8 DEF RefreshStart
  <2> HIDE DEF at
  <2> QED
    BY <1>8, <2>1, <2>2, <2>3, GoesOn DEF RefreshStart, TypeOK, server, clock
<1>9. ASSUME NEW c \in Calls, Resume(c) PROVE TypeOK'
  <2> DEFINE again(o) == [call[o] EXCEPT !.at = "made", !.pair = NoPair]
             Woken == Queue(AppOf(c)) \cup {c}
  <2>1. \A o \in Woken : o \in Calls /\ ~Settled(o)
    BY <1>9 DEF Resume, Queue, Mine, Settled
  <2>2. \A o \in Woken : again(o) \in Call /\ again(o).at = "made" /\ again(o).app = call[o].app
    <3> SUFFICES ASSUME NEW o \in Calls
                 PROVE  again(o) \in Call /\ again(o).at = "made" /\ again(o).app = call[o].app
      BY <2>1
    <3>1. call[o] \in Call /\ "made" \in Steps
      BY DEF TypeOK, Steps
    <3> QED
      BY <3>1 DEF Call
  <2>3. call' = [o \in Calls |-> IF o \in Woken THEN again(o) ELSE call[o]]
    BY <1>9 DEF Resume
  <2>4. call[c].pair \in Pairs \cup {NoPair} /\ AppOf(c) \in Apps
    BY <2>1, InProgress DEF TypeOK, Call
  <2> HIDE DEF again, Woken
  <2>5. call' \in [Calls -> Call] /\ (\A o \in Calls : Settled(o) <=> AppOf(o) = NoApp)'
    BY <2>1, <2>2, <2>3 DEF TypeOK, Settled, AppOf
  <2> QED
    BY <1>9, <2>4, <2>5 DEF Resume, TypeOK, server, clock
<1>10. ASSUME NEW c \in Calls, GiveUp(c) PROVE TypeOK'
  <2> DEFINE a == AppOf(c)
             fail(S) == [o \in Calls |-> IF o \in S THEN Over ELSE call[o]]
  <2>1. ~Settled(c) /\ a \in Apps
    BY <1>10, InProgress DEF GiveUp, Settled
  <2>2. ASSUME NEW S PROVE /\ fail(S) \in [Calls -> Call]
                           /\ \A o \in Calls : fail(S)[o].at = "settled" <=> fail(S)[o].app = NoApp
    BY Idle DEF TypeOK, Settled, AppOf
  <2>3. CASE call' = fail(Rejected(a) \cup {c})
    <3>1. /\ UNCHANGED <<server, clock>>
          /\ store' \in [Apps -> Pairs \cup {NoPair}] /\ refreshing' \in [Apps -> BOOLEAN]
      BY <1>10, <2>1 DEF GiveUp, TypeOK
    <3>2. call' \in [Calls -> Call] /\ (\A o \in Calls : Settled(o) <=> AppOf(o) = NoApp)'
      BY <2>2, <2>3 DEF Settled, AppOf
    <3> QED
      BY <3>1, <3>2 DEF TypeOK, server, clock
  <2>4. CASE /\ call' = [fail(Rejected(a)) EXCEPT ![c].at = "clearing"]
             /\ UNCHANGED <<store, refreshing>>
    <3>1. c \notin Rejected(a)
      BY <1>10 DEF GiveUp, Rejected, Queue, Mine
    <3>2. fail(Rejected(a))[c] = call[c]
      BY <3>1
    <3>3. fail(Rejected(a)) \in [Calls -> Call]
      BY <2>2
    <3>4. [call[c] EXCEPT !.at = "clearing"] \in Call
      BY DEF TypeOK, Call, Steps, RefreshSteps
    <3>5. call' = [fail(Rejected(a)) EXCEPT ![c] = [call[c] EXCEPT !.at = "clearing"]]
      BY <2>4, <3>2, <3>3
    <3>6. call' \in [Calls -> Call]
      BY <3>3, <3>4, <3>5
    <3>7. call'[c].at = "clearing" /\ call'[c].app = call[c].app
      BY <3>3, <3>5 DEF TypeOK, Call
    <3>8. (\A o \in Calls : Settled(o) <=> AppOf(o) = NoApp)'
      BY <2>1, <2>2, <3>3, <3>5, <3>7 DEF TypeOK, Settled, AppOf
    <3> QED
      BY <1>10, <2>4, <3>6, <3>8 DEF GiveUp, TypeOK, server, clock
  <2> QED
    BY <1>10, <2>3, <2>4 DEF GiveUp
<1>11. ASSUME NEW c \in Calls, Cleared(c) PROVE TypeOK'
  <2>1. AppOf(c) \in Apps
    BY <1>11, InProgress DEF Cleared, Settled
  <2> QED
    BY <1>11, <2>1, SettlesIt DEF Cleared, TypeOK, server, clock
<1>12. ASSUME NEW c \in Calls, StoreLogin(c) PROVE TypeOK'
  <2>1. AppOf(c) \in Apps /\ call[c].pair \in Pairs \cup {NoPair}
    BY <1>12, InProgress DEF StoreLogin, Settled, TypeOK, Call
  <2> QED
    BY <1>12, <2>1, SettlesIt DEF StoreLogin, TypeOK, server, clock
<1>13. ASSUME NEW a \in Apps, Logout(a) PROVE TypeOK'
  BY <1>13 DEF Logout, TypeOK, server, clock, Settled, AppOf
<1>14. ASSUME Around PROVE TypeOK'
  <2>1. UNCHANGED <<issued, store, refreshing, call>>
    BY <1>14 DEF Around, SetActive, ResetPassword, Retire, Expire, Lapse, server
  <2>2. user' \in [active : BOOLEAN, refreshable : BOOLEAN]
    <3>1. CASE UNCHANGED user
      BY <3>1 DEF TypeOK
    <3>2. ASSUME NEW active \in BOOLEAN, SetActive(active)
          PROVE  user' \in [active : BOOLEAN, refreshable : BOOLEAN]
      BY <3>2 DEF TypeOK, SetActive
    <3>3. CASE ResetPassword
      BY <3>3 DEF TypeOK, ResetPassword
    <3>4. CASE Retire
      BY <3>4 DEF Retire
    <3> QED
      BY <1>14, <3>1, <3>2, <3>3, <3>4 DEF Around, Expire, Lapse, server
  <2>3. expired' \subseteq Pairs /\ lapsed' \subseteq expired'
    <3>1. CASE UNCHANGED clock
      BY <3>1 DEF TypeOK, clock
    <3>2. CASE \E n \in Pairs : Expire(n) \/ Lapse(n)
      BY <3>2 DEF TypeOK, Expire, Lapse
    <3> QED
      BY <1>14, <3>1, <3>2 DEF Around, SetActive, ResetPassword, Retire
  <2> QED
    BY <2>1, <2>2, <2>3 DEF TypeOK, Settled, AppOf
<1>15. CASE UNCHANGED vars
  BY <1>15 DEF vars, TypeOK, Settled, AppOf
<1> QED
  BY <1>1, <1>2, <1>3, <1>4, <1>5, <1>6, <1>7, <1>8, <1>9, <1>10, <1>11, <1>12, <1>13, <1>14, <1>15
     DEF Next, Proceed

\* The rows of the server and the state of the clients are of their kind.
THEOREM Types == Spec => []TypeOK
BY TypeInit, TypeStep, PTL DEF Spec

-----------------------------------------------------------------------------
(***************************************************************************)
(* One refresh serves all.  Most steps neither begin nor end a refresh.    *)
(***************************************************************************)

\* A step of c that keeps it on one side of the refresh, and out of the queue.
LEMMA SameSide ==
    ASSUME TypeOK, OneRefreshServesAll, NEW c \in Calls,
           UNCHANGED refreshing,
           \A o \in Calls \ {c} : call'[o] = call[o],
           call'[c].at \in RefreshSteps <=> call[c].at \in RefreshSteps,
           call[c].at \in RefreshSteps => call'[c].app = call[c].app,
           call'[c].at # "queued"
    PROVE  OneRefreshServesAll'
<1> SUFFICES ASSUME NEW a \in Apps
             PROVE  /\ \A o, p \in Renewing(a)' : o = p
                    /\ refreshing'[a] <=> Renewing(a)' # {}
                    /\ a \notin Phones /\ Queue(a)' # {} => refreshing'[a]
  BY DEF OneRefreshServesAll
<1>1. Renewing(a)' = Renewing(a)
  BY DEF Renewing, Mine, AppOf
<1>2. Queue(a)' \subseteq Queue(a)
  BY DEF Queue, Mine, AppOf
<1> QED
  BY <1>1, <1>2 DEF OneRefreshServesAll

\* The end of c's refresh, when nobody waits any longer, or on a phone.
LEMMA RefreshEnds ==
    ASSUME TypeOK, OneRefreshServesAll, NEW c \in Calls, call[c].at \in RefreshSteps,
           refreshing' = [refreshing EXCEPT ![AppOf(c)] = FALSE],
           \A o \in Calls : call'[o].at \in RefreshSteps \cup {"queued"} => call'[o] = call[o],
           \A o \in Calls : call[o].at \in RefreshSteps /\ o # c => call'[o] = call[o],
           call'[c].at \notin RefreshSteps,
           AppOf(c) \notin Phones => \A o \in Queue(AppOf(c)) : call'[o].at # "queued"
    PROVE  OneRefreshServesAll'
<1>1. AppOf(c) \in Apps /\ c \in Renewing(AppOf(c))
  BY InProgress DEF Settled, RefreshSteps, Renewing, Mine
<1> SUFFICES ASSUME NEW a \in Apps
             PROVE  /\ \A o, p \in Renewing(a)' : o = p
                    /\ refreshing'[a] <=> Renewing(a)' # {}
                    /\ a \notin Phones /\ Queue(a)' # {} => refreshing'[a]
  BY DEF OneRefreshServesAll
<1>2. Queue(a)' \subseteq Queue(a)
  BY DEF Queue, Mine, AppOf
<1>3. CASE a = AppOf(c)
  <2>1. Renewing(a)' \subseteq Renewing(a) \ {c}
    BY DEF Renewing, Mine, AppOf
  <2>2. Renewing(a) = {c}
    BY <1>1, <1>3 DEF OneRefreshServesAll
  <2>3. a \notin Phones => Queue(a)' = {}
    BY <1>2, <1>3 DEF Queue, Mine, AppOf
  <2> QED
    BY <1>3, <2>1, <2>2, <2>3 DEF TypeOK
<1>4. CASE a # AppOf(c)
  <2>1. Renewing(a)' = Renewing(a)
    BY <1>4 DEF Renewing, Mine, AppOf
  <2> QED
    BY <1>2, <1>4, <2>1 DEF OneRefreshServesAll, TypeOK
<1> QED
  BY <1>3, <1>4

\* Only GiveUp makes a call clear the tokens.
LEMMA OnlyPhonesClearStep == TypeOK /\ OnlyPhonesClear /\ [Next]_vars => OnlyPhonesClear'
<1> SUFFICES ASSUME TypeOK, OnlyPhonesClear, [Next]_vars,
                    NEW o \in Calls, call'[o].at = "clearing"
             PROVE  AppOf(o)' \in Phones
  BY DEF OnlyPhonesClear
<1>1. CASE call'[o] = call[o]
  BY <1>1 DEF OnlyPhonesClear, AppOf
<1>2. ASSUME NEW c \in Calls, GiveUp(c), call'[o] # call[o] PROVE AppOf(o)' \in Phones
  BY <1>2, GaveUp, Idle DEF AppOf
<1>3. ASSUME NEW c \in Calls, Resume(c), call'[o] # call[o] PROVE FALSE
  BY <1>3 DEF Resume, TypeOK, Call
<1>4. ASSUME NEW c \in Calls, Settles(c), call'[o] # call[o] PROVE FALSE
  BY <1>4, Idle, SettlesIt
<1>5. ASSUME NEW c \in Calls, NEW at, NEW n, at # "clearing", Goes(c, at, n), call'[o] # call[o]
      PROVE  FALSE
  BY <1>5 DEF Goes, TypeOK, Call
<1>6. ASSUME NEW c \in Calls, Refuse(c), call'[o] # call[o] PROVE FALSE
  <2>1. call' # [call EXCEPT ![c].at = "refresh", ![c].pair = NoPair, ![c].retry = TRUE]
    BY <1>6 DEF TypeOK, Call
  <2> QED
    BY <1>4, <1>5, <1>6, <2>1 DEF Refuse
<1>7. ASSUME NEW c \in Calls, NEW a \in Apps, NEW kind, Make(c, a, kind), call'[o] # call[o]
      PROVE  FALSE
  BY <1>7 DEF Make, TypeOK, Over
<1>8. ASSUME NEW c \in Calls, call'[o] # call[o],
             \/ Attach(c) \/ Serve(c) \/ Break(c) \/ LoginCheck(c) \/ RefreshCheck(c) \/ Issue(c)
             \/ RefreshStart(c) \/ Cleared(c) \/ StoreLogin(c)
      PROVE  FALSE
  BY <1>4, <1>5, <1>8
     DEF Attach, Serve, Break, LoginCheck, RefreshCheck, Issue, RefreshStart, Cleared, StoreLogin
<1> QED
  BY <1>1, <1>2, <1>3, <1>6, <1>7, <1>8
     DEF Next, Proceed, Logout, Around, SetActive, ResetPassword, Retire, Expire, Lapse, vars

LEMMA OneRefreshInit == Init => OneRefreshServesAll
<1> SUFFICES ASSUME Init, NEW a \in Apps
             PROVE  Renewing(a) = {} /\ Queue(a) = {} /\ refreshing[a] = FALSE
  BY DEF OneRefreshServesAll
<1> QED
  BY Idle DEF Init, Renewing, Queue, Mine, RefreshSteps

LEMMA OneRefreshStep ==
    TypeOK /\ OneRefreshServesAll /\ OnlyPhonesClear /\ [Next]_vars => OneRefreshServesAll'
<1> SUFFICES ASSUME TypeOK, OneRefreshServesAll, OnlyPhonesClear, [Next]_vars
             PROVE  OneRefreshServesAll'
  OBVIOUS
<1>1. CASE UNCHANGED <<call, refreshing>>
  BY <1>1 DEF OneRefreshServesAll, Renewing, Queue, Mine, AppOf
<1>2. ASSUME NEW c \in Calls, NEW a \in Apps, NEW kind \in {"query", "login"}, Make(c, a, kind)
      PROVE  OneRefreshServesAll'
  <2>1. call'[c].at = "made" /\ \A o \in Calls \ {c} : call'[o] = call[o]
    BY <1>2 DEF Make, TypeOK, Over
  <2> QED
    BY <1>2, <2>1, SameSide DEF Make, Settled, RefreshSteps
<1>3. ASSUME NEW c \in Calls, NEW at \in Steps \ {"settled", "queued"}, NEW n \in Pairs \cup {NoPair},
             Goes(c, at, n), ~Settled(c), UNCHANGED refreshing,
             at \in RefreshSteps <=> call[c].at \in RefreshSteps
      PROVE  OneRefreshServesAll'
  <2>1. call'[c].at = at /\ call'[c].app = call[c].app
    BY <1>3, GoesOn
  <2> QED
    BY <1>3, <2>1, GoesOn, SameSide
<1>4. ASSUME NEW c \in Calls, Settles(c), UNCHANGED refreshing, call[c].at \notin RefreshSteps
      PROVE  OneRefreshServesAll'
  BY <1>4, Idle, SettlesIt, SameSide DEF RefreshSteps
<1>5. ASSUME NEW c \in Calls, Attach(c) PROVE OneRefreshServesAll'
  <2>1. ~Settled(c) /\ store[AppOf(c)] \in Pairs \cup {NoPair}
    BY <1>5, InProgress DEF Attach, TypeOK, Settled
  <2> QED
    BY <1>3, <1>5, <2>1 DEF Attach, Steps, RefreshSteps
<1>6. ASSUME NEW c \in Calls, Serve(c) PROVE OneRefreshServesAll'
  BY <1>4, <1>6 DEF Serve, RefreshSteps
<1>7. ASSUME NEW c \in Calls, Refuse(c) PROVE OneRefreshServesAll'
  <2>1. ~Settled(c) /\ call[c].at \notin RefreshSteps /\ AppOf(c) \in Apps
    BY <1>7, InProgress DEF Refuse, Settled, RefreshSteps
  <2>2. CASE Settles(c) /\ UNCHANGED refreshing
    BY <1>4, <2>1, <2>2
  <2>3. CASE Joins(c) /\ Goes(c, "queued", NoPair) /\ UNCHANGED refreshing
    <3>1. /\ call'[c].at = "queued" /\ call'[c].app = call[c].app
          /\ \A o \in Calls \ {c} : call'[o] = call[o]
      BY <2>1, <2>3, GoesOn DEF Steps
    <3> SUFFICES ASSUME NEW a \in Apps
                 PROVE  /\ \A o, p \in Renewing(a)' : o = p
                        /\ refreshing'[a] <=> Renewing(a)' # {}
                        /\ a \notin Phones /\ Queue(a)' # {} => refreshing'[a]
      BY DEF OneRefreshServesAll
    <3>2. Renewing(a)' = Renewing(a)
      BY <2>1, <3>1 DEF Renewing, Mine, AppOf, RefreshSteps
    <3>3. Queue(a)' \subseteq Queue(a) \cup {c} /\ (c \in Queue(a)' => a = AppOf(c))
      BY <3>1 DEF Queue, Mine, AppOf
    <3> QED
      BY <2>3, <3>2, <3>3 DEF OneRefreshServesAll, Joins
  <2>4. CASE /\ ~Joins(c)
             /\ call' = [call EXCEPT ![c].at = "refresh", ![c].pair = NoPair, ![c].retry = TRUE]
             /\ refreshing' = [refreshing EXCEPT ![AppOf(c)] = TRUE]
    <3>1. /\ call'[c].at = "refresh" /\ call'[c].app = call[c].app
          /\ \A o \in Calls \ {c} : call'[o] = call[o]
      BY <2>4 DEF TypeOK, Call
    <3>2. Renewing(AppOf(c)) = {}
      BY <2>1, <2>4 DEF OneRefreshServesAll, Joins
    <3> SUFFICES ASSUME NEW a \in Apps
                 PROVE  /\ \A o, p \in Renewing(a)' : o = p
                        /\ refreshing'[a] <=> Renewing(a)' # {}
                        /\ a \notin Phones /\ Queue(a)' # {} => refreshing'[a]
      BY DEF OneRefreshServesAll
    <3>3. Renewing(a)' = IF a = AppOf(c) THEN {c} ELSE Renewing(a)
      BY <2>1, <3>1, <3>2 DEF Renewing, Mine, AppOf, RefreshSteps
    <3>4. Queue(a)' \subseteq Queue(a)
      BY <3>1 DEF Queue, Mine, AppOf
    <3> QED
      BY <2>4, <3>3, <3>4 DEF OneRefreshServesAll, TypeOK
  <2> QED
    BY <1>7, <2>2, <2>3, <2>4 DEF Refuse
<1>8. ASSUME NEW c \in Calls, Break(c) PROVE OneRefreshServesAll'
  <2>1. CASE call[c].at \in {"sent", "login", "logged_in"} /\ Settles(c)
    BY <1>4, <1>8, <2>1 DEF Break, RefreshSteps
  <2>2. CASE call[c].at \in {"posted", "renew", "renewed"} /\ Goes(c, "refused", NoPair)
    BY <1>3, <1>8, <2>2 DEF Break, RefreshSteps, Steps, Settled
  <2> QED
    BY <1>8, <2>1, <2>2 DEF Break
<1>9. ASSUME NEW c \in Calls, LoginCheck(c) PROVE OneRefreshServesAll'
  BY <1>3, <1>9 DEF LoginCheck, RefreshSteps, Steps, Settled
<1>10. ASSUME NEW c \in Calls, RefreshCheck(c) PROVE OneRefreshServesAll'
  BY <1>3, <1>10 DEF RefreshCheck, RefreshSteps, Steps, Settled
<1>11. ASSUME NEW c \in Calls, Issue(c) PROVE OneRefreshServesAll'
  <2> DEFINE at == IF call[c].at = "login" THEN "logged_in" ELSE "renewed"
  <2>1. /\ ~Settled(c) /\ at \in Steps \ {"settled", "queued"}
        /\ at \in RefreshSteps <=> call[c].at \in RefreshSteps
    BY <1>11 DEF Issue, Settled, Steps, RefreshSteps
  <2>2. issued + 1 \in Pairs
    BY <1>11, PairsAssumption DEF Issue, TypeOK, Pairs
  <2>3. Goes(c, at, issued + 1) /\ UNCHANGED refreshing
    BY <1>11 DEF Issue
  <2> HIDE DEF at
  <2> QED
    BY <1>3, <2>1, <2>2, <2>3
<1>12. ASSUME NEW c \in Calls, RefreshStart(c) PROVE OneRefreshServesAll'
  <2> DEFINE at == IF HasToken(store[AppOf(c)]) THEN "posted" ELSE "refused"
  <2>1. /\ ~Settled(c) /\ at \in Steps \ {"settled", "queued"}
        /\ at \in RefreshSteps /\ call[c].at \in RefreshSteps
    BY <1>12 DEF RefreshStart, Settled, Steps, RefreshSteps
  <2>2. store[AppOf(c)] \in Pairs \cup {NoPair}
    BY <2>1, InProgress DEF TypeOK
  <2>3. Goes(c, at, store[AppOf(c)]) /\ UNCHANGED refreshing
    BY <1>12 DEF RefreshStart
  <2> HIDE DEF at
  <2> QED
    BY <1>3, <2>1, <2>2, <2>3
<1>13. ASSUME NEW c \in Calls, Resume(c) PROVE OneRefreshServesAll'
  <2>1. \A o \in Queue(AppOf(c)) \cup {c} : call'[o].at = "made"
    BY <1>13 DEF Resume, TypeOK, Call, Queue, Mine
  <2>2. \A o \in Calls : o \notin Queue(AppOf(c)) \cup {c} => call'[o] = call[o]
    BY <1>13 DEF Resume
  <2>3. \A o \in Queue(AppOf(c)) : call[o].at = "queued"
    BY DEF Queue
  <2>4. call[c].at \in RefreshSteps /\ refreshing' = [refreshing EXCEPT ![AppOf(c)] = FALSE]
    BY <1>13 DEF Resume, RefreshSteps
  <2> QED
    BY <2>1, <2>2, <2>3, <2>4, RefreshEnds DEF RefreshSteps
<1>14. ASSUME NEW c \in Calls, GiveUp(c) PROVE OneRefreshServesAll'
  <2>1. call[c].at \in RefreshSteps /\ \A o \in Queue(AppOf(c)) : call[o].at = "queued"
    BY <1>14 DEF GiveUp, RefreshSteps, Queue
  <2>2. CASE AppOf(c) \in Phones
    <3> SUFFICES ASSUME NEW b \in Apps
                 PROVE  Renewing(b)' = Renewing(b) /\ Queue(b)' \subseteq Queue(b)
      BY <1>14, <2>2, GaveUp DEF OneRefreshServesAll
    <3> QED
      BY <1>14, <2>1, <2>2, GaveUp, Idle DEF Renewing, Queue, Mine, AppOf, RefreshSteps
  <2>3. CASE AppOf(c) \notin Phones
    <3>1. \A o \in Calls : call'[o] = IF o \in Queue(AppOf(c)) \cup {c} THEN Over ELSE call[o]
      BY <1>14, <2>3, GaveUp
    <3>2. refreshing' = [refreshing EXCEPT ![AppOf(c)] = FALSE]
      BY <1>14, <2>3, GaveUp
    <3> QED
      <4>1. \A o \in Calls : call'[o].at \in RefreshSteps \cup {"queued"} => call'[o] = call[o]
        BY <3>1, Idle DEF RefreshSteps
      <4>2. \A o \in Calls : call[o].at \in RefreshSteps /\ o # c => call'[o] = call[o]
        BY <2>1, <3>1 DEF RefreshSteps
      <4>3. /\ call'[c].at \notin RefreshSteps
            /\ \A o \in Queue(AppOf(c)) : call'[o].at # "queued"
        BY <3>1, Idle DEF RefreshSteps, Queue, Mine
      <4> QED
        BY <2>1, <3>2, <4>1, <4>2, <4>3, RefreshEnds
  <2> QED
    BY <2>2, <2>3
<1>15. ASSUME NEW c \in Calls, Cleared(c) PROVE OneRefreshServesAll'
  <2>1. call'[c] = Over /\ \A o \in Calls \ {c} : call'[o] = call[o]
    BY <1>15, SettlesIt DEF Cleared
  <2> QED
    BY <1>15, <2>1, Idle, RefreshEnds DEF Cleared, RefreshSteps, OnlyPhonesClear
<1>16. ASSUME NEW c \in Calls, StoreLogin(c) PROVE OneRefreshServesAll'
  BY <1>4, <1>16 DEF StoreLogin, RefreshSteps
<1> QED
  BY <1>1, <1>2, <1>5, <1>6, <1>7, <1>8, <1>9, <1>10, <1>11, <1>12, <1>13, <1>14, <1>15, <1>16
     DEF Next, Proceed, Logout, Around, SetActive, ResetPassword, Retire, Expire, Lapse, vars
\* However many calls are refused at once, an app renews its tokens with one call, for
\* exactly as long as isRefreshing is set, and no call of a browser waits in vain.
THEOREM OneRefresh == Spec => []OneRefreshServesAll
<1>1. Init => IInv
  BY TypeInit, OneRefreshInit, Idle DEF IInv, OnlyPhonesClear, Init
<1>2. IInv /\ [Next]_vars => IInv'
  BY TypeStep, OneRefreshStep, OnlyPhonesClearStep DEF IInv
<1>3. IInv => OneRefreshServesAll
  BY DEF IInv
<1> QED
  BY <1>1, <1>2, <1>3, PTL DEF Spec

-----------------------------------------------------------------------------
(***************************************************************************)
(* Tokens are issued only to those who may have them.                      *)
(***************************************************************************)

Withdrawn ==
    NoneOnItsWay =>
         /\ ~user.active => issued' = issued /\ (NoneOnItsWay' \/ user'.active)
         /\ ~user.refreshable =>
              /\ issued' = issued
              /\ NoneOnItsWay' \/ \E c \in Calls : call'[c].at = "login"

LEMMA WithdrawnStep == TypeOK /\ [Next]_vars => Withdrawn
<1> SUFFICES ASSUME TypeOK, [Next]_vars, NoneOnItsWay PROVE Withdrawn
  BY DEF Withdrawn
<1> USE DEF NoneOnItsWay, OnItsWay
<1>1. issued' = issued
  BY DEF Next, Proceed, Around, Make, Attach, Serve, Refuse, Break, LoginCheck, RefreshCheck, Issue,
         RefreshStart, Resume, GiveUp, Cleared, StoreLogin, Logout, SetActive, ResetPassword,
         Retire, Expire, Lapse, vars, server
<1>2. CASE \A o \in Calls : call'[o].at \in {"login", "renew"} => call'[o] = call[o]
  BY <1>1, <1>2 DEF Withdrawn
<1>3. ASSUME NEW c \in Calls, LoginCheck(c) PROVE Withdrawn
  <2>1. call'[c].at = "login"
    BY <1>3 DEF LoginCheck, Goes, TypeOK, Call
  <2> QED
    BY <1>1, <1>3, <2>1 DEF Withdrawn, LoginCheck
<1>4. ASSUME NEW c \in Calls, RefreshCheck(c) PROVE Withdrawn
  BY <1>1, <1>4 DEF Withdrawn, RefreshCheck, Renewable, server
<1>5. ASSUME NEW c \in Calls, NEW at, NEW n, at \notin {"login", "renew"}, Goes(c, at, n)
      PROVE  \A o \in Calls : call'[o].at \in {"login", "renew"} => call'[o] = call[o]
  BY <1>5 DEF Goes, TypeOK, Call
<1>6. ASSUME NEW c \in Calls, Settles(c)
      PROVE  \A o \in Calls : call'[o].at \in {"login", "renew"} => call'[o] = call[o]
  BY <1>6, Idle, SettlesIt
<1>7. ASSUME NEW c \in Calls, Attach(c) \/ Serve(c) \/ Break(c) \/ RefreshStart(c) \/ Cleared(c) \/ StoreLogin(c)
      PROVE  Withdrawn
  BY <1>2, <1>5, <1>6, <1>7 DEF Attach, Serve, Break, RefreshStart, Cleared, StoreLogin
<1>8. ASSUME NEW c \in Calls, Refuse(c) PROVE Withdrawn
  <2>1. CASE call' = [call EXCEPT ![c].at = "refresh", ![c].pair = NoPair, ![c].retry = TRUE]
    BY <1>2, <2>1 DEF TypeOK, Call
  <2> QED
    BY <1>2, <1>5, <1>6, <1>8, <2>1 DEF Refuse
<1>9. ASSUME NEW c \in Calls, Resume(c) PROVE Withdrawn
  BY <1>2, <1>9 DEF Resume, TypeOK, Call
<1>10. ASSUME NEW c \in Calls, GiveUp(c) PROVE Withdrawn
  BY <1>2, <1>10, GaveUp, Idle
<1>11. ASSUME NEW c \in Calls, NEW a \in Apps, NEW kind, Make(c, a, kind) PROVE Withdrawn
  BY <1>2, <1>11 DEF Make, TypeOK, Over
<1> QED
  BY <1>2, <1>3, <1>4, <1>7, <1>8, <1>9, <1>10, <1>11
     DEF Next, Proceed, Issue, Logout, Around, SetActive, ResetPassword, Retire, Expire, Lapse, vars

\* A user who was switched off, or whose refresh token was revoked, gets no more tokens
\* once the requests that were checked before are over.
THEOREM WithdrawnIsWithdrawn == Spec => WithdrawnMeansWithdrawn
<1>1. TypeOK /\ [Next]_vars => [Withdrawn]_vars
  BY WithdrawnStep
<1> QED
  BY Types, <1>1, PTL DEF Spec, WithdrawnMeansWithdrawn, Withdrawn

-----------------------------------------------------------------------------
(***************************************************************************)
(* No session comes back by itself.                                        *)
(***************************************************************************)

StaysOut(a) ==
    store[a] = NoPair /\ ~Arriving(a)
    => /\ store'[a] = NoPair
       /\ ~Arriving(a)' \/ \E c \in Mine(a) : call'[c].at = "login"

\* The steps that bring tokens to an app.
Bringing == {"login", "logged_in", "posted", "renew", "renewed"}

LEMMA StaysOutStep == TypeOK /\ [Next]_vars => \A a \in Apps : StaysOut(a)
<1> SUFFICES ASSUME TypeOK, [Next]_vars, NEW a \in Apps, store[a] = NoPair, ~Arriving(a)
             PROVE  StaysOut(a)
  BY DEF StaysOut
<1>1. \A c \in Calls : call[c].app = a => call[c].at \notin Bringing
  BY DEF Arriving, Mine, AppOf, Bringing
<1>2. store'[a] = NoPair
  <2>1. CASE UNCHANGED store
    BY <2>1
  <2>2. ASSUME NEW c \in Calls, AppOf(c) # a, store' = [store EXCEPT ![AppOf(c)] = call[c].pair]
        PROVE  store'[a] = NoPair
    BY <2>2 DEF TypeOK
  <2>3. ASSUME NEW b \in Apps \cup {NoApp}, store' = [store EXCEPT ![b] = NoPair]
        PROVE  store'[a] = NoPair
    BY <2>3 DEF TypeOK
  <2>4. ASSUME NEW c \in Calls, Resume(c) \/ StoreLogin(c) PROVE store'[a] = NoPair
    BY <1>1, <2>2, <2>4 DEF Resume, StoreLogin, AppOf, Bringing
  <2>5. ASSUME NEW c \in Calls, GiveUp(c) \/ Cleared(c) PROVE store'[a] = NoPair
    BY <2>1, <2>3, <2>5 DEF GiveUp, Cleared, AppOf, TypeOK, Call
  <2>6. ASSUME NEW b \in Apps, Logout(b) PROVE store'[a] = NoPair
    BY <2>3, <2>6 DEF Logout
  <2> QED
    BY <2>1, <2>4, <2>5, <2>6
       DEF Next, Proceed, Make, Attach, Serve, Refuse, Break, LoginCheck, RefreshCheck, Issue,
           RefreshStart, Around, SetActive, ResetPassword, Retire, Expire, Lapse, vars
\* A call of this app that begins to bring tokens is a login.
<1> DEFINE Harmless(o) == call'[o].app = a /\ call'[o].at \in Bringing => call'[o].at = "login" /\ call[o].app = a
<1>3. ASSUME \A o \in Calls : Harmless(o) PROVE StaysOut(a)
  BY <1>2, <1>3 DEF StaysOut, Arriving, Mine, AppOf, Bringing
<1>4. ASSUME NEW o \in Calls, call'[o] = call[o] PROVE Harmless(o)
  BY <1>1, <1>4
<1>5. ASSUME NEW c \in Calls, NEW o \in Calls, NEW at, NEW n, Goes(c, at, n),
             call[c].app = a => at \notin Bringing \/ at = "login"
      PROVE  Harmless(o)
  <2>1. CASE o = c
    BY <1>5, <2>1 DEF Goes, TypeOK, Call
  <2>2. CASE o # c
    BY <1>4, <1>5, <2>2 DEF Goes, TypeOK
  <2> QED
    BY <2>1, <2>2
<1>6. ASSUME NEW c \in Calls, NEW o \in Calls, Settles(c) PROVE Harmless(o)
  BY <1>4, <1>6, Idle, SettlesIt DEF Bringing
<1>7. ASSUME NEW c \in Calls, NEW o \in Calls, Attach(c) \/ Serve(c) \/ LoginCheck(c) \/ Cleared(c) \/ StoreLogin(c)
      PROVE  Harmless(o)
  BY <1>5, <1>6, <1>7 DEF Attach, Serve, LoginCheck, Cleared, StoreLogin, Bringing
<1>8. ASSUME NEW c \in Calls, NEW o \in Calls, Break(c) PROVE Harmless(o)
  BY <1>5, <1>6, <1>8 DEF Break, Bringing
<1>9. ASSUME NEW c \in Calls, NEW o \in Calls, RefreshCheck(c) \/ Issue(c) PROVE Harmless(o)
  <2>1. call[c].at \in Bringing
    BY <1>9 DEF RefreshCheck, Issue, Bringing
  <2> QED
    BY <1>1, <1>5, <1>9, <2>1 DEF RefreshCheck, Issue
<1>10. ASSUME NEW c \in Calls, NEW o \in Calls, RefreshStart(c) PROVE Harmless(o)
  <2>1. call[c].app = a => ~HasToken(store[AppOf(c)])
    BY DEF HasToken, AppOf
  <2> QED
    BY <1>5, <1>10, <2>1 DEF RefreshStart, Bringing
<1>11. ASSUME NEW c \in Calls, NEW o \in Calls, Refuse(c) PROVE Harmless(o)
  <2>1. CASE call' = [call EXCEPT ![c].at = "refresh", ![c].pair = NoPair, ![c].retry = TRUE]
    BY <1>4, <2>1 DEF TypeOK, Call, Bringing
  <2> QED
    BY <1>5, <1>6, <1>11, <2>1 DEF Refuse, Bringing
<1>12. ASSUME NEW c \in Calls, NEW o \in Calls, Resume(c) PROVE Harmless(o)
  <2>1. CASE o \in Queue(AppOf(c)) \cup {c}
    BY <1>12, <2>1 DEF Resume, TypeOK, Call, Bringing
  <2>2. CASE o \notin Queue(AppOf(c)) \cup {c}
    BY <1>4, <1>12, <2>2 DEF Resume
  <2> QED
    BY <2>1, <2>2
<1>13. ASSUME NEW c \in Calls, NEW o \in Calls, GiveUp(c) PROVE Harmless(o)
  <2>1. CASE o = c
    BY <1>13, <2>1, GaveUp, Idle DEF Bringing
  <2>2. CASE o # c
    BY <1>4, <1>13, <2>2, GaveUp, Idle DEF Bringing
  <2> QED
    BY <2>1, <2>2
<1>14. ASSUME NEW c \in Calls, NEW o \in Calls, NEW b, NEW kind, Make(c, b, kind) PROVE Harmless(o)
  BY <1>4, <1>14 DEF Make, TypeOK, Over, Bringing
<1> HIDE DEF Harmless
<1> QED
  <2>1. CASE UNCHANGED call
    BY <1>3, <1>4, <2>1
  <2>2. ASSUME NEW c \in Calls, Proceed(c) PROVE StaysOut(a)
    <3> SUFFICES ASSUME NEW o \in Calls PROVE Harmless(o)
      BY <1>3
    <3> QED
      BY <1>7, <1>8, <1>9, <1>10, <1>11, <1>12, <1>13, <2>2 DEF Proceed
  <2>3. ASSUME NEW c \in Calls, NEW b \in Apps, NEW kind \in {"query", "login"}, Make(c, b, kind)
        PROVE  StaysOut(a)
    BY <1>3, <1>14, <2>3
  <2> QED
    BY <2>1, <2>2, <2>3
       DEF Next, Logout, Around, SetActive, ResetPassword, Retire, Expire, Lapse, vars

\* An app without tokens, and with none under way, stays without until its user logs in.
THEOREM NoSessionComesBack == Spec => LoggedOutStaysOut
<1>1. TypeOK /\ [Next]_vars => [\A a \in Apps : StaysOut(a)]_vars
  BY StaysOutStep
<1> QED
  BY Types, <1>1, PTL DEF Spec, LoggedOutStaysOut, StaysOut

=============================================================================
