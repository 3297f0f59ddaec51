------------------------------ MODULE Sessions ------------------------------
(***************************************************************************)
(* Sessions of one user: the HTTP clients of the web front end and of the  *)
(* phones, which renew an expired access token behind the back of the      *)
(* calls, and the part of the server that issues tokens and withdraws them.*)
(*                                                                         *)
(* Access and refresh token are issued, stored and removed together: a     *)
(* pair is a number.  The server keeps a bcrypt hash of the last refresh   *)
(* token, but bcrypt reads 72 bytes, and the first 72 of two refresh       *)
(* tokens of one user are equal.  What a refresh finds out is therefore    *)
(* whether there is a hash, and not whose.                                 *)
(***************************************************************************)
EXTENDS Naturals, FiniteSets

CONSTANTS
    Apps, Phones,   \* clients, and those that store their tokens asynchronously
    NoApp,
    Calls,          \* calls that can be in progress at a time
    MaxPairs        \* bound on the pairs of tokens issued

NoPair == 0
Pairs == 1 .. MaxPairs

ASSUME AppsAssumption == Phones \subseteq Apps /\ NoApp \notin Apps

ASSUME PairsAssumption == MaxPairs \in Nat

VARIABLES
    user,           \* isActive, and whether there is a refresh token's hash
    issued,         \* how many pairs were issued
    expired,        \* pairs whose access token has expired
    lapsed,         \* pairs whose refresh token has expired too
    store,          \* the pair an app has stored
    refreshing,     \* isRefreshing of an app
    call

server == <<user, issued>>
clock == <<expired, lapsed>>
vars == <<user, issued, expired, lapsed, store, refreshing, call>>

\* Where a call is: on its way to the server and back; waiting in failedQueue; or
\* renewing the tokens for everybody.
RefreshSteps == {"refresh", "posted", "renew", "renewed", "refused", "clearing"}
Steps == {"settled", "made", "sent", "login", "logged_in", "queued"} \cup RefreshSteps

Call == [at : Steps, app : Apps \cup {NoApp}, kind : {"query", "login"},
         pair : Pairs \cup {NoPair}, retry : BOOLEAN]

Over == [at |-> "settled", app |-> NoApp, kind |-> "query", pair |-> NoPair, retry |-> FALSE]

Settled(c) == call[c].at = "settled"

AppOf(c) == call[c].app
Mine(a) == {c \in Calls : AppOf(c) = a}
Queue(a) == {c \in Mine(a) : call[c].at = "queued"}

Settles(c) == call' = [call EXCEPT ![c] = Over]
Goes(c, at, n) == call' = [call EXCEPT ![c].at = at, ![c].pair = n]

-----------------------------------------------------------------------------
(***************************************************************************)
(* A call, until it is answered.                                           *)
(***************************************************************************)

Make(c, a, kind) ==
    /\ Settled(c)
    /\ call' = [call EXCEPT ![c] = [Over EXCEPT !.at = "made", !.app = a, !.kind = kind]]
    /\ UNCHANGED <<server, clock, store, refreshing>>

\* The request interceptor takes what is stored by now, on a second try as well.
Attach(c) ==
    /\ call[c].at = "made"
    /\ Goes(c, "sent", store[AppOf(c)])
    /\ UNCHANGED <<server, clock, store, refreshing>>

\* JwtStrategy looks at the signature and at the time, not at the user.
Accepted(n) == n # NoPair /\ n \notin expired

Serve(c) ==
    /\ call[c].at = "sent" /\ call[c].kind = "query"
    /\ Accepted(call[c].pair)
    /\ Settles(c)
    /\ UNCHANGED <<server, clock, store, refreshing>>

\* Mutant: a call that was refused during a refresh starts one of its own.
MutJoins(c) == FALSE

Joins(c) == refreshing[AppOf(c)]

\* A 401: wrong credentials at a login, no valid token otherwise.  The first call it
\* meets becomes the one that renews the tokens.
Refuse(c) ==
    /\ call[c].at = "sent"
    /\ call[c].kind = "login" \/ ~Accepted(call[c].pair)
    /\ \/ /\ call[c].retry
          /\ Settles(c)
          /\ UNCHANGED refreshing
       \/ /\ ~call[c].retry /\ Joins(c)
          /\ Goes(c, "queued", NoPair)
          /\ UNCHANGED refreshing
       \/ /\ ~call[c].retry /\ ~Joins(c)
          /\ call' = [call EXCEPT ![c].at = "refresh", ![c].pair = NoPair, ![c].retry = TRUE]
          /\ refreshing' = [refreshing EXCEPT ![AppOf(c)] = TRUE]
    /\ UNCHANGED <<server, clock, store>>

\* No answer, a timeout, or an answer that is neither a success nor a 401.  What a server
\* goes on with after its client gave up is an Issue before the Break.
Break(c) ==
    /\ \/ call[c].at \in {"sent", "login", "logged_in"} /\ Settles(c)
       \/ call[c].at \in {"posted", "renew", "renewed"} /\ Goes(c, "refused", NoPair)
    /\ UNCHANGED <<server, clock, store, refreshing>>

-----------------------------------------------------------------------------
(***************************************************************************)
(* The server issues tokens: it checks the user, spends a while hashing,   *)
(* and then writes the hash without another look.                          *)
(***************************************************************************)

LoginCheck(c) ==
    /\ call[c].at = "sent" /\ call[c].kind = "login"
    /\ user.active
    /\ Goes(c, "login", NoPair)
    /\ UNCHANGED <<server, clock, store, refreshing>>

\* Mutant: the refresh does not ask whether the user still is active.
MutRenewable(n) == n \notin lapsed /\ user.refreshable

Renewable(n) == n \notin lapsed /\ user.active /\ user.refreshable

RefreshCheck(c) ==
    /\ call[c].at = "posted"
    /\ Renewable(call[c].pair)
    /\ Goes(c, "renew", NoPair)
    /\ UNCHANGED <<server, clock, store, refreshing>>

Issue(c) ==
    /\ call[c].at \in {"login", "renew"}
    /\ issued < MaxPairs
    /\ issued' = issued + 1
    /\ user' = [user EXCEPT !.refreshable = TRUE]
    /\ Goes(c, IF call[c].at = "login" THEN "logged_in" ELSE "renewed", issued + 1)
    /\ UNCHANGED <<clock, store, refreshing>>

-----------------------------------------------------------------------------
(***************************************************************************)
(* The client renews its tokens, and everybody's call with them.           *)
(***************************************************************************)

\* Mutant: the refresh goes out without a token.
MutHasToken(n) == TRUE

HasToken(n) == n # NoPair

RefreshStart(c) ==
    LET n == store[AppOf(c)] IN
    /\ call[c].at = "refresh"
    /\ Goes(c, IF HasToken(n) THEN "posted" ELSE "refused", n)
    /\ UNCHANGED <<server, clock, store, refreshing>>

\* The tokens are stored, and the calls that waited are made again.
Resume(c) ==
    LET a == AppOf(c) IN
    /\ call[c].at = "renewed"
    /\ store' = [store EXCEPT ![a] = call[c].pair]
    /\ refreshing' = [refreshing EXCEPT ![a] = FALSE]
    /\ call' = [o \in Calls |-> IF o \in Queue(a) \cup {c} THEN [call[o] EXCEPT !.at = "made", !.pair = NoPair]
                                                           ELSE call[o]]
    /\ UNCHANGED <<server, clock>>

\* Mutant: the calls that waited are forgotten.
MutRejected(a) == {}

Rejected(a) == Queue(a)

\* Everybody who waits is rejected.  The browser removes the tokens and is done in the
\* same breath; a phone waits for its storage, still refreshing.
GiveUp(c) ==
    LET a == AppOf(c)
        Fail(rejected) == [o \in Calls |-> IF o \in rejected THEN Over ELSE call[o]]
    IN
    /\ call[c].at = "refused"
    /\ \/ /\ a \in Phones
          /\ call' = [Fail(Rejected(a)) EXCEPT ![c].at = "clearing"]
          /\ UNCHANGED <<store, refreshing>>
       \/ /\ a \notin Phones
          /\ call' = Fail(Rejected(a) \cup {c})
          /\ store' = [store EXCEPT ![a] = NoPair]
          /\ refreshing' = [refreshing EXCEPT ![a] = FALSE]
    /\ UNCHANGED <<server, clock>>

Cleared(c) ==
    /\ call[c].at = "clearing"
    /\ Settles(c)
    /\ store' = [store EXCEPT ![AppOf(c)] = NoPair]
    /\ refreshing' = [refreshing EXCEPT ![AppOf(c)] = FALSE]
    /\ UNCHANGED <<server, clock>>

StoreLogin(c) ==
    /\ call[c].at = "logged_in"
    /\ Settles(c)
    /\ store' = [store EXCEPT ![AppOf(c)] = call[c].pair]
    /\ UNCHANGED <<server, clock, refreshing>>

\* The server is not told.
Logout(a) ==
    /\ store[a] # NoPair
    /\ store' = [store EXCEPT ![a] = NoPair]
    /\ UNCHANGED <<server, clock, refreshing, call>>

-----------------------------------------------------------------------------
(***************************************************************************)
(* The office and the clock.                                               *)
(***************************************************************************)

\* Mutant: the update replaces the row.
MutSetActive(active) ==
    /\ user' = [active |-> active]
    /\ UNCHANGED <<issued, clock, store, refreshing, call>>

\* A driver's account is switched off and on, by what the request found before, and so
\* even after a softDelete in between; users.deactivate switches it off for good.
SetActive(active) ==
    /\ user' = [user EXCEPT !.active = active]
    /\ UNCHANGED <<issued, clock, store, refreshing, call>>

\* resetPassword of drivers, reps and suppliers.
ResetPassword ==
    /\ user' = [user EXCEPT !.refreshable = FALSE]
    /\ UNCHANGED <<issued, clock, store, refreshing, call>>

\* softDelete of a driver.
Retire ==
    /\ user' = [active |-> FALSE, refreshable |-> FALSE]
    /\ UNCHANGED <<issued, clock, store, refreshing, call>>

Expire(n) ==
    /\ n <= issued /\ n \notin expired
    /\ expired' = expired \cup {n}
    /\ UNCHANGED <<server, lapsed, store, refreshing, call>>

Lapse(n) ==
    /\ n \in expired \ lapsed
    /\ lapsed' = lapsed \cup {n}
    /\ UNCHANGED <<server, expired, store, refreshing, call>>

-----------------------------------------------------------------------------
Init ==
    /\ user = [active |-> TRUE, refreshable |-> FALSE]
    /\ issued = 0
    /\ expired = {}
    /\ lapsed = {}
    /\ store = [a \in Apps |-> NoPair]
    /\ refreshing = [a \in Apps |-> FALSE]
    /\ call = [c \in Calls |-> Over]

\* What a call in progress does next.
Proceed(c) ==
    \/ Attach(c) \/ Serve(c) \/ Refuse(c) \/ Break(c)
    \/ LoginCheck(c) \/ RefreshCheck(c) \/ Issue(c)
    \/ RefreshStart(c) \/ Resume(c) \/ GiveUp(c) \/ Cleared(c) \/ StoreLogin(c)

Around ==
    \/ \E active \in BOOLEAN : SetActive(active)
    \/ ResetPassword \/ Retire
    \/ \E n \in Pairs : Expire(n) \/ Lapse(n)

Next ==
    \/ \E c \in Calls : Proceed(c) \/ \E a \in Apps, kind \in {"query", "login"} : Make(c, a, kind)
    \/ \E a \in Apps : Logout(a)
    \/ Around

\* The event loop of a client runs every continuation, and every HTTP request ends in
\* an answer or an error.
Fairness == \A c \in Calls : WF_vars(Proceed(c))

Spec == Init /\ [][Next]_vars /\ Fairness

-----------------------------------------------------------------------------
(***************************************************************************)
(* Properties.                                                             *)
(***************************************************************************)

\* The rows of the server and the state of the clients are of their kind.
TypeOK ==
    /\ user \in [active : BOOLEAN, refreshable : BOOLEAN]
    /\ issued \in 0 .. MaxPairs
    /\ expired \subseteq Pairs /\ lapsed \subseteq expired
    /\ store \in [Apps -> Pairs \cup {NoPair}]
    /\ refreshing \in [Apps -> BOOLEAN]
    /\ call \in [Calls -> Call]
    /\ \A c \in Calls : Settled(c) <=> AppOf(c) = NoApp

Renewing(a) == {c \in Mine(a) : call[c].at \in RefreshSteps}

\* However many calls are refused at once, an app renews its tokens with one call, for
\* exactly as long as isRefreshing is set; and in a browser no call waits in the queue
\* without a refresh that will empty it.
OneRefreshServesAll ==
    \A a \in Apps :
        /\ \A c, o \in Renewing(a) : c = o
        /\ refreshing[a] <=> Renewing(a) # {}
        /\ a \notin Phones /\ Queue(a) # {} => refreshing[a]

\* A phone's call that was refused while a failed refresh was clearing the tokens.
Stranded(c) ==
    /\ call[c].at = "queued" /\ AppOf(c) \in Phones
    /\ ~refreshing[AppOf(c)] \/ \E o \in Mine(AppOf(c)) : call[o].at = "clearing"

\* Every call is answered or fails in the end, however many calls are refused at once and
\* however their refresh ends; on a phone, unless it is stranded.  (MaxPairs bounds how
\* often the token of a call that waited can expire before it is tried again.)
CallsSettle == \A c \in Calls : ~Settled(c) ~> Settled(c) \/ Stranded(c)

OnItsWay(c) == call[c].at \in {"login", "renew"}
NoneOnItsWay == \A c \in Calls : ~OnItsWay(c)

\* A user who was switched off gets no more tokens once the requests that were checked
\* before are over; nor does one whose refresh token was revoked, without a new login.
WithdrawnMeansWithdrawn ==
    [][NoneOnItsWay =>
         /\ ~user.active => issued' = issued /\ (NoneOnItsWay' \/ user'.active)
         /\ ~user.refreshable =>
              /\ issued' = issued
              /\ NoneOnItsWay' \/ \E c \in Calls : call'[c].at = "login"]_vars

\* Tokens that are on their way to the app's storage.
Arriving(a) == \E c \in Mine(a) : call[c].at \in {"login", "logged_in", "posted", "renew", "renewed"}

\* An app without tokens, and with none under way, stays without until its user logs
\* in: no call left over from before a logout brings the session back.
LoggedOutStaysOut ==
    [][\A a \in Apps :
         store[a] = NoPair /\ ~Arriving(a)
         => /\ store'[a] = NoPair
            /\ ~Arriving(a)' \/ \E c \in Mine(a) : call'[c].at = "login"]_vars

=============================================================================
