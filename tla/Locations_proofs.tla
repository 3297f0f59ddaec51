-------------------------- MODULE Locations_proofs --------------------------
(***************************************************************************)
(* Proofs about Locations for any tree and any number of requests.         *)
(*                                                                         *)
(* A request that deletes a place found nothing under it some time ago:    *)
(* IInv says that it still has nothing to lose, because who would put a    *)
(* place under it counts on it, and then it is raced.                      *)
(***************************************************************************)
EXTENDS Locations, TLAPS

\* What is about to be deleted was there, has nothing under it and nobody counts on it.
DeletesAreSafe ==
    \A q \in Requests, p \in Places :
        Deletes(q, p) =>
            /\ place[p] # "unborn"
            /\ p \in raced \/ (Childless(p) /\ \A o \in Requests : p \notin CountsOn(o))

IInv == LocationsTypeOK /\ NoOrphans /\ DeletesAreSafe

-----------------------------------------------------------------------------
\* What a request that waits, reads, imports, creates or deletes counts on.
LEMMA Counts ==
    ASSUME NEW q \in Requests
    PROVE  /\ request[q].at \in {"waiting", "delete"} => CountsOn(q) = {}
           /\ request[q].at = "create" => CountsOn(q) = {Parent[request[q].p]}
           /\ request[q].at \in {"read", "import"} => CountsOn(q) = request[q].map
BY DEF CountsOn

LEMMA Fields ==
    ASSUME NEW r \in RequestStates
    PROVE  /\ r.at = "waiting" <=> r = Waiting
           /\ r.at \in {"create", "delete"} => r.p \in Places
           /\ r.at \in {"read", "import"} => r.map \subseteq Places /\ r.sheet \in 0 .. LastLevel
BY DEF RequestStates, Waiting

\* A request that becomes another counts on what that one does, and the others on what they did.
LEMMA BecomesCounts ==
    ASSUME LocationsTypeOK, NEW q \in Requests, NEW state \in RequestStates, Becomes(q, state)
    PROVE  /\ request' \in [Requests -> RequestStates]
           /\ request'[q] = state
           /\ \A o \in Requests \ {q} : request'[o] = request[o] /\ CountsOn(o)' = CountsOn(o)
           /\ \A o \in Requests \ {q} : \A p \in Places : Deletes(o, p)' <=> Deletes(o, p)
           /\ state.at \in {"waiting", "delete"} => CountsOn(q)' = {}
           /\ state.at = "create" => CountsOn(q)' = {Parent[state.p]}
           /\ state.at \in {"read", "import"} => CountsOn(q)' = state.map
           /\ \A p \in Places : Deletes(q, p)' <=> state.at = "delete" /\ state.p = p
BY DEF LocationsTypeOK, Becomes, CountsOn, Deletes

LEMMA WaitingIsOne == Waiting \in RequestStates /\ Waiting.at = "waiting"
BY DEF Waiting, RequestStates

LEMMA InitHolds == LocationsInit => IInv
<1> SUFFICES ASSUME LocationsInit PROVE IInv
  OBVIOUS
<1>1. \A q \in Requests : request[q] = Waiting /\ CountsOn(q) = {} /\ Live = {}
  BY WaitingIsOne, Counts DEF LocationsInit, Live
<1>2. LocationsTypeOK
  BY <1>1, WaitingIsOne DEF LocationsInit, LocationsTypeOK
<1>3. NoOrphans /\ DeletesAreSafe
  BY <1>1, WaitingIsOne DEF LocationsInit, NoOrphans, DeletesAreSafe, Deletes, Live
<1> QED
  BY <1>2, <1>3 DEF IInv

-----------------------------------------------------------------------------
(***************************************************************************)
(* One lemma for each of the ways in which a step can disturb IInv.        *)
(***************************************************************************)

\* A place is born under one that a request counted on.
LEMMA BirthKeeps ==
    ASSUME IInv, NEW q \in Requests, NEW state \in RequestStates, Becomes(q, state),
           NEW p \in Places, place[p] = "unborn",
           Parent[p] = Root \/ Parent[p] \in CountsOn(q),
           place' = [place EXCEPT ![p] = "live"], raced' = raced,
           state.at \in {"waiting", "read", "import"},
           CountsOn(q)' \subseteq CountsOn(q) \cup {p}
    PROVE  IInv'
<1>0. LocationsTypeOK /\ NoOrphans /\ DeletesAreSafe
  BY DEF IInv
<1>1. Live' = Live \cup {p}
  BY <1>0 DEF Live, LocationsTypeOK
<1>2. Parent[p] \in Live \cup {Root} \cup raced
  BY <1>0 DEF LocationsTypeOK
<1>3. LocationsTypeOK'
  <2>1. place' \in [Places -> {"unborn", "live", "gone"}]
    BY <1>0 DEF LocationsTypeOK
  <2>2. \A o \in Requests : CountsOn(o)' \subseteq CountsOn(o) \cup {p}
    BY <1>0, BecomesCounts
  <2> QED
    BY <1>0, <1>1, <2>1, <2>2, BecomesCounts DEF LocationsTypeOK
<1>4. NoOrphans'
  BY <1>0, <1>1, <1>2 DEF NoOrphans
<1>5. DeletesAreSafe'
  <2> SUFFICES ASSUME NEW o \in Requests, NEW d \in Places, Deletes(o, d)'
               PROVE  /\ place'[d] # "unborn"
                      /\ d \in raced \/ (Childless(d)' /\ \A r \in Requests : d \notin CountsOn(r)')
    BY DEF DeletesAreSafe
  <2>1. o # q /\ Deletes(o, d)
    BY <1>0, BecomesCounts
  <2>2. place[d] # "unborn" /\ d # p /\ place'[d] = place[d]
    BY <1>0, <2>1 DEF DeletesAreSafe, LocationsTypeOK
  <2>3. CASE d \in raced
    BY <2>2, <2>3
  <2>4. CASE d \notin raced
    <3>1. Childless(d) /\ \A r \in Requests : d \notin CountsOn(r)
      BY <1>0, <2>1, <2>4 DEF DeletesAreSafe
    <3>2. Parent[p] # d
      BY <3>1, TreeAssumption
    <3>3. Childless(d)'
      BY <1>1, <3>1, <3>2 DEF Childless, Under
    <3>4. \A r \in Requests : d \notin CountsOn(r)'
      BY <1>0, <2>2, <3>1, BecomesCounts
    <3> QED
      BY <2>2, <3>3, <3>4
  <2> QED
    BY <2>3, <2>4
<1> QED
  BY <1>3, <1>4, <1>5 DEF IInv

\* A request begins to count on places that are live, and those being deleted are raced.
LEMMA CountingKeeps ==
    ASSUME IInv, NEW q \in Requests, NEW state \in RequestStates, Becomes(q, state),
           NEW places, places \subseteq Live \cup {Root}, BeginsOn(places),
           place' = place, state.at \in {"waiting", "create", "read", "import"},
           CountsOn(q)' \subseteq CountsOn(q) \cup places
    PROVE  IInv'
<1>0. LocationsTypeOK /\ NoOrphans /\ DeletesAreSafe
  BY DEF IInv
<1>1. /\ raced \subseteq raced' /\ Live' = Live
      /\ \A p \in places : (\E o \in Requests : Deletes(o, p)) => p \in raced'
  BY DEF BeginsOn, Live
<1>2. raced' \subseteq Places
  <2>1. \A o \in Requests : ~Deletes(o, Root)
    BY <1>0, Fields, TreeAssumption DEF Deletes, LocationsTypeOK
  <2> QED
    BY <1>0, <2>1 DEF BeginsOn, LocationsTypeOK, Live
<1>3. \A o \in Requests : CountsOn(o)' \subseteq CountsOn(o) \cup places
  BY <1>0, BecomesCounts
<1>4. LocationsTypeOK'
  BY <1>0, <1>1, <1>2, <1>3, BecomesCounts DEF LocationsTypeOK
<1>5. NoOrphans'
  BY <1>0, <1>1 DEF NoOrphans
<1>6. DeletesAreSafe'
  <2> SUFFICES ASSUME NEW o \in Requests, NEW d \in Places, Deletes(o, d)'
               PROVE  /\ place'[d] # "unborn"
                      /\ d \in raced' \/ (Childless(d)' /\ \A r \in Requests : d \notin CountsOn(r)')
    BY DEF DeletesAreSafe
  <2>1. Deletes(o, d)
    BY <1>0, BecomesCounts
  <2>2. place[d] # "unborn" /\ (d \in raced \/ (Childless(d) /\ \A r \in Requests : d \notin CountsOn(r)))
    BY <1>0, <2>1 DEF DeletesAreSafe
  <2>3. CASE d \in places \/ d \in raced
    BY <1>1, <2>1, <2>2, <2>3
  <2>4. CASE d \notin places /\ d \notin raced
    <3>1. Childless(d)'
      BY <1>1, <2>2, <2>4 DEF Childless, Under
    <3> QED
      BY <1>3, <2>2, <2>4, <3>1
  <2> QED
    BY <2>3, <2>4
<1> QED
  BY <1>4, <1>5, <1>6 DEF IInv

\* A place with nothing under it is about to be deleted.
LEMMA RemovalLoadKeeps ==
    ASSUME IInv, NEW q \in Requests, NEW p \in Places, RemovalLoad(q, p)
    PROVE  IInv'
<1> DEFINE state == [at |-> "delete", p |-> p]
<1>0. LocationsTypeOK /\ NoOrphans /\ DeletesAreSafe
  BY DEF IInv
<1>1. state \in RequestStates /\ Becomes(q, state) /\ state.at = "delete" /\ state.p = p
  BY DEF RequestStates, RemovalLoad
<1> HIDE DEF state
<1>2. /\ CountsOn(q)' = {} /\ \A o \in Requests : CountsOn(o)' \subseteq CountsOn(o)
      /\ \A o \in Requests, d \in Places : Deletes(o, d)' => (Deletes(o, d) \/ d = p)
  BY <1>0, <1>1, BecomesCounts
<1>3. /\ raced \subseteq raced' /\ raced' \subseteq raced \cup {p} /\ Live' = Live /\ place' = place
      /\ (\E o \in Requests : p \in CountsOn(o)) => p \in raced'
  BY DEF RemovalLoad, Live
<1>4. LocationsTypeOK'
  BY <1>0, <1>1, <1>2, <1>3, BecomesCounts DEF LocationsTypeOK
<1>5. NoOrphans'
  BY <1>0, <1>3 DEF NoOrphans
<1>6. p \in Live /\ Childless(p)
  BY DEF RemovalLoad
<1>7. \A d \in Places : Childless(d)' <=> Childless(d)
  BY <1>3 DEF Childless, Under
<1>8. DeletesAreSafe'
  BY <1>0, <1>2, <1>3, <1>6, <1>7 DEF DeletesAreSafe, Live
<1> QED
  BY <1>4, <1>5, <1>8 DEF IInv

\* The place is deleted.
LEMMA DeleteKeeps ==
    ASSUME IInv, NEW q \in Requests, Delete(q)
    PROVE  IInv'
<1> DEFINE p == request[q].p
<1>0. LocationsTypeOK /\ NoOrphans /\ DeletesAreSafe
  BY DEF IInv
<1>1. p \in Places /\ Deletes(q, p)
  BY <1>0, Fields DEF Delete, Deletes, LocationsTypeOK
<1>2. place' = [place EXCEPT ![p] = "gone"] /\ raced' = raced /\ Becomes(q, Waiting)
  BY DEF Delete
<1> HIDE DEF p
<1>3. Live' = Live \ {p}
  BY <1>0, <1>1, <1>2 DEF Live, LocationsTypeOK
<1>4. /\ \A o \in Requests : CountsOn(o)' \subseteq CountsOn(o)
      /\ \A o \in Requests, d \in Places : Deletes(o, d)' => Deletes(o, d)
  BY <1>0, <1>2, BecomesCounts, WaitingIsOne
<1>5. p \in raced \/ (Childless(p) /\ \A o \in Requests : p \notin CountsOn(o))
  BY <1>0, <1>1 DEF DeletesAreSafe
<1>6. LocationsTypeOK'
  <2>1. place' \in [Places -> {"unborn", "live", "gone"}]
    BY <1>0, <1>2 DEF LocationsTypeOK
  <2>2. \A o \in Requests : CountsOn(o)' \subseteq Live' \cup {Root} \cup raced'
    BY <1>0, <1>2, <1>3, <1>4, <1>5 DEF LocationsTypeOK
  <2> QED
    BY <1>0, <1>2, <2>1, <2>2, BecomesCounts, WaitingIsOne DEF LocationsTypeOK
<1>7. NoOrphans'
  <2> SUFFICES ASSUME NEW c \in Live' PROVE Parent[c] \in Live' \cup {Root} \cup raced'
    BY DEF NoOrphans
  <2>1. c \in Live /\ c \in Places /\ Parent[c] \in Live \cup {Root} \cup raced
    BY <1>0, <1>3 DEF NoOrphans, Live
  <2>2. CASE Parent[c] = p
    BY <1>2, <1>5, <2>1, <2>2 DEF Childless, Under
  <2>3. CASE Parent[c] # p
    BY <1>2, <1>3, <2>1, <2>3
  <2> QED
    BY <2>2, <2>3
<1>8. DeletesAreSafe'
  <2>1. \A d \in Places : Childless(d) => Childless(d)'
    BY <1>3 DEF Childless, Under
  <2>2. \A d \in Places : place[d] # "unborn" => place'[d] # "unborn"
    BY <1>0, <1>1, <1>2 DEF LocationsTypeOK
  <2> QED
    BY <1>0, <1>2, <1>4, <2>1, <2>2 DEF DeletesAreSafe
<1> QED
  BY <1>6, <1>7, <1>8 DEF IInv

LEMMA StepKeeps == IInv /\ [LocationsNext]_locationsVars => IInv'
<1> SUFFICES ASSUME IInv, [LocationsNext]_locationsVars PROVE IInv'
  OBVIOUS
<1>0. LocationsTypeOK
  BY DEF IInv
<1>1. ASSUME NEW q \in Requests, NEW p \in Places, CreateLoad(q, p) PROVE IInv'
  <2> DEFINE state == [at |-> "create", p |-> p]
  <2>1. state \in RequestStates /\ Becomes(q, state) /\ state.at = "create" /\ state.p = p
    BY <1>1 DEF RequestStates, CreateLoad
  <2> HIDE DEF state
  <2>2. CountsOn(q)' = {Parent[p]}
    BY <1>0, <2>1, BecomesCounts
  <2>3. {Parent[p]} \subseteq Live \cup {Root} /\ BeginsOn({Parent[p]}) /\ place' = place
    BY <1>1 DEF CreateLoad
  <2> QED
    BY <2>1, <2>2, <2>3, CountingKeeps
<1>2. ASSUME NEW q \in Requests, Create(q) PROVE IInv'
  <2>1. request[q].p \in Places /\ CountsOn(q) = {Parent[request[q].p]}
    BY <1>0, <1>2, Fields, Counts DEF Create, LocationsTypeOK
  <2>2. CountsOn(q)' = {}
    BY <1>0, <1>2, WaitingIsOne, BecomesCounts DEF Create
  <2> QED
    BY <1>2, <2>1, <2>2, WaitingIsOne, BirthKeeps DEF Create
<1>3. ASSUME NEW q \in Requests, Import(q) PROVE IInv'
  <2> DEFINE state == [at |-> "read", map |-> {}, sheet |-> 0]
  <2>1. state \in RequestStates /\ Becomes(q, state) /\ state.at = "read" /\ state.map = {}
    BY <1>3, TreeAssumption DEF RequestStates, Import
  <2> HIDE DEF state
  <2>2. CountsOn(q)' = {} /\ BeginsOn({}) /\ place' = place
    BY <1>0, <1>3, <2>1, BecomesCounts DEF Import, BeginsOn
  <2> QED
    BY <2>1, <2>2, CountingKeeps
<1>4. ASSUME NEW q \in Requests, ImportRead(q) PROVE IInv'
  <2> DEFINE r == request[q]
             known == Known(r.sheet)
             state == IF r.sheet + 1 < LastLevel
                      THEN [at |-> "read", map |-> r.map \cup known, sheet |-> r.sheet + 1]
                      ELSE [at |-> "import", map |-> r.map \cup known, sheet |-> 0]
  <2>1. r.at = "read" /\ r.map \subseteq Places /\ r.sheet \in 0 .. LastLevel /\ CountsOn(q) = r.map
    BY <1>0, <1>4, Fields, Counts DEF ImportRead, LocationsTypeOK
  <2>2. known \subseteq Live /\ known \subseteq Places /\ BeginsOn(known) /\ place' = place /\ Becomes(q, state)
    BY <1>4 DEF Known, Live, ImportRead
  <2>3. /\ r.sheet + 1 < LastLevel => r.sheet + 1 \in 0 .. LastLevel
        /\ 0 \in 0 .. LastLevel
    BY <2>1, TreeAssumption
  <2>4. state \in RequestStates /\ state.at \in {"read", "import"} /\ state.map = CountsOn(q) \cup known
    BY <2>1, <2>2, <2>3 DEF RequestStates
  <2> HIDE DEF state, known
  <2>5. CountsOn(q)' = CountsOn(q) \cup known
    BY <1>0, <2>2, <2>4, BecomesCounts
  <2> QED
    BY <2>2, <2>4, <2>5, CountingKeeps
<1>5. ASSUME NEW q \in Requests, NEW p \in Places, ImportCreate(q, p) PROVE IInv'
  <2> DEFINE state == [request[q] EXCEPT !.map = @ \cup {p}]
  <2>1. request[q] \in RequestStates /\ request[q].at = "import" /\ CountsOn(q) = request[q].map
    BY <1>0, <1>5, Counts DEF ImportCreate, LocationsTypeOK
  <2>2. state \in RequestStates /\ state.at = "import" /\ state.map = CountsOn(q) \cup {p}
    BY <2>1 DEF RequestStates, Waiting
  <2>3. Becomes(q, state) /\ place[p] = "unborn" /\ (Parent[p] = Root \/ Parent[p] \in CountsOn(q))
        /\ place' = [place EXCEPT ![p] = "live"] /\ raced' = raced
    BY <1>5, <2>1 DEF ImportCreate
  <2> HIDE DEF state
  <2>4. CountsOn(q)' = CountsOn(q) \cup {p}
    BY <1>0, <2>2, <2>3, BecomesCounts
  <2> QED
    BY <2>2, <2>3, <2>4, BirthKeeps
<1>6. ASSUME NEW q \in Requests, NextSheet(q) PROVE IInv'
  <2> DEFINE state == [request[q] EXCEPT !.sheet = @ + 1]
  <2>1. request[q] \in RequestStates /\ request[q].at = "import" /\ CountsOn(q) = request[q].map
        /\ request[q].sheet \in 0 .. LastLevel /\ request[q].sheet + 1 \in 0 .. LastLevel
    BY <1>0, <1>6, Counts, Fields, TreeAssumption DEF NextSheet, LocationsTypeOK
  <2>2. state \in RequestStates /\ state.at = "import" /\ state.map = CountsOn(q)
    BY <2>1 DEF RequestStates, Waiting
  <2>3. Becomes(q, state) /\ BeginsOn({}) /\ place' = place
    BY <1>6 DEF NextSheet, BeginsOn
  <2> HIDE DEF state
  <2>4. CountsOn(q)' = CountsOn(q)
    BY <1>0, <2>2, <2>3, BecomesCounts
  <2> QED
    BY <2>2, <2>3, <2>4, CountingKeeps
<1>7. ASSUME NEW q \in Requests, End(q) PROVE IInv'
  <2>1. CountsOn(q)' = {} /\ BeginsOn({}) /\ place' = place /\ Becomes(q, Waiting)
    BY <1>0, <1>7, WaitingIsOne, BecomesCounts DEF End, BeginsOn
  <2> QED
    BY <2>1, WaitingIsOne, CountingKeeps
<1>8. CASE UNCHANGED locationsVars
  <2>1. place' = place /\ request' = request /\ raced' = raced
    BY <1>8 DEF locationsVars
  <2> QED
    BY <2>1 DEF IInv, LocationsTypeOK, NoOrphans, DeletesAreSafe, Deletes, CountsOn, Live, Childless, Under
<1> QED
  BY <1>1, <1>2, <1>3, <1>4, <1>5, <1>6, <1>7, <1>8, RemovalLoadKeeps, DeleteKeeps DEF LocationsNext

-----------------------------------------------------------------------------
LEMMA Invariant == LocationsSpec => []IInv
BY InitHolds, StepKeeps, PTL DEF LocationsSpec

\* The code's requests in any number, on any tree: what a request counts on is there or was
\* deleted behind its back.
THEOREM PlacesCountedOnAreThere == LocationsSpec => []LocationsTypeOK
<1>1. IInv => LocationsTypeOK
  BY DEF IInv
<1> QED
  BY <1>1, Invariant, PTL

\* No place is orphaned by creations, deletions and imports that do not race for its parent.
THEOREM TreeStaysWhole == LocationsSpec => []NoOrphans
<1>1. IInv => NoOrphans
  BY DEF IInv
<1> QED
  BY <1>1, Invariant, PTL

=============================================================================
