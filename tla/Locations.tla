----------------------------- MODULE Locations -----------------------------
(***************************************************************************)
(* The tree of locations: countries, airports, cities, zones and hotels.   *)
(* A place is created under one that is there, and deleted when nothing is *)
(* under it; a workbook is imported sheet after sheet, against a map of    *)
(* the places that were there when the import began.                       *)
(*                                                                         *)
(* A deleted place keeps its row, so no foreign key watches over the tree. *)
(***************************************************************************)
EXTENDS Naturals

CONSTANTS
    Places,         \* bound: the rows ever made
    Parent,         \* the place a place is under; Root for a country
    Level,          \* the sheet of a place: 0 for countries
    Root,
    LastLevel,      \* that of the hotels
    Requests        \* requests that can be in progress at once

ASSUME TreeAssumption ==
    /\ Root \notin Places
    /\ Parent \in [Places -> Places \cup {Root}]
    /\ LastLevel \in Nat \ {0} /\ Level \in [Places -> 0 .. LastLevel]
    /\ \A p \in Places : Parent[p] \in Places => Level[p] = Level[Parent[p]] + 1

VARIABLES
    place,          \* unborn, live or gone (deletedAt)
    request,        \* requests in progress
    raced           \* history: the places deleted while a request counted on them

locationsVars == <<place, request, raced>>

Waiting == [at |-> "waiting"]

RequestStates ==
    {Waiting}
    \cup [at : {"create", "delete"}, p : Places]
    \cup [at : {"read", "import"}, map : SUBSET Places, sheet : 0 .. LastLevel]

Live == {p \in Places : place[p] = "live"}

Under(p) == {c \in Places : Parent[c] = p}

\* Places a request found live, and is to put others under.
CountsOn(q) == CASE request[q].at = "create" -> {Parent[request[q].p]}
                 [] request[q].at \in {"read", "import"} -> request[q].map
                 [] OTHER -> {}

Deletes(q, p) == request[q].at = "delete" /\ request[q].p = p

Becomes(q, state) == request' = [request EXCEPT ![q] = state]

\* A place a request begins to count on is raced when it is being deleted.
BeginsOn(places) ==
    raced' = raced \cup {p \in places : \E o \in Requests : Deletes(o, p)}

-----------------------------------------------------------------------------
\* createCountry looks for nothing, the others for the place above.
CreateLoad(q, p) ==
    /\ request[q] = Waiting
    /\ place[p] = "unborn" /\ Parent[p] \in Live \cup {Root}
    /\ Becomes(q, [at |-> "create", p |-> p])
    /\ BeginsOn({Parent[p]})
    /\ UNCHANGED place

Create(q) ==
    LET p == request[q].p IN
    /\ request[q].at = "create" /\ place[p] = "unborn"
    /\ place' = [place EXCEPT ![p] = "live"]
    /\ Becomes(q, Waiting)
    /\ UNCHANGED raced

\* Mutant: what is under the place is not looked at.
MutChildless(p) == TRUE

Childless(p) == Under(p) \cap Live = {}

RemovalLoad(q, p) ==
    /\ request[q] = Waiting
    /\ p \in Live /\ Childless(p)
    /\ Becomes(q, [at |-> "delete", p |-> p])
    /\ raced' = IF \E o \in Requests : p \in CountsOn(o) THEN raced \cup {p} ELSE raced
    /\ UNCHANGED place

Delete(q) ==
    /\ request[q].at = "delete"
    /\ place' = [place EXCEPT ![request[q].p] = "gone"]
    /\ Becomes(q, Waiting)
    /\ UNCHANGED raced

Import(q) ==
    /\ request[q] = Waiting
    /\ Becomes(q, [at |-> "read", map |-> {}, sheet |-> 0])
    /\ UNCHANGED <<place, raced>>

\* Mutant: deleted places are in the map too.
MutKnown(sheet) == {p \in Places : place[p] # "unborn" /\ Level[p] = sheet}

Known(sheet) == {p \in Live : Level[p] = sheet}

\* The map is filled by one query for each sheet but the last.
ImportRead(q) ==
    LET r == request[q]
        known == Known(r.sheet)
    IN
    /\ r.at = "read"
    /\ Becomes(q, IF r.sheet + 1 < LastLevel
                  THEN [at |-> "read", map |-> r.map \cup known, sheet |-> r.sheet + 1]
                  ELSE [at |-> "import", map |-> r.map \cup known, sheet |-> 0])
    /\ BeginsOn(known)
    /\ UNCHANGED place

\* A line of the sheet whose parent the map knows; one that fails is reported and left.
ImportCreate(q, p) ==
    /\ request[q].at = "import"
    /\ Level[p] = request[q].sheet
    /\ Parent[p] \in request[q].map \cup {Root}
    /\ place[p] = "unborn"
    /\ place' = [place EXCEPT ![p] = "live"]
    /\ Becomes(q, [request[q] EXCEPT !.map = @ \cup {p}])
    /\ UNCHANGED raced

NextSheet(q) ==
    /\ request[q].at = "import" /\ request[q].sheet < LastLevel
    /\ Becomes(q, [request[q] EXCEPT !.sheet = @ + 1])
    /\ UNCHANGED <<place, raced>>

\* An answer, an error or the end of the server: what an import created stays.
End(q) ==
    /\ request[q] # Waiting
    /\ Becomes(q, Waiting)
    /\ UNCHANGED <<place, raced>>

LocationsInit ==
    /\ place = [p \in Places |-> "unborn"]
    /\ request = [q \in Requests |-> Waiting]
    /\ raced = {}

LocationsNext ==
    \E q \in Requests :
        \/ \E p \in Places : CreateLoad(q, p) \/ RemovalLoad(q, p) \/ ImportCreate(q, p)
        \/ Create(q) \/ Delete(q) \/ Import(q) \/ ImportRead(q) \/ NextSheet(q) \/ End(q)

LocationsSpec == LocationsInit /\ [][LocationsNext]_locationsVars

-----------------------------------------------------------------------------
\* Places and requests are of their kind, and a request counts on places that are there, or
\* were deleted behind its back.
LocationsTypeOK ==
    /\ place \in [Places -> {"unborn", "live", "gone"}]
    /\ request \in [Requests -> RequestStates]
    /\ raced \subseteq Places
    /\ \A q \in Requests : CountsOn(q) \subseteq Live \cup {Root} \cup raced

\* No place is left under one that is gone, whatever is created, deleted and imported, unless
\* that one was deleted while a request counted on it.
NoOrphans == \A p \in Live : Parent[p] \in Live \cup {Root} \cup raced

=============================================================================
