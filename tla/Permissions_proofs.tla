------------------------- MODULE Permissions_proofs -------------------------
(***************************************************************************)
(* Proofs about Permissions for any users, roles, hierarchy of keys,       *)
(* lifetime of the cache and number of requests.                           *)
(*                                                                         *)
(* The invariant has two halves.  RightsInv is about roles and changes of  *)
(* them: a change that saw the key above another saw that other one too,   *)
(* so that the rows it leaves are closed.  GuardInv is about the guard:    *)
(* whatever is on its way to the cache or in it was so at one moment, from *)
(* which its minute counts.                                                *)
(***************************************************************************)
EXTENDS Permissions, TLAPS

RightsType ==
    /\ role \in [Roles -> {"unborn", "live", "gone"}]
    /\ grants \in [Roles -> SUBSET Keys]
    /\ roleOf \in [Users -> Named \cup {NoUser}]
    /\ \A r \in Roles \ Named : grants[r] = {}
    /\ legacyAdmin \subseteq Users
    /\ edit \in [Edits -> EditStates]

\* What a change of a role's keys saw of it: rows that are there, and with a key those below.
SawWhole(e) ==
    LET r == edit[e].r IN
    /\ edit[e].seen \subseteq grants[r]
    /\ \A k \in grants[r] : \A a \in Above[k] : a \in edit[e].seen => k \in edit[e].seen

EditsSound ==
    \A e \in Edits :
        /\ edit[e] # Idle => role[edit[e].r] # "unborn"
        /\ edit[e].at = "set" => Closed(edit[e].keys)
        /\ edit[e].at = "set" /\ role[edit[e].r] = "live" => SawWhole(e)

RightsInv == RightsType /\ EditsSound /\ GrantsAreClosed

\* The key was granted to the user, by a role of then, at s or later.
Backed(u, k, s) ==
    \E r \in AllRoles : s <= actedAs[u][r] /\ (r # Admin => s <= granted[r][k])

GuardType ==
    /\ cache \in [Users -> Entry \cup {None}]
    /\ guard \in [Guards -> GuardStates]
    /\ now \in Times /\ now >= 1
    /\ actedAs \in [Users -> [AllRoles -> Times]]
    /\ granted \in [Roles -> [Keys -> Times]]

HistoryIsPast ==
    /\ \A u \in Users, r \in AllRoles : actedAs[u][r] <= now
    /\ \A r \in Roles, k \in Keys : granted[r][k] <= now

GuardFresh(p) ==
    LET g == guard[p] IN
    /\ g.at \in {"user", "role", "store"} => 1 <= g.start /\ g.start <= now
    /\ g.at = "role" => g.start <= actedAs[g.u][g.r]
    /\ g.at = "store" => \A k \in g.keys : Backed(g.u, k, g.start)
    /\ g.at = "answered" =>
         \E s \in Times : 1 <= s /\ g.start < s + TTL /\ \A k \in g.keys : Backed(g.u, k, s)

CacheFresh(u) ==
    cache[u] # None =>
        \E s \in Times : 1 <= s /\ cache[u].expires = s + TTL /\ \A k \in cache[u].keys : Backed(u, k, s)

GuardInv ==
    /\ GuardType /\ HistoryIsPast
    /\ \A p \in Guards : GuardFresh(p)
    /\ \A u \in Users : CacheFresh(u)

-----------------------------------------------------------------------------
LEMMA EditKinds ==
    ASSUME NEW s \in EditStates
    PROVE  /\ s.at = "idle" <=> s = Idle
           /\ s # Idle => s.r \in Roles
           /\ s.at = "set" => s.keys \subseteq Keys /\ s.seen \subseteq Keys
BY DEF EditStates, Idle

LEMMA IdleIsOne == Idle \in EditStates /\ Idle \in GuardStates /\ Idle.at = "idle"
BY DEF EditStates, GuardStates, Idle

LEMMA AncestorsClose ==
    ASSUME NEW keys \in SUBSET Keys
    PROVE  WithAncestors(keys) \in SUBSET Keys /\ Closed(WithAncestors(keys))
<1>1. \A k \in keys : Above[k] \subseteq Keys
  BY KeysAssumption
<1>2. WithAncestors(keys) \subseteq Keys
  BY <1>1 DEF WithAncestors
<1>3. ASSUME NEW k \in WithAncestors(keys), NEW a \in Above[k] PROVE a \in WithAncestors(keys)
  BY <1>3, KeysAssumption DEF WithAncestors
<1> QED
  BY <1>2, <1>3 DEF Closed

LEMMA RightsInitHold == PermissionsInit => RightsInv
<1> SUFFICES ASSUME PermissionsInit PROVE RightsInv
  OBVIOUS
<1>1. RightsType
  BY IdleIsOne, RolesAssumption DEF PermissionsInit, RightsType, Named
<1>2. EditsSound /\ GrantsAreClosed
  BY IdleIsOne DEF PermissionsInit, EditsSound, GrantsAreClosed, Closed
<1> QED
  BY <1>1, <1>2 DEF RightsInv

\* A change of a role replaces the rows it saw.
LEMMA SetCommitKeeps ==
    ASSUME RightsInv, NEW e \in Edits, SetCommit(e)
    PROVE  RightsInv'
<1> DEFINE r == edit[e].r
           seen == edit[e].seen
           keys == edit[e].keys
           kept == grants[r] \ seen
<1>0. RightsType /\ EditsSound /\ GrantsAreClosed
  BY DEF RightsInv
<1>1. edit[e].at = "set" /\ r \in Roles /\ keys \subseteq Keys /\ seen \subseteq Keys /\ role[r] = "live"
      /\ kept \cap keys = {} /\ UNCHANGED <<role, roleOf, legacyAdmin>>
      /\ grants' = [grants EXCEPT ![r] = kept \cup keys]
  BY <1>0, EditKinds, IdleIsOne DEF SetCommit, RightsType
<1>2. edit' = [o \in Edits |-> IF o = e THEN Idle
                               ELSE IF edit[o].at = "set" /\ edit[o].r = r
                                    THEN [edit[o] EXCEPT !.seen = @ \ seen]
                                    ELSE edit[o]]
  BY DEF SetCommit
<1>3. Closed(keys) /\ seen \subseteq grants[r]
      /\ \A k \in grants[r] : \A a \in Above[k] : a \in grants[r] /\ (a \in seen => k \in seen)
  BY <1>0, <1>1 DEF EditsSound, SawWhole, GrantsAreClosed, Closed
<1>4. /\ grants' \in [Roles -> SUBSET Keys] /\ grants'[r] = kept \cup keys
      /\ \A s \in Roles \ {r} : grants'[s] = grants[s]
  BY <1>0, <1>1 DEF RightsType
<1>5. ASSUME NEW o \in Edits
      PROVE  /\ edit'[o] \in EditStates
             /\ edit'[o] # Idle => o # e /\ edit'[o].at = edit[o].at /\ edit'[o].r = edit[o].r
             /\ edit'[o].at = "set" =>
                  /\ o # e /\ edit[o].at = "set" /\ edit'[o].keys = edit[o].keys
                  /\ edit'[o].seen = IF edit[o].r = r THEN edit[o].seen \ seen ELSE edit[o].seen
  <2>1. CASE o = e
    BY <1>2, <2>1, IdleIsOne
  <2>2. CASE o # e /\ edit[o].at = "set" /\ edit[o].r = r
    <3>1. edit[o] \in [at : {"set"}, r : Roles, keys : SUBSET Keys, seen : SUBSET Keys]
      BY <1>0, <2>2 DEF RightsType, EditStates, Idle
    <3>2. edit'[o] = [edit[o] EXCEPT !.seen = @ \ seen]
      BY <1>2, <2>2
    <3> QED
      BY <2>2, <3>1, <3>2 DEF EditStates
  <2>3. CASE o # e /\ ~(edit[o].at = "set" /\ edit[o].r = r)
    BY <1>0, <1>2, <2>3 DEF RightsType
  <2> QED
    BY <2>1, <2>2, <2>3
<1>6. edit' \in [Edits -> EditStates]
  BY <1>2, <1>5
<1> HIDE DEF r, seen, keys, kept
<1>7. Named' = Named
  BY <1>1 DEF Named
<1>8. RightsType'
  BY <1>0, <1>1, <1>4, <1>6, <1>7 DEF RightsType, Named
<1>9. kept \subseteq grants[r] /\ \A k \in grants[r] : k \in kept <=> k \notin seen
  BY DEF kept
<1>10. \A k \in kept \cup keys : \A a \in Above[k] :
         a \in kept \cup keys /\ (k \in keys => a \in keys) /\ (k \in kept => a \in kept)
  BY <1>3, <1>9 DEF Closed
<1>11. GrantsAreClosed'
  <2> SUFFICES ASSUME NEW s \in Roles, NEW k \in grants'[s], NEW a \in Above[k] PROVE a \in grants'[s]
    BY DEF GrantsAreClosed, Closed
  <2>1. CASE s = r
    BY <1>4, <1>10, <2>1
  <2>2. CASE s # r
    BY <1>0, <1>4, <2>2 DEF GrantsAreClosed, Closed
  <2> QED
    BY <2>1, <2>2
<1>12. ASSUME NEW o \in Edits, edit'[o].at = "set", role'[edit'[o].r] = "live" PROVE SawWhole(o)'
  <2>1. /\ edit[o].at = "set" /\ edit'[o].r = edit[o].r /\ edit[o].r \in Roles /\ role[edit[o].r] = "live"
        /\ edit'[o].seen = IF edit[o].r = r THEN edit[o].seen \ seen ELSE edit[o].seen
    BY <1>0, <1>1, <1>5, <1>12, EditKinds, IdleIsOne DEF RightsType
  <2>2. SawWhole(o)
    BY <1>0, <2>1 DEF EditsSound
  <2>3. CASE edit[o].r # r
    <3>1. grants'[edit'[o].r] = grants[edit[o].r] /\ edit'[o].seen = edit[o].seen
      BY <1>4, <2>1, <2>3
    <3> QED
      BY <2>1, <2>2, <3>1 DEF SawWhole
  <2>4. CASE edit[o].r = r
    <3>1. edit'[o].seen = edit[o].seen \ seen /\ edit[o].seen \subseteq grants[r] /\ edit'[o].seen \subseteq kept
      BY <1>9, <2>1, <2>2, <2>4 DEF SawWhole
    <3>2. \A k \in kept \cup keys : \A a \in Above[k] : a \in edit'[o].seen => k \in edit'[o].seen
      <4> SUFFICES ASSUME NEW k \in kept \cup keys, NEW a \in Above[k], a \in edit'[o].seen
                   PROVE  k \in edit'[o].seen
        OBVIOUS
      <4>1. a \in kept /\ k \notin keys /\ k \in kept
        BY <1>1, <1>10, <3>1
      <4>2. k \in edit[o].seen
        BY <1>9, <2>2, <2>4, <3>1, <4>1 DEF SawWhole
      <4> QED
        BY <1>9, <3>1, <4>1, <4>2
    <3> QED
      BY <1>4, <2>1, <2>4, <3>1, <3>2 DEF SawWhole
  <2> QED
    BY <2>3, <2>4
<1>13. EditsSound'
  <2>1. ASSUME NEW o \in Edits PROVE edit'[o] # Idle => role'[edit'[o].r] # "unborn"
    BY <1>0, <1>1, <1>5, IdleIsOne, EditKinds DEF EditsSound, RightsType
  <2>2. ASSUME NEW o \in Edits, edit'[o].at = "set" PROVE Closed(edit'[o].keys)
    BY <1>0, <1>5, <2>2 DEF EditsSound
  <2>3. ASSUME NEW o \in Edits, edit'[o].at = "set" PROVE Closed(edit[o].keys)'
    BY <2>2, <2>3 DEF Closed
  <2> QED
    BY <1>12, <2>1, <2>3 DEF EditsSound
<1> QED
  BY <1>8, <1>11, <1>13 DEF RightsInv

\* A change of a role begins, or a request that changes a role ends or is given up.
LEMMA EditKeeps ==
    ASSUME RightsInv, NEW e \in Edits, NEW s \in EditStates,
           edit' = [edit EXCEPT ![e] = s], UNCHANGED rights,
           s # Idle => role[s.r] = "live",
           s.at = "set" => Closed(s.keys) /\ s.seen = grants[s.r]
    PROVE  RightsInv'
<1>0. RightsType /\ EditsSound /\ GrantsAreClosed
  BY DEF RightsInv
<1>1. UNCHANGED <<role, grants, roleOf, legacyAdmin>>
  BY DEF rights
<1>2. edit' \in [Edits -> EditStates] /\ edit'[e] = s /\ \A o \in Edits \ {e} : edit'[o] = edit[o]
  BY <1>0 DEF RightsType
<1>3. RightsType' /\ GrantsAreClosed'
  BY <1>0, <1>1, <1>2 DEF RightsType, Named, GrantsAreClosed, Closed
<1>4. EditsSound'
  BY <1>0, <1>1, <1>2 DEF EditsSound, SawWhole, Closed
<1> QED
  BY <1>3, <1>4 DEF RightsInv

\* Users and roles come, and users change.
LEMMA PeopleKeep ==
    ASSUME RightsInv, UNCHANGED <<grants, edit>>,
           role' \in [Roles -> {"unborn", "live", "gone"}],
           \A r \in Roles : role'[r] = role[r] \/ (role[r] = "unborn" /\ role'[r] = "live"),
           roleOf' \in [Users -> Named' \cup {NoUser}],
           legacyAdmin' \subseteq Users
    PROVE  RightsInv'
<1>0. RightsType /\ EditsSound /\ GrantsAreClosed
  BY DEF RightsInv
<1>1. Named \subseteq Named'
  BY DEF Named
<1>2. RightsType' /\ GrantsAreClosed'
  BY <1>0, <1>1 DEF RightsType, GrantsAreClosed, Closed
<1>3. \A e \in Edits : edit[e] # Idle => edit[e].r \in Roles
  BY <1>0, EditKinds DEF RightsType
<1>4. \A e \in Edits : edit[e].at = "set" => edit[e] # Idle
  BY IdleIsOne
<1>5. EditsSound'
  BY <1>0, <1>3, <1>4 DEF EditsSound, SawWhole, Closed
<1> QED
  BY <1>2, <1>5 DEF RightsInv

\* A role goes, with its rows and from its users.
LEMMA DeleteCommitKeeps ==
    ASSUME RightsInv, NEW e \in Edits, DeleteCommit(e)
    PROVE  RightsInv'
<1> DEFINE r == edit[e].r
<1>0. RightsType /\ EditsSound /\ GrantsAreClosed
  BY DEF RightsInv
<1>1. /\ r \in Roles /\ role[r] = "live" /\ legacyAdmin' = legacyAdmin
      /\ role' = [role EXCEPT ![r] = "gone"] /\ grants' = [grants EXCEPT ![r] = {}]
      /\ roleOf' = [u \in Users |-> IF roleOf[u] = r THEN None ELSE roleOf[u]]
      /\ edit' = [edit EXCEPT ![e] = Idle]
  BY <1>0, EditKinds, IdleIsOne DEF DeleteCommit, RightsType, WithoutRole, EditDone
<1>2. edit' \in [Edits -> EditStates] /\ edit'[e] = Idle /\ \A o \in Edits \ {e} : edit'[o] = edit[o]
  BY <1>0, <1>1, IdleIsOne DEF RightsType
<1> HIDE DEF r
<1>3. /\ role' \in [Roles -> {"unborn", "live", "gone"}] /\ grants' \in [Roles -> SUBSET Keys]
      /\ role'[r] = "gone" /\ grants'[r] = {}
      /\ \A s \in Roles \ {r} : role'[s] = role[s] /\ grants'[s] = grants[s]
  BY <1>0, <1>1 DEF RightsType
<1>4. Named \ {r} \subseteq Named' /\ None \in Named' /\ \A s \in Roles \ Named' : s = r \/ s \notin Named
  BY <1>3 DEF Named
<1>5. roleOf' \in [Users -> Named' \cup {NoUser}]
  BY <1>0, <1>1, <1>4 DEF RightsType
<1>6. RightsType'
  BY <1>0, <1>1, <1>2, <1>3, <1>4, <1>5 DEF RightsType
<1>7. GrantsAreClosed'
  BY <1>0, <1>3 DEF GrantsAreClosed, Closed
<1>8. \A o \in Edits : edit'[o] # Idle => edit'[o] = edit[o] /\ edit[o].r \in Roles
  BY <1>0, <1>2, EditKinds DEF RightsType
<1>9. \A o \in Edits : edit'[o].at = "set" => edit'[o] # Idle
  BY IdleIsOne
<1>10. EditsSound'
  BY <1>0, <1>3, <1>8, <1>9 DEF EditsSound, SawWhole, Closed
<1> QED
  BY <1>6, <1>7, <1>10 DEF RightsInv

LEMMA RightsKept ==
    ASSUME RightsInv, UNCHANGED rights, edit' = edit \/ edit' = [e \in Edits |-> Idle]
    PROVE  RightsInv'
<1>0. RightsType /\ EditsSound /\ GrantsAreClosed
  BY DEF RightsInv
<1>1. UNCHANGED <<role, grants, roleOf, legacyAdmin>>
  BY DEF rights
<1>2. RightsType' /\ GrantsAreClosed'
  BY <1>0, <1>1, IdleIsOne DEF RightsType, Named, GrantsAreClosed, Closed
<1>3. EditsSound'
  BY <1>0, <1>1, IdleIsOne DEF EditsSound, SawWhole, Closed
<1> QED
  BY <1>2, <1>3 DEF RightsInv

LEMMA RightsStep == RightsInv /\ [PermissionsNext]_permissionsVars => RightsInv'
<1> SUFFICES ASSUME RightsInv, [PermissionsNext]_permissionsVars PROVE RightsInv'
  OBVIOUS
<1>0. RightsType
  BY DEF RightsInv
<1>1. ASSUME NEW p \in Guards,
             (\E u \in Users : Ask(p, u)) \/ LoadUser(p) \/ LoadGrants(p) \/ Store(p) \/ Leave(p)
      PROVE  RightsInv'
  <2>1. UNCHANGED <<rights, edit>>
    BY <1>1 DEF Ask, LoadUser, LoadGrants, Store, Leave
  <2> QED
    BY <2>1, RightsKept
<1>2. ASSUME NEW r \in Roles, CreateRole(r) PROVE RightsInv'
  <2>1. /\ role' \in [Roles -> {"unborn", "live", "gone"}] /\ UNCHANGED <<grants, edit, roleOf, legacyAdmin>>
        /\ \A s \in Roles : role'[s] = role[s] \/ (role[s] = "unborn" /\ role'[s] = "live")
    BY <1>0, <1>2 DEF CreateRole, RightsType
  <2>2. roleOf' \in [Users -> Named' \cup {NoUser}] /\ legacyAdmin' \subseteq Users
    BY <1>0, <2>1 DEF RightsType, Named
  <2> QED
    BY <2>1, <2>2, PeopleKeep
<1>3. ASSUME NEW e \in Edits, NEW r \in Roles, NEW keys \in SUBSET Keys, SetBegin(e, r, keys)
      PROVE  RightsInv'
  <2> DEFINE s == [at |-> "set", r |-> r, keys |-> WithAncestors(keys), seen |-> grants[r]]
  <2>1. /\ s \in EditStates /\ s.at = "set" /\ s.r = r /\ s.keys = WithAncestors(keys) /\ s.seen = grants[r]
        /\ Closed(s.keys)
    BY <1>0, AncestorsClose DEF EditStates, RightsType
  <2>2. edit' = [edit EXCEPT ![e] = s] /\ UNCHANGED rights /\ role[r] = "live"
    BY <1>3 DEF SetBegin
  <2> HIDE DEF s
  <2> QED
    BY <2>1, <2>2, EditKeeps
<1>4. ASSUME NEW e \in Edits, NEW r \in Roles, DeleteLoad(e, r) PROVE RightsInv'
  <2> DEFINE s == [at |-> "delete", r |-> r]
  <2>1. s \in EditStates /\ s.at = "delete" /\ s.r = r
    BY DEF EditStates
  <2>2. edit' = [edit EXCEPT ![e] = s] /\ UNCHANGED rights /\ role[r] = "live"
    BY <1>4 DEF DeleteLoad
  <2> HIDE DEF s
  <2> QED
    BY <2>1, <2>2, EditKeeps
<1>5. ASSUME NEW e \in Edits, Abandon(e) PROVE RightsInv'
  BY <1>5, IdleIsOne, EditKeeps DEF Abandon, EditDone
<1>6. ASSUME NEW u \in Users, NEW r \in AllRoles \cup {None}, NEW admin \in BOOLEAN, CreateUser(u, r, admin)
      PROVE  RightsInv'
  <2>1. roleOf' = [roleOf EXCEPT ![u] = r] /\ r \in Named /\ UNCHANGED <<role, grants, edit>>
        /\ legacyAdmin' \subseteq legacyAdmin \cup {u}
    BY <1>6 DEF CreateUser
  <2>2. roleOf' \in [Users -> Named' \cup {NoUser}] /\ legacyAdmin' \subseteq Users
    BY <1>0, <2>1 DEF RightsType, Named
  <2> QED
    BY <1>0, <2>1, <2>2, PeopleKeep DEF RightsType
<1>7. ASSUME NEW u \in Users, UpdateRole(u) PROVE RightsInv'
  <2>1. legacyAdmin' \subseteq legacyAdmin \cup {u} /\ UNCHANGED <<role, grants, roleOf, edit>>
    BY <1>7 DEF UpdateRole
  <2>2. roleOf' \in [Users -> Named' \cup {NoUser}] /\ legacyAdmin' \subseteq Users
    BY <1>0, <2>1 DEF RightsType, Named
  <2> QED
    BY <1>0, <2>1, <2>2, PeopleKeep DEF RightsType
<1>8. ASSUME NEW u \in Users, NEW r \in AllRoles, Migrate(u, r) PROVE RightsInv'
  <2>1. roleOf' = [roleOf EXCEPT ![u] = r] /\ r \in Named /\ UNCHANGED <<role, grants, legacyAdmin, edit>>
    BY <1>8, RolesAssumption DEF Migrate, Named
  <2>2. roleOf' \in [Users -> Named' \cup {NoUser}] /\ legacyAdmin' \subseteq Users
    BY <1>0, <2>1 DEF RightsType, Named
  <2> QED
    BY <1>0, <2>1, <2>2, PeopleKeep DEF RightsType
<1>9. CASE Restart \/ Tick \/ UNCHANGED permissionsVars
  <2>1. UNCHANGED rights /\ (edit' = edit \/ edit' = [e \in Edits |-> Idle])
    BY <1>9 DEF Restart, Tick, permissionsVars
  <2> QED
    BY <2>1, RightsKept
<1> QED
  BY <1>1, <1>2, <1>3, <1>4, <1>5, <1>6, <1>7, <1>8, <1>9, SetCommitKeeps, DeleteCommitKeeps
  DEF PermissionsNext, PermissionsStep

-----------------------------------------------------------------------------
LEMMA GuardKinds ==
    ASSUME NEW g \in GuardStates
    PROVE  /\ g.at = "idle" <=> g = Idle
           /\ g.at \in {"idle", "user", "role", "store", "answered"}
           /\ g # Idle => g.u \in Users /\ g.start \in Times
           /\ g.at = "role" => g.r \in Roles
           /\ g.at \in {"store", "answered"} => g.keys \subseteq Keys
BY DEF GuardStates, Idle

LEMMA TimesAreNat == Times \subseteq Nat /\ TTL \in Nat /\ TTL >= 1
BY ClockAssumption DEF Times

LEMMA GuardInitHold == PermissionsInit => GuardInv
<1> SUFFICES ASSUME PermissionsInit PROVE GuardInv
  OBVIOUS
<1>1. GuardType
  BY IdleIsOne, ClockAssumption DEF PermissionsInit, GuardType, Times, Never
<1>2. HistoryIsPast
  BY DEF PermissionsInit, HistoryIsPast, Never
<1>3. (\A p \in Guards : GuardFresh(p)) /\ (\A u \in Users : CacheFresh(u))
  BY IdleIsOne DEF PermissionsInit, GuardFresh, CacheFresh
<1> QED
  BY <1>1, <1>2, <1>3 DEF GuardInv

\* What happened stays what happened.
LEMMA HistoryGrows ==
    ASSUME GuardInv, Remember, now' \in Times, now <= now'
    PROVE  /\ actedAs' \in [Users -> [AllRoles -> Times]]
           /\ granted' \in [Roles -> [Keys -> Times]]
           /\ HistoryIsPast'
           /\ \A u \in Users, r \in AllRoles : actedAs[u][r] <= actedAs'[u][r]
           /\ \A r \in Roles, k \in Keys : granted[r][k] <= granted'[r][k]
           /\ \A u \in Users, k \in Keys, s \in Times : Backed(u, k, s) => Backed(u, k, s)'
<1>0. /\ actedAs \in [Users -> [AllRoles -> Times]] /\ granted \in [Roles -> [Keys -> Times]]
      /\ now \in Times /\ HistoryIsPast
  BY DEF GuardInv, GuardType
<1>1. ASSUME NEW u \in Users, NEW r \in AllRoles
      PROVE  actedAs'[u][r] \in Times /\ actedAs[u][r] <= actedAs'[u][r] /\ actedAs'[u][r] <= now'
  <2>1. actedAs'[u][r] = now' \/ actedAs'[u][r] = actedAs[u][r]
    BY DEF Remember
  <2>2. actedAs[u][r] \in Times /\ actedAs[u][r] <= now
    BY <1>0 DEF HistoryIsPast
  <2> QED
    BY <1>0, <2>1, <2>2, ClockAssumption DEF Times
<1>2. ASSUME NEW r \in Roles, NEW k \in Keys
      PROVE  granted'[r][k] \in Times /\ granted[r][k] <= granted'[r][k] /\ granted'[r][k] <= now'
  <2>1. granted'[r][k] = now' \/ granted'[r][k] = granted[r][k]
    BY DEF Remember
  <2>2. granted[r][k] \in Times /\ granted[r][k] <= now
    BY <1>0 DEF HistoryIsPast
  <2> QED
    BY <1>0, <2>1, <2>2, ClockAssumption DEF Times
<1>3. actedAs' \in [Users -> [AllRoles -> Times]]
  <2> DEFINE F(u) == [r \in AllRoles |-> IF ActsAs(u) = r \/ ActsAs(u)' = r THEN now' ELSE actedAs[u][r]]
  <2>1. actedAs' = [u \in Users |-> F(u)]
    BY DEF Remember
  <2>2. \A u \in Users : F(u) \in [AllRoles -> Times]
    BY <1>0
  <2> HIDE DEF F
  <2> QED
    BY <2>1, <2>2
<1>4. granted' \in [Roles -> [Keys -> Times]]
  <2> DEFINE F(r) == [k \in Keys |-> IF k \in grants[r] \cup grants'[r] THEN now' ELSE granted[r][k]]
  <2>1. granted' = [r \in Roles |-> F(r)]
    BY DEF Remember
  <2>2. \A r \in Roles : F(r) \in [Keys -> Times]
    BY <1>0
  <2> HIDE DEF F
  <2> QED
    BY <2>1, <2>2
<1>5. ASSUME NEW u \in Users, NEW k \in Keys, NEW s \in Times, Backed(u, k, s) PROVE Backed(u, k, s)'
  <2>1. PICK r \in AllRoles : s <= actedAs[u][r] /\ (r # Admin => s <= granted[r][k])
    BY <1>5 DEF Backed
  <2>2. s <= actedAs'[u][r]
    <3>1. actedAs[u][r] \in Times /\ actedAs'[u][r] \in Times /\ actedAs[u][r] <= actedAs'[u][r]
      BY <1>0, <1>1
    <3> QED
      BY <2>1, <3>1, ClockAssumption DEF Times
  <2>3. r # Admin => s <= granted'[r][k]
    <3>1. ASSUME r # Admin PROVE r \in Roles
      BY <3>1 DEF AllRoles
    <3>2. ASSUME r \in Roles
          PROVE  granted[r][k] \in Times /\ granted'[r][k] \in Times /\ granted[r][k] <= granted'[r][k]
      BY <1>0, <1>2, <3>2
    <3> QED
      BY <2>1, <3>1, <3>2, ClockAssumption DEF Times
  <2> QED
    BY <2>2, <2>3 DEF Backed
<1>6. HistoryIsPast'
  BY <1>1, <1>2 DEF HistoryIsPast
<1> QED
  BY <1>1, <1>2, <1>3, <1>4, <1>5, <1>6

\* A request, or an entry of the cache, that was sound stays so.
LEMMA FreshStays ==
    ASSUME GuardInv, Remember, now' \in Times, now <= now'
    PROVE  /\ \A p \in Guards : guard'[p] = guard[p] => GuardFresh(p)'
           /\ \A u \in Users : cache'[u] = cache[u] => CacheFresh(u)'
<1>0. /\ \A u \in Users, r \in AllRoles : actedAs[u][r] <= actedAs'[u][r]
      /\ \A u \in Users, k \in Keys, s \in Times : Backed(u, k, s) => Backed(u, k, s)'
      /\ actedAs' \in [Users -> [AllRoles -> Times]]
  BY HistoryGrows
<1>t. /\ actedAs \in [Users -> [AllRoles -> Times]] /\ now \in Times
      /\ guard \in [Guards -> GuardStates] /\ cache \in [Users -> Entry \cup {None}]
      /\ (\A p \in Guards : GuardFresh(p)) /\ (\A u \in Users : CacheFresh(u))
  BY DEF GuardInv, GuardType
<1>1. ASSUME NEW p \in Guards, guard'[p] = guard[p] PROVE GuardFresh(p)'
  <2>p. PICK g \in GuardStates : g = guard[p]
    BY <1>t
  <2>0. /\ GuardFresh(p) /\ guard[p] = g /\ guard'[p] = g
    BY <1>t, <1>1, <2>p
  <2>1. /\ g # Idle => g.u \in Users /\ g.start \in Times
        /\ g.at = "role" => g.r \in AllRoles
        /\ g.at \in {"store", "answered"} => g.keys \subseteq Keys
        /\ g.at # "idle" => g # Idle
    BY GuardKinds, IdleIsOne DEF AllRoles
  <2>d. /\ g.at \in {"user", "role", "store"} => 1 <= g.start /\ g.start <= now
        /\ g.at = "role" => g.start <= actedAs[g.u][g.r]
        /\ g.at = "store" => \A k \in g.keys : Backed(g.u, k, g.start)
        /\ g.at = "answered" =>
             \E s \in Times : 1 <= s /\ g.start < s + TTL /\ \A k \in g.keys : Backed(g.u, k, s)
    BY <2>0 DEF GuardFresh
  <2>2. g.at \in {"user", "role", "store"} => 1 <= g.start /\ g.start <= now'
    BY <1>t, <2>d, <2>1, IdleIsOne, ClockAssumption DEF Times
  <2>3. g.at = "role" => g.start <= actedAs'[g.u][g.r]
    <3> SUFFICES ASSUME g.at = "role" PROVE g.start <= actedAs'[g.u][g.r]
      OBVIOUS
    <3>1. g.u \in Users /\ g.r \in AllRoles /\ g.start \in Times
      BY <2>1
    <3>2. /\ actedAs[g.u][g.r] \in Times /\ actedAs'[g.u][g.r] \in Times
          /\ actedAs[g.u][g.r] <= actedAs'[g.u][g.r] /\ g.start <= actedAs[g.u][g.r]
      BY <1>0, <1>t, <2>d, <3>1
    <3> QED
      BY <3>1, <3>2, ClockAssumption DEF Times
  <2>4. g.at = "store" => \A k \in g.keys : Backed(g.u, k, g.start)'
    <3> SUFFICES ASSUME g.at = "store", NEW k \in g.keys PROVE Backed(g.u, k, g.start)'
      OBVIOUS
    <3>1. g.u \in Users /\ g.start \in Times /\ k \in Keys /\ Backed(g.u, k, g.start)
      BY <2>d, <2>1
    <3> QED
      BY <1>0, <3>1
  <2>5. g.at = "answered" =>
          \E s \in Times : 1 <= s /\ g.start < s + TTL /\ \A k \in g.keys : Backed(g.u, k, s)'
    BY <1>0, <2>d, <2>1
  <2> QED
    BY <2>0, <2>2, <2>3, <2>4, <2>5 DEF GuardFresh, Backed
<1>2. ASSUME NEW u \in Users, cache'[u] = cache[u] PROVE CacheFresh(u)'
  <2>1. cache[u] # None => cache[u].keys \subseteq Keys
    BY <1>t DEF Entry
  <2>2. cache[u] # None =>
          \E s \in Times : 1 <= s /\ cache[u].expires = s + TTL /\ \A k \in cache[u].keys : Backed(u, k, s)'
    BY <1>t, <1>0, <2>1 DEF CacheFresh
  <2> QED
    BY <1>2, <2>2 DEF CacheFresh, Backed
<1> QED
  BY <1>1, <1>2

\* A step of one request at the guard, which writes an entry of the cache or none.
LEMMA AtKeeps ==
    ASSUME GuardInv, Remember, now' = now, NEW p \in Guards, NEW g \in GuardStates,
           At(p, g), GuardFresh(p)',
           NEW u \in Users, cache' \in [Users -> Entry \cup {None}], CacheFresh(u)',
           \A v \in Users \ {u} : cache'[v] = cache[v]
    PROVE  GuardInv'
<1>1. now \in Times /\ now >= 1 /\ guard \in [Guards -> GuardStates]
  BY DEF GuardInv, GuardType
<1>2. guard' \in [Guards -> GuardStates] /\ \A o \in Guards \ {p} : guard'[o] = guard[o]
  BY <1>1 DEF At
<1>3. now' \in Times /\ now <= now'
  BY <1>1, TimesAreNat
<1>4. GuardType' /\ HistoryIsPast'
  BY <1>1, <1>2, <1>3, HistoryGrows DEF GuardType
<1>5. (\A o \in Guards : GuardFresh(o)') /\ (\A v \in Users : CacheFresh(v)')
  BY <1>2, <1>3, FreshStays
<1> QED
  BY <1>4, <1>5 DEF GuardInv

\* Nothing happens at the guard.
LEMMA GuardRests ==
    ASSUME GuardInv, Remember, UNCHANGED <<cache, guard>>, now' \in Times, now <= now'
    PROVE  GuardInv'
<1>1. GuardType
  BY DEF GuardInv
<1>2. now' >= 1
  BY <1>1, TimesAreNat DEF GuardType
<1>3. GuardType' /\ HistoryIsPast'
  BY <1>1, <1>2, HistoryGrows DEF GuardType
<1>4. (\A p \in Guards : GuardFresh(p)') /\ (\A u \in Users : CacheFresh(u)')
  BY FreshStays
<1> QED
  BY <1>3, <1>4 DEF GuardInv

\* A request is answered from the cache, or begins to load.
LEMMA AskKeeps ==
    ASSUME GuardInv, Remember, NEW p \in Guards, NEW u \in Users, Ask(p, u)
    PROVE  GuardInv'
<1>0. /\ now \in Times /\ 1 <= now /\ cache \in [Users -> Entry \cup {None}] /\ CacheFresh(u)
      /\ UNCHANGED <<cache, now>>
  BY DEF GuardInv, GuardType, Ask
<1>1. now' \in Times /\ now <= now'
  BY <1>0, ClockAssumption DEF Times
<1>2. CacheFresh(u)'
  BY <1>0, <1>1, FreshStays
<1>3. CASE Cached(u)
  <2> DEFINE g == Answered(u, now, cache[u].keys)
  <2>1. cache[u] # None /\ cache[u].expires > now /\ At(p, g)
    BY <1>3 DEF Cached, Ask
  <2>2. cache[u].keys \in SUBSET Keys
    BY <1>0, <2>1 DEF Entry
  <2>3. g \in GuardStates /\ g.at = "answered" /\ g.u = u /\ g.start = now /\ g.keys = cache[u].keys
    BY <1>0, <2>2 DEF GuardStates, Answered
  <2>4. PICK s \in Times : 1 <= s /\ cache'[u].expires = s + TTL /\ \A k \in cache'[u].keys : Backed(u, k, s)'
    BY <1>0, <1>2, <2>1 DEF CacheFresh, Backed
  <2>5. now < s + TTL
    BY <1>0, <2>1, <2>4, ClockAssumption DEF Times
  <2>6. guard'[p] = g
    BY <2>1 DEF At, GuardInv, GuardType
  <2>7. GuardFresh(p)'
    <3>1. guard'[p].at = "answered" /\ guard'[p].u = u /\ guard'[p].start = now /\ guard'[p].keys = cache'[u].keys
      BY <1>0, <2>3, <2>6
    <3>2. \A k \in guard'[p].keys : Backed(u, k, s)'
      BY <2>4, <3>1
    <3> QED
      BY <2>4, <2>5, <3>1, <3>2 DEF GuardFresh, Backed
  <2> HIDE DEF g
  <2>8. cache' = cache
    BY <1>0
  <2> QED
    BY <1>0, <1>2, <2>1, <2>3, <2>7, <2>8, AtKeeps
<1>4. CASE ~Cached(u)
  <2> DEFINE g == [at |-> "user", u |-> u, start |-> now]
  <2>1. At(p, g)
    BY <1>4 DEF Ask
  <2>2. g \in GuardStates /\ g.at = "user" /\ g.start = now
    BY <1>0 DEF GuardStates
  <2>3. guard'[p] = g
    BY <2>1 DEF At, GuardInv, GuardType
  <2>4. GuardFresh(p)'
    BY <1>0, <2>2, <2>3, ClockAssumption DEF GuardFresh, Times
  <2> HIDE DEF g
  <2>5. cache' = cache
    BY <1>0
  <2> QED
    BY <1>0, <1>2, <2>1, <2>2, <2>4, <2>5, AtKeeps
<1> QED
  BY <1>3, <1>4

\* The user is read: what is loaded counts from before the moment it is read.
LEMMA LoadUserKeeps ==
    ASSUME GuardInv, Remember, NEW p \in Guards, LoadUser(p)
    PROVE  GuardInv'
<1> DEFINE o == guard[p]
           r == ActsAs(o.u)
           g == CASE r = Admin -> [at |-> "store", u |-> o.u, start |-> o.start, keys |-> Keys]
                  [] r \in Roles -> [at |-> "role", u |-> o.u, start |-> o.start, r |-> r]
                  [] OTHER -> Answered(o.u, o.start, {})
<1>0. /\ now \in Times /\ 1 <= now /\ cache \in [Users -> Entry \cup {None}]
      /\ UNCHANGED <<cache, now>> /\ At(p, g) /\ o.at = "user" /\ GuardFresh(p)
      /\ guard \in [Guards -> GuardStates]
  BY DEF GuardInv, GuardType, LoadUser
<1>1. o.u \in Users /\ o.start \in Times /\ 1 <= o.start /\ o.start <= now
  BY <1>0, GuardKinds, IdleIsOne DEF GuardFresh
<1>2. now' \in Times /\ now <= now'
  BY <1>0, ClockAssumption DEF Times
<1>3. \A v \in Users : CacheFresh(v)'
  BY <1>0, <1>2, FreshStays
<1>4. r \in AllRoles => actedAs'[o.u][r] = now
  BY <1>0, <1>1 DEF Remember
<1>5. guard'[p] = g
  BY <1>0 DEF At
<1> HIDE DEF r
<1>6. /\ g \in GuardStates /\ g.u = o.u /\ g.start = o.start
      /\ \/ g.at = "store" /\ r = Admin
         \/ g.at = "role" /\ g.r = r /\ r \in Roles
         \/ g.at = "answered" /\ g.keys = {}
  <2>1. CASE r = Admin
    BY <1>1, <2>1 DEF GuardStates
  <2>2. CASE r # Admin /\ r \in Roles
    BY <1>1, <2>2 DEF GuardStates
  <2>3. CASE r # Admin /\ r \notin Roles
    BY <1>1, <2>3 DEF GuardStates, Answered
  <2> QED
    BY <2>1, <2>2, <2>3
<1>7. PICK h \in GuardStates, u \in Users, start \in Times : h = g /\ u = o.u /\ start = o.start
  BY <1>1, <1>6
<1> HIDE DEF o, g
<1>8. /\ guard'[p] = h /\ h.u = u /\ h.start = start /\ 1 <= start /\ start <= now
      /\ \/ h.at = "store" /\ r = Admin
         \/ h.at = "role" /\ h.r = r /\ r \in Roles
         \/ h.at = "answered" /\ h.keys = {}
  BY <1>1, <1>5, <1>6, <1>7
<1>9. GuardFresh(p)'
  <2>1. CASE h.at = "store" /\ r = Admin
    <3>1. start <= actedAs'[u][Admin]
      BY <1>1, <1>4, <1>7, <1>8, <2>1 DEF AllRoles
    <3>2. \A k \in h.keys : Backed(u, k, start)'
      BY <3>1 DEF Backed, AllRoles
    <3> QED
      BY <1>0, <1>8, <2>1, <3>2 DEF GuardFresh, Backed
  <2>2. CASE h.at = "role" /\ h.r = r /\ r \in Roles
    <3>1. start <= actedAs'[u][h.r]
      BY <1>1, <1>4, <1>7, <1>8, <2>2 DEF AllRoles
    <3> QED
      BY <1>0, <1>8, <2>2, <3>1 DEF GuardFresh
  <2>3. CASE h.at = "answered" /\ h.keys = {}
    <3>1. start < start + TTL
      BY ClockAssumption DEF Times
    <3> QED
      BY <1>8, <2>3, <3>1 DEF GuardFresh
  <2> QED
    BY <1>8, <2>1, <2>2, <2>3
<1>10. At(p, h) /\ now' = now /\ cache' = cache
  BY <1>0, <1>7
<1> QED
  BY <1>0, <1>3, <1>9, <1>10, AtKeeps

\* The rows of the role are read.
LEMMA LoadGrantsKeep ==
    ASSUME GuardInv, RightsType, Remember, NEW p \in Guards, LoadGrants(p)
    PROVE  GuardInv'
<1>0. /\ now \in Times /\ 1 <= now /\ cache \in [Users -> Entry \cup {None}]
      /\ UNCHANGED <<cache, now>> /\ GuardFresh(p) /\ guard[p].at = "role"
      /\ guard \in [Guards -> GuardStates] /\ actedAs \in [Users -> [AllRoles -> Times]]
  BY DEF GuardInv, GuardType, LoadGrants
<1>1. PICK u \in Users, start \in Times, r \in Roles : u = guard[p].u /\ start = guard[p].start /\ r = guard[p].r
  BY <1>0, GuardKinds, IdleIsOne
<1>2. 1 <= start /\ start <= now /\ start <= actedAs[u][r]
  BY <1>0, <1>1 DEF GuardFresh
<1>3. PICK keys \in SUBSET Keys : keys = grants[r]
  BY DEF RightsType
<1>4. now' \in Times /\ now <= now'
  BY <1>0, ClockAssumption DEF Times
<1>5. \A v \in Users : CacheFresh(v)'
  BY <1>0, <1>4, FreshStays
<1>6. start <= actedAs'[u][r]
  <2>1. r \in AllRoles
    BY DEF AllRoles
  <2>2. actedAs[u][r] \in Times /\ actedAs'[u][r] \in Times /\ actedAs[u][r] <= actedAs'[u][r]
    BY <1>0, <1>4, <2>1, HistoryGrows
  <2> QED
    BY <1>2, <2>2, ClockAssumption DEF Times
<1>7. \A k \in keys : granted'[r][k] = now
  BY <1>0, <1>3 DEF Remember
<1>8. \A k \in keys : Backed(u, k, start)'
  BY <1>2, <1>6, <1>7 DEF Backed, AllRoles
<1> DEFINE g == [at |-> "store", u |-> u, start |-> start, keys |-> keys]
<1>9. g \in GuardStates /\ g.at = "store" /\ g.u = u /\ g.start = start /\ g.keys = keys
  BY DEF GuardStates
<1>10. At(p, g)
  BY <1>1, <1>3 DEF LoadGrants
<1>11. guard'[p] = g
  BY <1>0, <1>10 DEF At
<1> HIDE DEF g
<1>12. GuardFresh(p)'
  BY <1>0, <1>2, <1>8, <1>9, <1>11 DEF GuardFresh, Backed
<1>13. cache' = cache /\ now' = now
  BY <1>0
<1> QED
  BY <1>0, <1>5, <1>9, <1>10, <1>12, <1>13, AtKeeps

\* What was loaded is remembered, from when the loading began.
LEMMA StoreKeeps ==
    ASSUME GuardInv, Remember, NEW p \in Guards, Store(p)
    PROVE  GuardInv'
<1>0. /\ now \in Times /\ 1 <= now /\ cache \in [Users -> Entry \cup {None}]
      /\ now' = now /\ GuardFresh(p) /\ guard[p].at = "store" /\ guard \in [Guards -> GuardStates]
  BY DEF GuardInv, GuardType, Store
<1>1. PICK u \in Users, start \in Times, keys \in SUBSET Keys :
        u = guard[p].u /\ start = guard[p].start /\ keys = guard[p].keys
  BY <1>0, GuardKinds, IdleIsOne
<1>2. 1 <= start /\ \A k \in keys : Backed(u, k, start)
  BY <1>0, <1>1 DEF GuardFresh
<1>3. now' \in Times /\ now <= now'
  BY <1>0, ClockAssumption DEF Times
<1>4. \A k \in keys : Backed(u, k, start)'
  BY <1>2, <1>3, HistoryGrows
<1> DEFINE g == Answered(u, start, keys)
           entry == [keys |-> keys, expires |-> start + TTL]
<1>5. cache' = [cache EXCEPT ![u] = entry] /\ At(p, g)
  BY <1>1 DEF Store, Expiry
<1>6. g \in GuardStates /\ g.at = "answered" /\ g.u = u /\ g.start = start /\ g.keys = keys
  BY DEF GuardStates, Answered
<1>7. entry \in Entry /\ entry.keys = keys /\ entry.expires = start + TTL
  BY ClockAssumption DEF Entry, Times
<1> HIDE DEF g, entry
<1>8. /\ cache' \in [Users -> Entry \cup {None}] /\ cache'[u] = entry
      /\ \A v \in Users \ {u} : cache'[v] = cache[v]
  BY <1>0, <1>5, <1>7
<1>9. CacheFresh(u)'
  BY <1>2, <1>4, <1>7, <1>8 DEF CacheFresh, Backed
<1>10. guard'[p] = g /\ start < start + TTL
  BY <1>0, <1>5, ClockAssumption DEF At, Times
<1>11. GuardFresh(p)'
  BY <1>2, <1>4, <1>6, <1>10 DEF GuardFresh, Backed
<1> QED
  BY <1>0, <1>5, <1>6, <1>8, <1>9, <1>11, AtKeeps

\* The answer is used, or the server forgets everything.
LEMMA LeaveKeeps ==
    ASSUME GuardInv, Remember, NEW p \in Guards, Leave(p)
    PROVE  GuardInv'
<1>0. /\ now \in Times /\ cache \in [Users -> Entry \cup {None}] /\ UNCHANGED <<cache, now>>
      /\ guard \in [Guards -> GuardStates] /\ guard' = [guard EXCEPT ![p] = Idle]
  BY DEF GuardInv, GuardType, Leave, At
<1>1. now' \in Times /\ now' >= 1 /\ now <= now'
  BY <1>0, ClockAssumption DEF Times, GuardInv, GuardType
<1>2. GuardType' /\ HistoryIsPast'
  BY <1>0, <1>1, IdleIsOne, HistoryGrows DEF GuardType
<1>3. (\A u \in Users : CacheFresh(u)') /\ (\A o \in Guards \ {p} : GuardFresh(o)')
  BY <1>0, <1>1, FreshStays
<1>4. GuardFresh(p)'
  BY <1>0, IdleIsOne DEF GuardFresh
<1> QED
  BY <1>2, <1>3, <1>4 DEF GuardInv

LEMMA RestartKeeps ==
    ASSUME GuardInv, Remember, Restart
    PROVE  GuardInv'
<1>0. /\ now \in Times /\ now' = now /\ cache' = [u \in Users |-> None] /\ guard' = [p \in Guards |-> Idle]
  BY DEF GuardInv, GuardType, Restart
<1>1. now' \in Times /\ now' >= 1 /\ now <= now'
  BY <1>0, ClockAssumption DEF Times, GuardInv, GuardType
<1>2. GuardType' /\ HistoryIsPast'
  BY <1>0, <1>1, IdleIsOne, HistoryGrows DEF GuardType
<1>3. (\A u \in Users : CacheFresh(u)') /\ (\A p \in Guards : GuardFresh(p)')
  BY <1>0, IdleIsOne DEF CacheFresh, GuardFresh
<1> QED
  BY <1>2, <1>3 DEF GuardInv

LEMMA GuardStep == GuardInv /\ RightsType /\ [PermissionsNext]_permissionsVars => GuardInv'
<1> SUFFICES ASSUME GuardInv, RightsType, [PermissionsNext]_permissionsVars PROVE GuardInv'
  OBVIOUS
<1>1. CASE UNCHANGED permissionsVars
  BY <1>1 DEF permissionsVars, histories, GuardInv, GuardType, HistoryIsPast, GuardFresh, CacheFresh, Backed
<1>2. CASE PermissionsStep /\ Remember
  <2>0. now \in Times
    BY DEF GuardInv, GuardType
  <2>1. ASSUME UNCHANGED <<cache, guard, now>> PROVE GuardInv'
    BY <1>2, <2>0, <2>1, GuardRests, ClockAssumption DEF Times
  <2>2. CASE Tick
    <3>1. UNCHANGED <<cache, guard>> /\ now' \in Times /\ now <= now'
      BY <2>0, <2>2, ClockAssumption DEF Tick, Times
    <3> QED
      BY <1>2, <3>1, GuardRests
  <2>3. ASSUME NEW r \in Roles, CreateRole(r) PROVE GuardInv'
    BY <2>1, <2>3 DEF CreateRole
  <2>4. ASSUME NEW e \in Edits, NEW r \in Roles,
               DeleteLoad(e, r) \/ (\E keys \in SUBSET Keys : SetBegin(e, r, keys))
        PROVE  GuardInv'
    BY <2>1, <2>4 DEF DeleteLoad, SetBegin
  <2>5. ASSUME NEW e \in Edits, SetCommit(e) \/ DeleteCommit(e) \/ Abandon(e) PROVE GuardInv'
    BY <2>1, <2>5 DEF SetCommit, DeleteCommit, Abandon
  <2>6. ASSUME NEW u \in Users,
               \/ \E r \in AllRoles \cup {None}, admin \in BOOLEAN : CreateUser(u, r, admin)
               \/ \E r \in AllRoles : Migrate(u, r)
               \/ UpdateRole(u)
        PROVE  GuardInv'
    BY <2>1, <2>6 DEF CreateUser, Migrate, UpdateRole
  <2> QED
    BY <1>2, <2>2, <2>3, <2>4, <2>5, <2>6, AskKeeps, LoadUserKeeps, LoadGrantsKeep, StoreKeeps,
       LeaveKeeps, RestartKeeps DEF PermissionsStep
<1> QED
  BY <1>1, <1>2 DEF PermissionsNext

\* What is answered was so lately, since what it rests on is before the answer's minute ends.
LEMMA FreshIsNotStale == GuardInv => NothingIsStale
<1> SUFFICES ASSUME GuardInv, NEW p \in Guards, guard[p].at = "answered", NEW k \in guard[p].keys
             PROVE  \E r \in AllRoles :
                       /\ Lately(actedAs[guard[p].u][r], guard[p].start)
                       /\ r # Admin => Lately(granted[r][k], guard[p].start)
  BY DEF NothingIsStale
<1>1. /\ guard[p].u \in Users /\ guard[p].start \in Times /\ k \in Keys /\ GuardFresh(p)
      /\ actedAs \in [Users -> [AllRoles -> Times]] /\ granted \in [Roles -> [Keys -> Times]]
  BY GuardKinds, IdleIsOne DEF GuardInv, GuardType
<1>2. PICK s \in Times : 1 <= s /\ guard[p].start < s + TTL /\ Backed(guard[p].u, k, s)
  BY <1>1 DEF GuardFresh
<1>3. PICK r \in AllRoles : s <= actedAs[guard[p].u][r] /\ (r # Admin => s <= granted[r][k])
  BY <1>2 DEF Backed
<1>4. \A t \in Times : s <= t => Lately(t, guard[p].start)
  BY <1>1, <1>2, ClockAssumption DEF Lately, Never, Times
<1>5. r # Admin => r \in Roles
  BY DEF AllRoles
<1>6. actedAs[guard[p].u][r] \in Times /\ (r # Admin => granted[r][k] \in Times)
  BY <1>1, <1>5
<1> QED
  BY <1>3, <1>4, <1>6

-----------------------------------------------------------------------------
LEMMA BothHold == PermissionsSpec => [](RightsInv /\ GuardInv)
<1>1. RightsInv => RightsType
  BY DEF RightsInv
<1> QED
  BY <1>1, RightsInitHold, GuardInitHold, RightsStep, GuardStep, PTL DEF PermissionsSpec

\* The state keeps its shape: no user and no key is left with a role that is gone, also when a
\* user is given the role while it is being deleted.
THEOREM RightsAreNamed == PermissionsSpec => []PermissionsTypeOK
<1>1. RightsInv /\ GuardInv => PermissionsTypeOK
  BY DEF RightsInv, GuardInv, RightsType, GuardType, PermissionsTypeOK
<1> QED
  BY <1>1, BothHold, PTL

\* A role that grants a key grants the keys above it, however changes of it meet.
THEOREM HierarchyIsKept == PermissionsSpec => []GrantsAreClosed
<1>1. RightsInv => GrantsAreClosed
  BY DEF RightsInv
<1> QED
  BY <1>1, BothHold, PTL

\* No answer of the guard rests on rights the user lost more than the cache's lifetime ago.
THEOREM AnswersAreFresh == PermissionsSpec => []NothingIsStale
BY FreshIsNotStale, BothHold, PTL

=============================================================================
