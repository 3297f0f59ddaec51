---------------------------- MODULE Permissions ----------------------------
(***************************************************************************)
(* Who may do what: roles and the keys they grant, the users who act in    *)
(* them, and the guard in front of every handler, which remembers for a    *)
(* minute what it loaded of a user and is never told of a change.          *)
(*                                                                         *)
(* Keys form a hierarchy (page, table, button), and a role that grants a   *)
(* key grants the ones above it.                                           *)
(***************************************************************************)
EXTENDS Naturals

CONSTANTS
    Users,
    Roles,          \* bound: the roles ever made, but for Admin
    SystemRoles,    \* those of the seed: legacy users are moved to them
    Admin,          \* the role that is granted every key
    Keys,
    Above,          \* the keys above a key
    TTL,            \* CACHE_TTL_MS
    MaxTime,        \* bound: how far the clock goes
    Guards,         \* requests that can be at the guard at once
    Edits,          \* changes of roles that can be in progress at once
    None,
    NoUser          \* the role of a user who is not there yet

ASSUME KeysAssumption ==
    /\ Above \in [Keys -> SUBSET Keys]
    /\ \A k \in Keys : \A a \in Above[k] : Above[a] \subseteq Above[k]

ASSUME ClockAssumption == TTL \in Nat \ {0} /\ MaxTime \in Nat

ASSUME RolesAssumption ==
    /\ SystemRoles \subseteq Roles
    /\ Admin \notin Roles
    /\ None \notin Roles \cup {Admin} \cup [keys : SUBSET Keys, expires : Nat]
    /\ NoUser \notin Roles \cup {Admin, None}

VARIABLES
    role,           \* roles: unborn, live or gone
    grants,         \* role_permissions_v2
    roleOf,         \* users.role_id
    legacyAdmin,    \* the users whose legacy role is ADMIN
    cache,          \* the guard's: what was loaded of a user and until when it holds
    guard,          \* requests at the guard
    edit,           \* changes of roles in progress
    now,
    actedAs,        \* history: when a user last acted in a role
    granted         \* history: when a role last granted a key

rights == <<role, grants, roleOf, legacyAdmin>>
histories == <<actedAs, granted>>
permissionsVars == <<rights, cache, guard, edit, now, histories>>

AllRoles == Roles \cup {Admin}
Never == 0
Times == 0 .. MaxTime + 1

Idle == [at |-> "idle"]

\* The roles a role_id can name.
Named == {None, Admin} \cup {r \in Roles : role[r] = "live"}

\* getAncestorKeys.
Closed(keys) == \A k \in keys : Above[k] \subseteq keys

\* Mutant: the keys are stored as they are sent.
MutWithAncestors(keys) == keys

WithAncestors(keys) == keys \cup UNION {Above[k] : k \in keys}

\* The role in which a user acts: the legacy role counts only where there is no other.
ActsAs(u) == IF roleOf[u] = None /\ u \in legacyAdmin THEN Admin ELSE roleOf[u]

-----------------------------------------------------------------------------
(***************************************************************************)
(* The guard.                                                              *)
(***************************************************************************)

Entry == [keys : SUBSET Keys, expires : Nat]

At(p, g) == guard' = [guard EXCEPT ![p] = g]

Answered(u, start, keys) == [at |-> "answered", u |-> u, start |-> start, keys |-> keys]

\* Mutant: an entry counts from when it is stored.
MutExpiry(start) == now + TTL

Expiry(start) == start + TTL

Cached(u) == cache[u] # None /\ cache[u].expires > now

\* getUserPermissions, of a user with a valid token.
Ask(p, u) ==
    /\ guard[p] = Idle
    /\ roleOf[u] # NoUser
    /\ At(p, IF Cached(u) THEN Answered(u, now, cache[u].keys)
                          ELSE [at |-> "user", u |-> u, start |-> now])
    /\ UNCHANGED <<rights, cache, edit, now>>

\* The user is read: the admin is granted everything, one without a role nothing.
LoadUser(p) ==
    LET u == guard[p].u
        start == guard[p].start
        r == ActsAs(u)
    IN
    /\ guard[p].at = "user"
    /\ At(p, CASE r = Admin -> [at |-> "store", u |-> u, start |-> start, keys |-> Keys]
               [] r \in Roles -> [at |-> "role", u |-> u, start |-> start, r |-> r]
               [] OTHER -> Answered(u, start, {}))
    /\ UNCHANGED <<rights, cache, edit, now>>

LoadGrants(p) ==
    /\ guard[p].at = "role"
    /\ At(p, [at |-> "store", u |-> guard[p].u, start |-> guard[p].start, keys |-> grants[guard[p].r]])
    /\ UNCHANGED <<rights, cache, edit, now>>

Store(p) ==
    LET g == guard[p] IN
    /\ g.at = "store"
    /\ cache' = [cache EXCEPT ![g.u] = [keys |-> g.keys, expires |-> Expiry(g.start)]]
    /\ At(p, Answered(g.u, g.start, g.keys))
    /\ UNCHANGED <<rights, edit, now>>

\* The handler runs or is refused, or the guard failed.
Leave(p) ==
    /\ guard[p] # Idle
    /\ At(p, Idle)
    /\ UNCHANGED <<rights, cache, edit, now>>

-----------------------------------------------------------------------------
(***************************************************************************)
(* Roles and users.  A change of a role's keys deletes the rows it sees    *)
(* and inserts its own: rows inserted meanwhile are not seen, and stay.    *)
(***************************************************************************)

EditDone(e) == edit' = [edit EXCEPT ![e] = Idle]

CreateRole(r) ==
    /\ role[r] = "unborn"
    /\ role' = [role EXCEPT ![r] = "live"]
    /\ UNCHANGED <<grants, roleOf, legacyAdmin, cache, guard, edit, now>>

\* setRolePermissions, or seedSystemRoles with the keys of the seed.
SetBegin(e, r, keys) ==
    /\ edit[e] = Idle
    /\ role[r] = "live"
    /\ edit' = [edit EXCEPT ![e] = [at |-> "set", r |-> r, keys |-> WithAncestors(keys), seen |-> grants[r]]]
    /\ UNCHANGED <<rights, cache, guard, now>>

\* Rows are unique by role and key, and belong to a role; else the transaction fails.
SetCommit(e) ==
    LET r == edit[e].r
        kept == grants[r] \ edit[e].seen
    IN
    /\ edit[e].at = "set"
    /\ role[r] = "live" /\ kept \cap edit[e].keys = {}
    /\ grants' = [grants EXCEPT ![r] = kept \cup edit[e].keys]
    /\ edit' = [o \in Edits |-> IF o = e THEN Idle
                                ELSE IF edit[o].at = "set" /\ edit[o].r = r
                                     THEN [edit[o] EXCEPT !.seen = @ \ edit[e].seen]
                                     ELSE edit[o]]
    /\ UNCHANGED <<role, roleOf, legacyAdmin, cache, guard, now>>

\* deleteRole counts the users of the role, and deletes it later.
DeleteLoad(e, r) ==
    /\ edit[e] = Idle
    /\ role[r] = "live" /\ r \notin SystemRoles
    /\ \A u \in Users : roleOf[u] # r
    /\ edit' = [edit EXCEPT ![e] = [at |-> "delete", r |-> r]]
    /\ UNCHANGED <<rights, cache, guard, now>>

\* Mutant: users keep the role they were given.
MutWithoutRole(r) == roleOf

\* Users who were given the role meanwhile are left without one (onDelete: SetNull).
WithoutRole(r) == [u \in Users |-> IF roleOf[u] = r THEN None ELSE roleOf[u]]

DeleteCommit(e) ==
    LET r == edit[e].r IN
    /\ edit[e].at = "delete" /\ role[r] = "live"
    /\ role' = [role EXCEPT ![r] = "gone"]
    /\ grants' = [grants EXCEPT ![r] = {}]
    /\ roleOf' = WithoutRole(r)
    /\ EditDone(e)
    /\ UNCHANGED <<legacyAdmin, cache, guard, now>>

Abandon(e) ==
    /\ edit[e] # Idle
    /\ EditDone(e)
    /\ UNCHANGED <<rights, cache, guard, now>>

CreateUser(u, r, admin) ==
    /\ roleOf[u] = NoUser /\ r \in Named
    /\ roleOf' = [roleOf EXCEPT ![u] = r]
    /\ legacyAdmin' = IF admin THEN legacyAdmin \cup {u} ELSE legacyAdmin
    /\ UNCHANGED <<role, grants, cache, guard, edit, now>>

\* users.updateRole writes the legacy role only.
UpdateRole(u) ==
    /\ roleOf[u] # NoUser
    /\ legacyAdmin' = IF u \in legacyAdmin THEN legacyAdmin \ {u} ELSE legacyAdmin \cup {u}
    /\ UNCHANGED <<role, grants, roleOf, cache, guard, edit, now>>

\* seedSystemRoles gives users without a role the one of their legacy role.
Migrate(u, r) ==
    /\ roleOf[u] = None
    /\ IF u \in legacyAdmin THEN r = Admin ELSE r \in SystemRoles /\ role[r] = "live"
    /\ roleOf' = [roleOf EXCEPT ![u] = r]
    /\ UNCHANGED <<role, grants, legacyAdmin, cache, guard, edit, now>>

\* The server restarts with an empty cache.
Restart ==
    /\ cache' = [u \in Users |-> None]
    /\ guard' = [p \in Guards |-> Idle]
    /\ edit' = [e \in Edits |-> Idle]
    /\ UNCHANGED <<rights, now>>

Tick ==
    /\ now <= MaxTime
    /\ now' = now + 1
    /\ UNCHANGED <<rights, cache, guard, edit>>

-----------------------------------------------------------------------------
\* What was so before a step or is after it was so at the time of the step.
Remember ==
    /\ actedAs' = [u \in Users |-> [r \in AllRoles |->
                     IF ActsAs(u) = r \/ ActsAs(u)' = r THEN now' ELSE actedAs[u][r]]]
    /\ granted' = [r \in Roles |-> [k \in Keys |->
                     IF k \in grants[r] \cup grants'[r] THEN now' ELSE granted[r][k]]]

PermissionsInit ==
    /\ role = [r \in Roles |-> IF r \in SystemRoles THEN "live" ELSE "unborn"]
    /\ grants = [r \in Roles |-> {}]
    /\ roleOf = [u \in Users |-> NoUser]
    /\ legacyAdmin = {}
    /\ cache = [u \in Users |-> None]
    /\ guard = [p \in Guards |-> Idle]
    /\ edit = [e \in Edits |-> Idle]
    /\ now = 1
    /\ actedAs = [u \in Users |-> [r \in AllRoles |-> Never]]
    /\ granted = [r \in Roles |-> [k \in Keys |-> Never]]

PermissionsStep ==
    \/ \E p \in Guards :
        \/ \E u \in Users : Ask(p, u)
        \/ LoadUser(p) \/ LoadGrants(p) \/ Store(p) \/ Leave(p)
    \/ \E r \in Roles : CreateRole(r)
    \/ \E e \in Edits :
        \/ \E r \in Roles : DeleteLoad(e, r) \/ \E keys \in SUBSET Keys : SetBegin(e, r, keys)
        \/ SetCommit(e) \/ DeleteCommit(e) \/ Abandon(e)
    \/ \E u \in Users :
        \/ \E r \in AllRoles \cup {None}, admin \in BOOLEAN : CreateUser(u, r, admin)
        \/ \E r \in AllRoles : Migrate(u, r)
        \/ UpdateRole(u)
    \/ Restart
    \/ Tick

PermissionsNext == PermissionsStep /\ Remember

PermissionsSpec == PermissionsInit /\ [][PermissionsNext]_permissionsVars

-----------------------------------------------------------------------------
(***************************************************************************)
(* Properties.                                                             *)
(***************************************************************************)

GuardStates ==
    {Idle}
    \cup [at : {"user"}, u : Users, start : Times]
    \cup [at : {"role"}, u : Users, start : Times, r : Roles]
    \cup [at : {"store", "answered"}, u : Users, start : Times, keys : SUBSET Keys]

EditStates ==
    {Idle}
    \cup [at : {"set"}, r : Roles, keys : SUBSET Keys, seen : SUBSET Keys]
    \cup [at : {"delete"}, r : Roles]

\* Roles, users, the cache and what is in progress are of their kind, and no user and no key
\* is left with a role that is gone.
PermissionsTypeOK ==
    /\ role \in [Roles -> {"unborn", "live", "gone"}]
    /\ grants \in [Roles -> SUBSET Keys]
    /\ roleOf \in [Users -> Named \cup {NoUser}]
    /\ \A r \in Roles \ Named : grants[r] = {}
    /\ legacyAdmin \subseteq Users
    /\ cache \in [Users -> Entry \cup {None}]
    /\ guard \in [Guards -> GuardStates]
    /\ edit \in [Edits -> EditStates]
    /\ now \in Times
    /\ actedAs \in [Users -> [AllRoles -> Times]]
    /\ granted \in [Roles -> [Keys -> Times]]

\* A role that grants a key grants the keys above it, also when two changes of one role
\* meet and the keys of both stay.
GrantsAreClosed == \A r \in Roles : Closed(grants[r])

Lately(t, start) == t # Never /\ start < t + TTL

\* What the guard answers is at most a minute old, counted from when it was asked: the user
\* acted lately in a role that lately granted the key, however slow loads, other requests
\* and changes of roles and users interleave.
NothingIsStale ==
    \A p \in Guards :
        guard[p].at = "answered"
        => \A k \in guard[p].keys :
             \E r \in AllRoles :
                /\ Lately(actedAs[guard[p].u][r], guard[p].start)
                /\ r # Admin => Lately(granted[r][k], guard[p].start)

=============================================================================
