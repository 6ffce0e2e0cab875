-------------------------- MODULE AuthorizationCache --------------------------
(***************************************************************************)
(* The authorization cache of one auth2 worker process (cache/cache.py) and *)
(* the request path through it (can_access in models/models.py), together   *)
(* with the two things it is kept in step with: the tables UserGroup and    *)
(* UserGroupAuthorization and the time of their last change in Redis        *)
(* (ModelChange).                                                           *)
(*                                                                         *)
(* A worker runs one request at a time (gunicorn's sync worker) or switches *)
(* between requests where they wait for Redis or the database (gevent and   *)
(* eventlet workers, Cooperative = TRUE).                                   *)
(***************************************************************************)
EXTENDS GroupTree, FiniteSets

CONSTANTS
  Requests,          \* the requests a worker can have in hand
  Cooperative,
  PublicGroup,       \* the group every email belongs to
  Trees,             \* contents of the table UserGroup
  AuthTables,        \* contents of the table UserGroupAuthorization
  EmailGroupsSize,   \* EMAIL_GROUPS_CACHE_SIZE and its public counterpart
  AuthMapSize,       \* GROUPS_AUTHORIZATION_CACHE_SIZE
  MaxChanges,        \* bound: changes of the tables
  MaxFailures        \* bound: Redis or database calls that fail

UG  == "UserGroup"
UGA == "UserGroupAuthorization"
Models == {UG, UGA}

Configs(m) == IF m = UG THEN Trees ELSE AuthTables

(***************************************************************************)
(* Every group but the public one is a child of the public group: Django    *)
(* fetches parent_group from the database when it is first used, and with   *)
(* this hierarchy what it fetches is what the snapshot says.  The tables    *)
(* are not empty, as an empty dict counts as "not loaded" in the code.      *)
(***************************************************************************)
ASSUME CacheAssumption ==
  /\ Trees \subseteq Tree /\ AuthTables \subseteq AuthTable
  /\ None \notin Trees /\ None \notin AuthTables
  /\ None \notin Requests
  /\ \A k \in SUBSET Groups : k # None
  /\ Cooperative \in BOOLEAN
  /\ MaxChanges \in Nat /\ MaxFailures \in Nat
  /\ \A t \in Trees :
       /\ Roots(t) = {PublicGroup}
       /\ t.users[PublicGroup] = Emails /\ t.excluded[PublicGroup] = {}
       /\ \A g \in Groups \ {PublicGroup} : t.parent[g] = PublicGroup
  /\ \A tab \in AuthTables : \E g \in Groups : tab[g] # <<>>

VARIABLES
  db,         \* the committed content of each table
  txn,        \* the content an open transaction will commit, or None
  lastMod,    \* ModelChange: time of the last change, in Redis
  now,        \* the clock: no two readings are equal
  cached,     \* _usergrouptree and _usergroupauthorization
  cachedTs,   \* _usergrouptree_ts and _usergroupauthorization_ts
  emailMap,   \* _email_groups_map and _public_email_groups_map
  groupsMap,  \* _groups_map: the tree the group objects were loaded with
  authMap,    \* _groups_authorization_map
  checkTime,  \* _authorization_cache_check_time: "unset", "waiting", "due"
  req,        \* local variables of each request
  rows,       \* what the query of each request returned, or None
  cpu,        \* the request that is running, or None
  changes, failures,
  racy,       \* history: the cached table was read while a change that
              \*   Redis already announced was not committed
  lost        \* history: a change was not announced, as Redis failed

tables == <<db, txn, lastMod>>
maps   == <<emailMap, groupsMap, authMap>>
loaded == <<cached, cachedTs, racy, rows>>
vars   == <<tables, now, loaded, maps, checkTime, req, cpu, changes, failures, lost>>

Keys == SUBSET Groups

(* Local variables of can_access and of the refresh it may run.            *)
Idle ==
  [pc |-> "idle", email |-> None, domain |-> None,
   key |-> None,       \* groupskey
   groups |-> None,    \* usergroups, and the tree they belong to
   tree |-> None,
   todo |-> {},        \* the tables refresh_authorization_cache still checks
   force |-> FALSE,
   after |-> "idle",   \* where the request goes on after the refresh
   ts |-> 0,           \* refreshtime
   racy |-> FALSE]

(* refresh_authorization_cache refreshes the groups first.                 *)
Table(q) == IF UG \in q.todo THEN UG ELSE UGA

Init ==
  /\ \E t \in Trees, a \in AuthTables : db = [m \in Models |-> IF m = UG THEN t ELSE a]
  /\ txn = [m \in Models |-> None]
  /\ lastMod = [m \in Models |-> 0]
  /\ now = 0
  /\ cached = [m \in Models |-> None]
  /\ cachedTs = [m \in Models |-> 0]
  /\ emailMap = [e \in Emails |-> None]
  /\ groupsMap = [k \in Keys |-> None]
  /\ authMap = [x \in Keys \X Domains |-> None]
  /\ checkTime = "unset"
  /\ req = [r \in Requests |-> Idle]
  /\ rows = [r \in Requests |-> None]
  /\ cpu = None
  /\ changes = 0 /\ failures = 0
  /\ racy = [m \in Models |-> FALSE]
  /\ lost = [m \in Models |-> FALSE]

-----------------------------------------------------------------------------
(* The administrators' side: DbObjectMixin.save and delete.                *)

(***************************************************************************)
(* The post_save or post_delete receiver announces the change while the     *)
(* transaction.atomic() block is still open.                                *)
(***************************************************************************)
Save(m, v) ==
  /\ txn[m] = None /\ v # db[m]
  /\ changes < MaxChanges
  /\ changes' = changes + 1
  /\ txn' = [txn EXCEPT ![m] = v]
  /\ now' = now + 1
  /\ lastMod' = [lastMod EXCEPT ![m] = now']
  /\ UNCHANGED <<db, loaded, maps, checkTime, req, cpu, failures, lost>>

(* ModelChange.change swallows a Redis failure.                            *)
SaveUnannounced(m, v) ==
  /\ txn[m] = None /\ v # db[m]
  /\ changes < MaxChanges /\ failures < MaxFailures
  /\ changes' = changes + 1
  /\ failures' = failures + 1
  /\ txn' = [txn EXCEPT ![m] = v]
  /\ lost' = [lost EXCEPT ![m] = TRUE]
  /\ UNCHANGED <<db, lastMod, now, loaded, maps, checkTime, req, cpu>>

CommitBlindly(m) ==
  /\ db' = [db EXCEPT ![m] = txn[m]]
  /\ txn' = [txn EXCEPT ![m] = None]
  /\ UNCHANGED <<lastMod, now, loaded, maps, checkTime, req, cpu, changes, failures, lost>>

Commit(m) ==
  /\ txn[m] # None
  /\ db' = [db EXCEPT ![m] = txn[m]]
  /\ txn' = [txn EXCEPT ![m] = None]
  /\ UNCHANGED <<lastMod, now, loaded, maps, checkTime, req, cpu, changes, failures, lost>>

Rollback(m) ==
  /\ txn[m] # None
  /\ txn' = [txn EXCEPT ![m] = None]
  /\ UNCHANGED <<db, lastMod, now, loaded, maps, checkTime, req, cpu, changes, failures, lost>>

-----------------------------------------------------------------------------
(* Scheduling of the worker.                                               *)

(* A request waits for Redis (is_changed) or for the database.             *)
AtIO(r) ==
  \/ req[r].pc \in {"read", "set"}
  \/ /\ req[r].pc = "check"
     /\ cached[Table(req[r])] # None

(* The worker is initialized (force) before it takes requests.             *)
Yield(r) ==
  /\ Cooperative /\ ~req[r].force
  /\ cpu = r /\ AtIO(r)
  /\ cpu' = None
  /\ UNCHANGED <<tables, now, loaded, maps, checkTime, req, changes, failures, lost>>

Resume(r) ==
  /\ cpu = None /\ req[r].pc # "idle"
  /\ cpu' = r
  /\ UNCHANGED <<tables, now, loaded, maps, checkTime, req, changes, failures, lost>>

(* IntervalTaskRunable or HourListTaskRunable: the next run time passes.   *)
CheckTimeArrives ==
  /\ checkTime = "waiting"
  /\ checkTime' = "due"
  /\ UNCHANGED <<tables, now, loaded, maps, req, cpu, changes, failures, lost>>

At(r, pc) == cpu = r /\ req[r].pc = pc

Free(r) == cpu = None /\ req[r].pc = "idle"

(* The request ends: its answer or its exception leaves the worker.        *)
Leave(r) ==
  /\ req' = [req EXCEPT ![r] = Idle]
  /\ cpu' = None

(* The request starts the refresh of the tables ms and then goes on.       *)
StartRefresh(r, ms, force, after) ==
  req' = [req EXCEPT ![r].pc = "check", ![r].todo = ms,
                     ![r].force = force, ![r].after = after]

(* The table the request was at is done.                                   *)
Advanced(q) ==
  IF q.todo # {Table(q)}
  THEN [q EXCEPT !.pc = "check", !.todo = q.todo \ {Table(q)}, !.ts = 0, !.racy = FALSE]
  ELSE IF q.after = "idle" THEN Idle
  ELSE [q EXCEPT !.pc = q.after, !.todo = {}, !.after = "idle",
                 !.ts = 0, !.racy = FALSE]

-----------------------------------------------------------------------------
(* Refreshing.                                                             *)

IsChanged(m) == lastMod[m] > cachedTs[m]

(* models.initialize, called after gunicorn forked the worker.             *)
Initialize(r) ==
  /\ Free(r) /\ checkTime = "unset"
  /\ checkTime' = "waiting"
  /\ cpu' = r
  /\ StartRefresh(r, Models, TRUE, "idle")
  /\ UNCHANGED <<tables, now, loaded, maps, changes, failures, lost>>

(* An admin page: refresh_cache_if_required does not reset the check time. *)
(* Its user was authorized first, so the groups are loaded.                *)
AdminRefresh(r, m) ==
  /\ Free(r) /\ checkTime = "due"
  /\ cached[UG] # None
  /\ cpu' = r
  /\ StartRefresh(r, {m}, FALSE, "idle")
  /\ UNCHANGED <<tables, now, loaded, maps, checkTime, changes, failures, lost>>

EmptyEmailMaps ==
  /\ emailMap' = [e \in Emails |-> None]
  /\ groupsMap' = [k \in Keys |-> None]

EmptyAuthMap == authMap' = [x \in Keys \X Domains |-> None]

ClearAuthMapOnly(m) == EmptyAuthMap /\ UNCHANGED <<emailMap, groupsMap>>

ClearKeepsAuthMap(m) ==
  /\ UNCHANGED authMap
  /\ IF m = UG THEN EmptyEmailMaps ELSE UNCHANGED <<emailMap, groupsMap>>

(* refresh_usergroups and refresh_usergroupauthorization drop what was     *)
(* computed from the table they are about to load.                         *)
Clear(m) ==
  /\ EmptyAuthMap
  /\ IF m = UG THEN EmptyEmailMaps ELSE UNCHANGED <<emailMap, groupsMap>>

(* refresh_cache notes refreshtime before it sends the query.              *)
CheckLoads(r) ==
  LET m == Table(req[r]) IN
  /\ At(r, "check")
  /\ req[r].force \/ cached[m] = None \/ IsChanged(m)
  /\ Clear(m)
  /\ now' = now + 1
  /\ req' = [req EXCEPT ![r].pc = "read", ![r].ts = now']
  /\ UNCHANGED <<tables, loaded, checkTime, cpu, changes, failures, lost>>

(* is_changed is False ...                                                 *)
CheckSkips(r) ==
  LET m == Table(req[r]) IN
  /\ At(r, "check")
  /\ ~req[r].force /\ cached[m] # None /\ ~IsChanged(m)
  /\ req' = [req EXCEPT ![r] = Advanced(req[r])]
  /\ cpu' = IF req'[r].pc = "idle" THEN None ELSE r
  /\ UNCHANGED <<tables, now, loaded, maps, checkTime, changes, failures, lost>>

(* ... or Redis failed, and it is assumed to be False.                     *)
CheckFails(r) ==
  LET m == Table(req[r]) IN
  /\ At(r, "check")
  /\ ~req[r].force /\ cached[m] # None
  /\ failures < MaxFailures
  /\ failures' = failures + 1
  /\ req' = [req EXCEPT ![r] = Advanced(req[r])]
  /\ cpu' = IF req'[r].pc = "idle" THEN None ELSE r
  /\ UNCHANGED <<tables, now, loaded, maps, checkTime, changes, lost>>

Announced(m, ts) == txn[m] # None /\ lastMod[m] <= ts

(* The query sees what is committed.                                       *)
ReadTable(r) ==
  LET m == Table(req[r]) IN
  /\ At(r, "read")
  /\ rows' = [rows EXCEPT ![r] = db[m]]
  /\ req' = [req EXCEPT ![r].pc = "set", ![r].racy = Announced(m, req[r].ts)]
  /\ UNCHANGED <<tables, now, cached, cachedTs, racy, maps, checkTime, cpu, changes, failures, lost>>

(* The database fails: the exception ends the request, the maps stay empty.*)
ReadFails(r) ==
  /\ At(r, "read")
  /\ failures < MaxFailures
  /\ failures' = failures + 1
  /\ Leave(r)
  /\ UNCHANGED <<tables, now, loaded, maps, checkTime, changes, lost>>

SetTableStampedLate(r) ==
  LET m == Table(req[r]) IN
  /\ At(r, "set")
  /\ cached' = [cached EXCEPT ![m] = rows[r]]
  /\ rows' = [rows EXCEPT ![r] = None]
  /\ cachedTs' = [cachedTs EXCEPT ![m] = now]
  /\ racy' = [racy EXCEPT ![m] = req[r].racy]
  /\ req' = [req EXCEPT ![r] = Advanced(req[r])]
  /\ cpu' = IF req'[r].pc = "idle" THEN None ELSE r
  /\ UNCHANGED <<tables, now, maps, checkTime, changes, failures, lost>>

(* cache.usergrouptree = ..., cache.usergroupauthorization = ...           *)
SetTable(r) ==
  LET m == Table(req[r]) IN
  /\ At(r, "set")
  /\ cached' = [cached EXCEPT ![m] = rows[r]]
  /\ rows' = [rows EXCEPT ![r] = None]
  /\ cachedTs' = [cachedTs EXCEPT ![m] = req[r].ts]
  /\ racy' = [racy EXCEPT ![m] = req[r].racy]
  /\ req' = [req EXCEPT ![r] = Advanced(req[r])]
  /\ cpu' = IF req'[r].pc = "idle" THEN None ELSE r
  /\ UNCHANGED <<tables, now, maps, checkTime, changes, failures, lost>>

-----------------------------------------------------------------------------
(* can_access(email, domain, path).                                        *)

Begin(r, e, d) ==
  /\ Free(r) /\ checkTime # "unset"
  /\ cpu' = r
  /\ req' = [req EXCEPT ![r] =
               [Idle EXCEPT !.email = e, !.domain = d, !.key = emailMap[e],
                            !.pc = IF emailMap[e] = None THEN "groups" ELSE "refresh"]]
  /\ UNCHANGED <<tables, now, loaded, maps, checkTime, changes, failures, lost>>

(* get_grouptree finds no tree: refresh_usergroups loads it.               *)
GroupsLoads(r) ==
  /\ At(r, "groups")
  /\ cached[UG] = None
  /\ StartRefresh(r, {UG}, FALSE, "groups")
  /\ UNCHANGED <<tables, now, loaded, maps, checkTime, cpu, changes, failures, lost>>

(* What _enforce_maxsize leaves of map f after k was set: it removes the   *)
(* oldest entry, here any entry of the same map but the new one.           *)
Trimmed(f, k, same, size) ==
  LET used == {x \in same : f[x] # None}
  IN  IF Cardinality(used) <= size THEN {f}
      ELSE {[f EXCEPT ![x] = None] : x \in used \ {k}}

SameMap(e, k) ==
  {x \in Emails : x = e \/ ((emailMap[x] = {PublicGroup}) <=> (k = {PublicGroup}))}

(* find_groups computes the groups and set_email_groups caches them.  The  *)
(* public group contains every email, so there is at least one.  The first *)
(* call, from can_access, goes on with the refresh; the second one, from   *)
(* find_authorizations, with the authorizations.                           *)
ComputeGroups(r) ==
  LET e  == req[r].email
      gs == MatchedGroups(cached[UG], e)
  IN
  /\ At(r, "groups")
  /\ cached[UG] # None
  /\ emailMap' \in Trimmed([emailMap EXCEPT ![e] = gs], e, SameMap(e, gs), EmailGroupsSize)
  /\ groupsMap' = [groupsMap EXCEPT ![gs] = IF @ = None THEN cached[UG] ELSE @]
  /\ req' = [req EXCEPT ![r].groups = gs, ![r].tree = cached[UG],
                        ![r].key = IF @ = None THEN gs ELSE @,
                        ![r].pc = IF req[r].key = None THEN "refresh" ELSE "authorize"]
  /\ UNCHANGED <<tables, now, loaded, authMap, checkTime, cpu, changes, failures, lost>>

RefreshRunsForGroups(r) ==
  /\ At(r, "refresh")
  /\ checkTime = "due" \/ cached[UG] = None
  /\ checkTime' = "waiting"
  /\ StartRefresh(r, {UG}, FALSE, "lookup")
  /\ UNCHANGED <<tables, now, loaded, maps, cpu, changes, failures, lost>>

(* get_authorizations, refresh_authorization_cache: can_run() is True, or  *)
(* there is no tree.                                                       *)
RefreshRuns(r) ==
  /\ At(r, "refresh")
  /\ checkTime = "due" \/ cached[UG] = None
  /\ checkTime' = "waiting"
  /\ StartRefresh(r, Models, FALSE, "lookup")
  /\ UNCHANGED <<tables, now, loaded, maps, cpu, changes, failures, lost>>

RefreshSkips(r) ==
  /\ At(r, "refresh")
  /\ checkTime = "waiting" /\ cached[UG] # None
  /\ req' = [req EXCEPT ![r].pc = "lookup"]
  /\ UNCHANGED <<tables, now, loaded, maps, checkTime, cpu, changes, failures, lost>>

(* _groups_authorization_map.get((groupskey, domain))                      *)
Hit(r) == authMap[req[r].key, req[r].domain] # None

LookupHits(r) ==
  /\ At(r, "lookup") /\ Hit(r)
  /\ Leave(r)
  /\ UNCHANGED <<tables, now, loaded, maps, checkTime, changes, failures, lost>>

LookupMisses(r) ==
  /\ At(r, "lookup") /\ ~Hit(r)
  /\ req' = [req EXCEPT ![r].pc = IF req[r].groups = None THEN "find" ELSE "authorize"]
  /\ UNCHANGED <<tables, now, loaded, maps, checkTime, cpu, changes, failures, lost>>

(* find_groups, called by find_authorizations: get_email_groups.           *)
CachedKey(r) == emailMap[req[r].email]

CachedGroups(r) == CachedKey(r) # None /\ groupsMap[CachedKey(r)] # None

FindHits(r) ==
  /\ At(r, "find") /\ CachedGroups(r)
  /\ req' = [req EXCEPT ![r].groups = CachedKey(r), ![r].tree = groupsMap[CachedKey(r)],
                        ![r].pc = "authorize"]
  /\ UNCHANGED <<tables, now, loaded, maps, checkTime, cpu, changes, failures, lost>>

FindMisses(r) ==
  /\ At(r, "find") /\ ~CachedGroups(r)
  /\ req' = [req EXCEPT ![r].pc = "groups"]
  /\ UNCHANGED <<tables, now, loaded, maps, checkTime, cpu, changes, failures, lost>>

AuthorizeLoads(r) ==
  /\ At(r, "authorize")
  /\ cached[UGA] = None
  /\ StartRefresh(r, {UGA}, FALSE, "authorize")
  /\ UNCHANGED <<tables, now, loaded, maps, checkTime, cpu, changes, failures, lost>>

(* find_authorizations, then set_authorizations under the key the request  *)
(* started with.                                                           *)
ComputeAuthorizations(r) ==
  LET x == <<req[r].key, req[r].domain>>
      found == FindAuthorizations(req[r].tree, cached[UGA], req[r].groups, req[r].domain)
  IN
  /\ At(r, "authorize")
  /\ cached[UGA] # None
  /\ authMap' \in Trimmed([authMap EXCEPT ![x] = found], x, DOMAIN authMap, AuthMapSize)
  /\ Leave(r)
  /\ UNCHANGED <<tables, now, loaded, emailMap, groupsMap, checkTime, changes, failures, lost>>

-----------------------------------------------------------------------------
RequestStep(r) ==
  \/ CheckLoads(r) \/ CheckSkips(r) \/ CheckFails(r)
  \/ ReadTable(r) \/ ReadFails(r) \/ SetTable(r)
  \/ GroupsLoads(r) \/ ComputeGroups(r)
  \/ RefreshRuns(r) \/ RefreshSkips(r)
  \/ LookupHits(r) \/ LookupMisses(r)
  \/ FindHits(r) \/ FindMisses(r)
  \/ AuthorizeLoads(r) \/ ComputeAuthorizations(r)

NewRequest(r) == \E e \in Emails, d \in Domains : Begin(r, e, d)

Next ==
  \/ \E m \in Models : \E v \in Configs(m) : Save(m, v) \/ SaveUnannounced(m, v)
  \/ \E m \in Models : Commit(m) \/ Rollback(m)
  \/ CheckTimeArrives
  \/ \E r \in Requests :
       \/ Initialize(r) \/ NewRequest(r) \/ RequestStep(r)
       \/ Yield(r) \/ Resume(r)
       \/ \E m \in Models : AdminRefresh(r, m)

Spec == Init /\ [][Next]_vars

(***************************************************************************)
(* A worker that has a request goes on with it; the clock advances; users   *)
(* keep sending requests, and the accept queue does not prefer the admin    *)
(* pages for ever.                                                          *)
(***************************************************************************)
Fairness ==
  /\ WF_vars(CheckTimeArrives)
  /\ \A r \in Requests :
       /\ WF_vars(Initialize(r))
       /\ WF_vars(RequestStep(r) \/ Resume(r))
       /\ SF_vars(NewRequest(r))

FairSpec == Spec /\ Fairness

-----------------------------------------------------------------------------
PCs == {"idle", "check", "read", "set", "groups", "refresh", "lookup", "find", "authorize"}

Request ==
  [pc : PCs, email : Emails \cup {None}, domain : Domains \cup {None},
   key : Keys \cup {None}, groups : Keys \cup {None}, tree : Trees \cup {None},
   todo : SUBSET Models, force : BOOLEAN,
   after : {"idle", "groups", "lookup", "authorize"},
   ts : Nat, racy : BOOLEAN]

(* A request is in a refresh exactly while it has a table to refresh, and   *)
(* serves a user unless the refresh is all it is for.                       *)
WellFormed(q) ==
  /\ q \in Request
  /\ q.pc \in {"check", "read", "set"} <=> q.todo # {}
  /\ q.email \in Emails \/ q.pc = "idle" \/ (q.todo # {} /\ q.after = "idle")

TypeOK ==
  /\ DOMAIN db = Models /\ DOMAIN txn = Models /\ DOMAIN cached = Models
  /\ \A m \in Models :
       /\ db[m] \in Configs(m)
       /\ txn[m] \in Configs(m) \cup {None}
       /\ cached[m] \in Configs(m) \cup {None}
  /\ lastMod \in [Models -> Nat] /\ cachedTs \in [Models -> Nat] /\ now \in Nat
  /\ emailMap \in [Emails -> Keys \cup {None}]
  /\ groupsMap \in [Keys -> Trees \cup {None}]
  /\ DOMAIN authMap = Keys \X Domains
  /\ checkTime \in {"unset", "waiting", "due"}
  /\ req \in [Requests -> Request]
  /\ DOMAIN rows = Requests
  /\ \A r \in Requests :
       /\ WellFormed(req[r])
       /\ req[r].pc = "set" => rows[r] \in Configs(Table(req[r]))
  /\ cpu \in Requests \cup {None}
  /\ changes \in 0..MaxChanges /\ failures \in 0..MaxFailures
  /\ racy \in [Models -> BOOLEAN] /\ lost \in [Models -> BOOLEAN]

(***************************************************************************)
(* The groups cached for an email are the groups the cached tree gives it   *)
(* (cache.py: "the map between email and groups key"), although tree and    *)
(* maps are emptied and filled in different steps of different requests.    *)
(***************************************************************************)
EmailGroupsCurrent ==
  \A e \in Emails :
    emailMap[e] # None =>
      /\ cached[UG] # None
      /\ emailMap[e] = MatchedGroups(cached[UG], e)
      /\ groupsMap[emailMap[e]] = cached[UG]

(***************************************************************************)
(* An entry of the authorization map is misfiled when it is not what the    *)
(* cached tables give for its groups and its domain.  can_access reads      *)
(* groupskey before the refresh and files its result under it afterwards,   *)
(* so the request that reloads the tree can misfile its own result; no      *)
(* other entry is ever wrong in a sync worker.                              *)
(***************************************************************************)
Misfiled ==
  {x \in Keys \X Domains :
     /\ authMap[x] # None
     /\ cached[UG] = None \/ cached[UGA] = None
        \/ authMap[x] # FindAuthorizations(cached[UG], cached[UGA], x[1], x[2])}

AtMostOneMisfiled == \A x, y \in Misfiled : x = y

(***************************************************************************)
(* can_access (models.py, "Return True if the user(email) can access        *)
(* domain/path"): the authorizations it answers from are those of the       *)
(* user's groups in the cached tables.                                      *)
(***************************************************************************)
AnswersCurrent ==
  \A r \in Requests :
    At(r, "lookup") /\ Hit(r) =>
      authMap[req[r].key, req[r].domain] =
        FindAuthorizations(cached[UG], cached[UGA],
                           MatchedGroups(cached[UG], req[r].email), req[r].domain)

(***************************************************************************)
(* A table that is_changed reports unchanged is stale only if the announce- *)
(* ment of the change overtook its commit, or was lost with Redis.  In      *)
(* particular no change announced while a query runs is ever missed, in any *)
(* interleaving of requests that load the same table.                       *)
(***************************************************************************)
StaleOnlyThroughWindow ==
  \A m \in Models :
    (cached[m] # None /\ txn[m] = None /\ ~IsChanged(m) /\ cached[m] # db[m])
      => racy[m] \/ lost[m]

(***************************************************************************)
(* An announced change is eventually followed by a reload, whatever fails   *)
(* on the way: a failed check or query is repeated at the next check time.  *)
(***************************************************************************)
ChangesAreLoaded == \A m \in Models : IsChanged(m) ~> ~IsChanged(m)

=============================================================================
