------------------------------- MODULE Clusters -------------------------------
(***************************************************************************)
(* The clusters that share one database: the registry each worker keeps of  *)
(* the others (clustermodels.py, clustercache.py), the announcement of a    *)
(* change of a configuration table to all of them (clustermodels.py's       *)
(* change_wrapper, clusterviews.py), the page's button that announces it    *)
(* again and the status the page shows (clusteradmin.py, ModelChange of     *)
(* models.py).                                                              *)
(*                                                                         *)
(* One worker in each cluster, with one request of an administrator at a    *)
(* time and, in a cooperative worker, other requests between its calls.     *)
(* The table is that of the groups, the one whose rows also change without  *)
(* a stamp: a function from its rows to the time each was modified, and the *)
(* clusters whose copy lacks a change that stamped nothing.                 *)
(* Time is a counter that every stamp advances: clocks agree.               *)
(***************************************************************************)
EXTENDS Naturals, FiniteSets

CONSTANTS
  Clusters,
  Rows,        \* ids of the rows of the table
  InitialRows, \* the sets of rows there are at first
  MaxRequests, \* bound: changes, and announcements asked for on the page
  MaxFaults    \* bound: stops, deleted registrations, calls that fail

VARIABLES
  up,                \* clusters that run
  registered,        \* Auth2Cluster rows
  registry,          \* _auth2_clusters of each worker
  table,             \* the committed table
  announced,         \* ModelChange.key in the Redis of each cluster, 0 for none
  loaded, loadTime,  \* the table in the memory of each worker, and since when
  altered,           \* clusters that loaded before a change without a stamp
  task,              \* the administrator's request in each cluster
  clock,
  requests, faults,  \* counters
  missed,            \* history: clusters that were not told of a change
  early              \* history: clusters that loaded while a change was under way

cacheVars == <<loaded, loadTime, altered>>
counts    == <<requests, faults>>
history   == <<missed, early>>
vars      == <<up, registered, registry, table, announced, cacheVars,
               task, clock, counts, history>>

Idle == [pc |-> "idle", kind |-> "sync", row |-> 0, modified |-> 0,
         size |-> 0, asked |-> {}, told |-> {}]

Init ==
  /\ up = Clusters
  /\ registered = Clusters
  /\ registry = [c \in Clusters |-> Clusters \ {c}]
  /\ \E S \in InitialRows : table = [r \in S |-> 1]
  /\ \E t \in {0, 2} : announced = [c \in Clusters |-> t]
  /\ loaded = [c \in Clusters |-> table]
  /\ loadTime = [c \in Clusters |-> 3]
  /\ altered = {}
  /\ task = [c \in Clusters |-> Idle]
  /\ clock = 3
  /\ requests = 0 /\ faults = 0
  /\ missed = {} /\ early = {}

At(c, pc) == c \in up /\ task[c].pc = pc

Editing(c) == task[c].pc # "idle" /\ task[c].kind # "sync"

Fault == faults < MaxFaults /\ faults' = faults + 1

Tick == clock' = clock + 1

Newest(t) == IF DOMAIN t = {} THEN 0
             ELSE CHOOSE m \in {t[r] : r \in DOMAIN t} : \A r \in DOMAIN t : t[r] <= m

-----------------------------------------------------------------------------
(* The registry.                                                            *)

(* refresh_auth2_clusters: rows replace the entries, and entries without a  *)
(* row are looked for only when the numbers tell that there are some.       *)
Refreshed(c) ==
  LET others == registered \ {c}
      merged == registry[c] \cup others
      before == Cardinality(registry[c])
  IN IF before # Cardinality(others) \/ before # Cardinality(merged)
       THEN others ELSE merged

(* Another request of the same worker, or a page, finds the check due.      *)
Refresh(c) ==
  /\ c \in up
  /\ registry' = [registry EXCEPT ![c] = Refreshed(c)]
  /\ UNCHANGED <<up, registered, table, announced, cacheVars, task, clock, counts, history>>

(* register(only_update_heartbeat=True), at a ping of a cluster that works.  *)
Heartbeat(c) ==
  /\ c \in up
  /\ registered' = registered \cup {c}
  /\ UNCHANGED <<up, registry, table, announced, cacheVars, task, clock, counts, history>>

(* pre_delete lets the row of another cluster go if its health check fails  *)
(* or says that it does not work, which a cluster that runs may do.         *)
Unregister(a, c) ==
  /\ a \in up /\ c \in registered \ {a}
  /\ IF c \in up THEN Fault ELSE UNCHANGED faults
  /\ registered' = registered \ {c}
  /\ UNCHANGED <<up, registry, table, announced, cacheVars, task, clock,
                 requests, history>>

-----------------------------------------------------------------------------
(* A save, a rename or a delete of a row, in a transaction whose last step  *)
(* is the commit.  A row of which only the name is new is saved with the    *)
(* stamp it was read with.                                                  *)
Stamp(kind, r) == IF kind = "rename" THEN table[r] ELSE clock'

BeginEdit(a, kind, r) ==
  /\ At(a, "idle") /\ requests < MaxRequests
  /\ kind # "save" => r \in DOMAIN table
  /\ requests' = requests + 1
  /\ Tick
  /\ task' = [task EXCEPT ![a] =
       [Idle EXCEPT !.pc = "announce", !.kind = kind, !.row = r, !.modified = Stamp(kind, r)]]
  /\ UNCHANGED <<up, registered, registry, table, announced, cacheVars,
                 faults, history>>

(* An identity provider is deleted: the rows that name it are set to null,  *)
(* which neither stamps nor announces them.                                 *)
DeleteProvider(a) ==
  /\ At(a, "idle") /\ requests < MaxRequests
  /\ DOMAIN table # {}
  /\ requests' = requests + 1
  /\ altered' = Clusters /\ missed' = Clusters
  /\ UNCHANGED <<up, registered, registry, table, announced, loaded, loadTime,
                 task, clock, faults, early>>

(* _send_request_to_other_clusters: a forced refresh of the registry, then  *)
(* the clusters one after the other.                                        *)
BeginSend(a, fields) ==
  /\ registry' = [registry EXCEPT ![a] = Refreshed(a)]
  /\ task' = [task EXCEPT ![a] =
       [fields EXCEPT !.pc = "send", !.size = Cardinality(registry'[a])]]

AnnounceElsewhere(a) ==
  /\ At(a, "announce")
  /\ Tick
  /\ UNCHANGED announced
  /\ BeginSend(a, [task[a] EXCEPT !.told = {a}])
  /\ UNCHANGED <<up, registered, table, cacheVars, counts, history>>

(* ModelChange.change: an error of Redis is logged and forgotten.           *)
Announce(a) ==
  /\ At(a, "announce")
  /\ Tick
  /\ announced' = [announced EXCEPT ![a] = clock']
  /\ BeginSend(a, [task[a] EXCEPT !.told = {a}])
  /\ UNCHANGED <<up, registered, table, cacheVars, counts, history>>

AnnounceFails(a) ==
  /\ At(a, "announce") /\ Fault
  /\ BeginSend(a, task[a])
  /\ UNCHANGED <<up, registered, table, announced, cacheVars, clock,
                 requests, history>>

(* sync_config announces to its own cluster only what is newer than the     *)
(* last announcement.                                                       *)
Outdated(c, modified) == announced[c] = 0 \/ announced[c] <= modified

Sync(a) ==
  LET modified == Newest(table) IN
  /\ At(a, "idle") /\ requests < MaxRequests
  /\ DOMAIN table # {}
  /\ requests' = requests + 1
  /\ IF Outdated(a, modified)
       THEN /\ Tick
            /\ announced' = [announced EXCEPT ![a] = clock']
       ELSE UNCHANGED <<announced, clock>>
  /\ BeginSend(a, [Idle EXCEPT !.modified = modified, !.told = {a}])
  /\ UNCHANGED <<up, registered, table, cacheVars, faults, missed, early>>

Undisturbed(a) == Cardinality(registry[a]) = task[a].size

(* The view config_changed: a cluster that was told since the rows were     *)
(* modified answers that it is up to date (208).                            *)
Receive(a, o) ==
  LET again == task[a].kind # "sync" \/ Outdated(o, task[a].modified) IN
  IF again
    THEN /\ Tick
         /\ announced' = [announced EXCEPT ![o] = clock']
    ELSE UNCHANGED <<announced, clock>>

CanSend(a, o) ==
  /\ At(a, "send") /\ Undisturbed(a)
  /\ o \in registry[a] \ task[a].asked

Send(a, o) ==
  /\ CanSend(a, o) /\ o \in up
  /\ Receive(a, o)
  /\ task' = [task EXCEPT ![a].asked = @ \cup {o}, ![a].told = @ \cup {o}]
  /\ UNCHANGED <<up, registered, registry, table, cacheVars, counts, missed, early>>

(* The cluster does not run, is out of reach, or its answer is lost.        *)
SendFails(a, o) ==
  /\ CanSend(a, o)
  /\ IF o \in up THEN Fault ELSE UNCHANGED faults
  /\ task' = [task EXCEPT ![a].asked = @ \cup {o}]
  /\ \/ UNCHANGED <<announced, clock>>
     \/ o \in up /\ Receive(a, o)
  /\ UNCHANGED <<up, registered, registry, table, cacheVars, requests,
                 missed, early>>

(* "dictionary changed size during iteration": the request fails, and the   *)
(* transaction is rolled back.                                              *)
Disturbed(a) ==
  /\ At(a, "send") /\ ~ Undisturbed(a)
  /\ task' = [task EXCEPT ![a] = Idle]
  /\ UNCHANGED <<up, registered, registry, table, announced, cacheVars, clock,
                 counts, history>>

Written(t, r, kind, modified) ==
  [q \in IF kind = "delete" THEN DOMAIN t \ {r} ELSE DOMAIN t \cup {r} |->
    IF q = r THEN modified ELSE t[q]]

Finish(a) ==
  /\ At(a, "send") /\ Undisturbed(a) /\ registry[a] \subseteq task[a].asked
  /\ IF Editing(a)
       THEN /\ table' = Written(table, task[a].row, task[a].kind, task[a].modified)
            /\ missed' = missed \cup (Clusters \ task[a].told)
            /\ altered' = IF task[a].kind = "rename" THEN Clusters ELSE altered
       ELSE UNCHANGED <<table, missed, altered>>
  /\ task' = [task EXCEPT ![a] = Idle]
  /\ UNCHANGED <<up, registered, registry, announced, loaded, loadTime, clock, counts,
                 early>>

-----------------------------------------------------------------------------
(* The table is read, stamped with the time before the query.               *)
ReadTable(c) ==
  /\ Tick
  /\ loaded' = [loaded EXCEPT ![c] = table]
  /\ loadTime' = [loadTime EXCEPT ![c] = clock']
  /\ altered' = altered \ {c}
  /\ missed' = missed \ {c}
  /\ early' = IF \E a \in Clusters : Editing(a) THEN early \cup {c} ELSE early \ {c}

(* What the subclasses of ModelChange know of the worker's memory.          *)
CacheTime(c) == loadTime[c]
CacheSize(c) == Cardinality(DOMAIN loaded[c])

(* is_changed: the announcement is later than the load.                     *)
Reload(c) ==
  /\ c \in up /\ announced[c] > CacheTime(c)
  /\ ReadTable(c)
  /\ UNCHANGED <<up, registered, registry, table, announced, task, counts>>

(* A stop ends the request under way and rolls its transaction back; a new  *)
(* worker registers and loads both caches (models/__init__.py).             *)
Stop(c) ==
  /\ c \in up /\ Fault
  /\ up' = up \ {c}
  /\ task' = [task EXCEPT ![c] = Idle]
  /\ UNCHANGED <<registered, registry, table, announced, cacheVars, clock, requests, history>>

Start(c) ==
  /\ c \notin up
  /\ up' = up \cup {c}
  /\ registered' = registered \cup {c}
  /\ registry' = [registry EXCEPT ![c] = registered \ {c}]
  /\ ReadTable(c)
  /\ UNCHANGED <<table, announced, task, counts>>

Next ==
  \E c \in Clusters :
    \/ Refresh(c) \/ Heartbeat(c) \/ Stop(c) \/ Start(c)
    \/ \E kind \in {"save", "rename", "delete"}, r \in Rows : BeginEdit(c, kind, r)
    \/ DeleteProvider(c)
    \/ Announce(c) \/ AnnounceFails(c) \/ Sync(c)
    \/ Disturbed(c) \/ Finish(c) \/ Reload(c)
    \/ \E o \in Clusters : Unregister(c, o) \/ Send(c, o) \/ SendFails(c, o)

Spec == Init /\ [][Next]_vars

-----------------------------------------------------------------------------
(* ModelChange.status, which the page shows for each cluster.               *)
Status(c) ==
  LET newest == Newest(table) IN
  IF announced[c] = 0 THEN "UP_TO_DATE"
  ELSE IF Cardinality(DOMAIN table) # CacheSize(c)
    THEN IF announced[c] > CacheTime(c) THEN "OUTDATED" ELSE "OUT_OF_SYNC"
  ELSE IF DOMAIN table = {} \/ CacheTime(c) >= newest THEN "UP_TO_DATE"
  ELSE IF newest > announced[c] THEN "OUT_OF_SYNC"
  ELSE IF announced[c] > CacheTime(c) THEN "OUTDATED" ELSE "UP_TO_DATE"

TypeOK ==
  /\ up \subseteq Clusters /\ registered \subseteq Clusters
  /\ altered \subseteq Clusters
  /\ \A c \in Clusters :
       /\ registry[c] \subseteq Clusters \ {c}
       /\ announced[c] <= clock /\ loadTime[c] <= clock
       /\ DOMAIN loaded[c] \subseteq Rows
       /\ task[c].told \subseteq Clusters /\ task[c].size <= Cardinality(Clusters)

(* The worker's memory is not the table, with no reload to come.            *)
Stale(c) == (loaded[c] # table \/ c \in altered) /\ announced[c] <= loadTime[c]

(* A cluster that serves an old table, and will not load the new one, was   *)
(* not told of a change (a call failed, its registration was deleted while  *)
(* it ran, or a deleted identity provider changed the rows, of which none   *)
(* is told) or loaded the table while a change was announced and not        *)
(* committed.                                                               *)
StaleOnlyIfExcused == \A c \in up : Stale(c) => c \in missed \cup early

(* The page shows such a cluster as out of sync, unless it loaded during a  *)
(* change, lacks one that stamped no row, or its Redis holds no             *)
(* announcement at all.                                                     *)
StatusShowsMissed ==
  \A c \in up :
    Stale(c) /\ c \notin early \cup altered /\ announced[c] # 0 => Status(c) = "OUT_OF_SYNC"

=============================================================================
