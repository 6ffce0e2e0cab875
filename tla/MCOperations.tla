---------------------------- MODULE MCOperations ----------------------------
(***************************************************************************)
(* The operation of auth2: its administrators change the groups and the     *)
(* tables that the workers and clusters cache, its traffic is counted and   *)
(* its health is checked.  A behaviour is one of these.                    *)
(***************************************************************************)
EXTENDS Naturals, FiniteSets, Sequences, TLC

CONSTANTS
  g0, g1, g2, a, b, Groups, Patterns, All, Contain, Configs, FirstTables, Editors, None, MaxEdits, MaxDeletes, MaxRefreshes,
  Clusters, Rows, InitialRows, MaxRequests, MaxFaults,
  t1, t2, Total, PerDay, MaxRuns, MaxTrafficFaults,
  HealthClusters, BeatsOnPing, MaxOutages, MaxChecks,
  Admins, RowIds, MaxChanges, MaxLoads

VARIABLES
  which,   \* the component whose behaviour this is
  live, row, public, publicRow, edit, edits, deletes, refreshes, orphans,
  overlaps, outdated, replaced,
  up, registered, registry, table, announced, loaded, loadTime, altered,
  task, clock, requests, faults, missed, early,
  interval, request, worker, queue, rows, processed, report, job, run,
  shortfalls, dropped, skipped, together, raced, belated, overlapped, shared,
  database, redis, models, connected, clusterRows, known, lone, code,
  check, healthReport, asked, worked, outages, rowDeletes, checks,
  polledRows, change, copy, copied, polledAltered, loading, now, changes,
  loads, crossed

(* An email and a regular expression.                                      *)
Answers ==
  [p \in Patterns |-> [q \in Patterns |->
     CASE p = All -> "yes"
       [] p = b \/ (q = b /\ p # All) -> "open"
       [] p = a -> IF q = a THEN "yes" ELSE "no"]]

(* The public group, a group below it, and with it a second one.           *)
GroupConfigs ==
  {[users |-> {}, excluded |-> {}], [users |-> {a}, excluded |-> {}],
   [users |-> {a, b}, excluded |-> {a}]}

FirstRows ==
  [g \in {g0, g1, g2} |->
     IF g = g0 THEN [parent |-> None, users |-> {All}, excluded |-> {}]
     ELSE [parent |-> g0, users |-> {a}, excluded |-> {}]]

GroupTables == {[g \in {g0, g1} |-> FirstRows[g]], FirstRows}

(* Nothing tells two clusters apart.                                       *)
ClusterSymmetry == Permutations(Clusters)

Admin == INSTANCE GroupAdmin
adminVars == <<live, row, public, publicRow, edit, edits, deletes,
    refreshes, orphans, overlaps, outdated, replaced>>

Registry == INSTANCE Clusters
registryVars == <<up, registered, registry, table, announced, loaded,
    loadTime, altered, task, clock, requests, faults, missed, early>>

Traffic == INSTANCE TrafficData WITH Clusters <- {t1}, MaxRuns <- 1,
  MaxRequests <- 3, Others <- {2}, MaxInterval <- 2, MaxFaults <- MaxTrafficFaults
Merged == INSTANCE TrafficData WITH Clusters <- {t1, t2}, MaxRequests <- 2, Others <- {},
  MaxInterval <- 1, MaxFaults <- MaxTrafficFaults
trafficVars == <<interval, request, worker, queue, rows, processed, report,
    job, run, shortfalls, dropped, skipped, together, raced, belated, overlapped,
    shared>>

Monitor == INSTANCE Health WITH Clusters <- HealthClusters,
  rows <- clusterRows, report <- healthReport, deletes <- rowDeletes
monitorVars == <<database, redis, models, connected, clusterRows, known,
    lone, code, check, healthReport, asked, worked, outages, rowDeletes,
    checks>>

Poll == INSTANCE PolledTables WITH rows <- polledRows,
  altered <- polledAltered
pollVars == <<polledRows, change, copy, copied, polledAltered, loading, now,
    changes, loads, crossed>>

GroupRow == [parent : Groups \cup {None}, users : SUBSET Patterns,
             excluded : SUBSET Patterns]

(* The rows before the first edit are one tree below the public group.     *)
OneTree(first) ==
  LET ids == DOMAIN first IN
  /\ ids \subseteq Groups
  /\ \A g \in ids : /\ first[g] \in GroupRow /\ first[g].users # {}
                     /\ first[g].parent \in ids \cup {None}
  /\ \E depth \in [Groups -> 0..Cardinality(Groups)] : \A g \in ids :
       first[g].parent # None => /\ depth[first[g].parent] < depth[g]
                                 /\ Admin!FitsInto(first[g], first[first[g].parent])
  /\ \A g, h \in ids :
       first[g].parent = None /\ first[h].users = Admin!AllEmails /\ first[h].excluded = {}
         => g = h

ASSUME OperationsAssumption ==
  /\ IsFiniteSet(Groups) /\ None \notin Groups \cup GroupRow
  /\ All \in Patterns
  /\ Configs \subseteq [users : SUBSET Patterns, excluded : SUBSET Patterns]
  /\ \A first \in FirstTables : OneTree(first)
  /\ IsFiniteSet(HealthClusters) /\ None \notin {"health", "status"}
  /\ IsFiniteSet(Clusters) /\ IsFiniteSet(Rows) /\ InitialRows \subseteq SUBSET Rows
  /\ IsFiniteSet(RowIds) /\ MaxChanges \in Nat /\ MaxLoads \in Nat

ASSUME TrafficAssumption == Traffic!TrafficConstants /\ Merged!TrafficConstants

Components == {"groups", "clusters", "traffic", "merged traffic", "health",
    "tables"}

Init ==
  /\ which \in Components
  /\ Admin!Init
  /\ which # "groups" =>
       live = Groups
  /\ Registry!Init
  /\ which # "clusters" =>
       announced = [c \in Clusters |-> 0]
  /\ IF which = "traffic" THEN Traffic!Init ELSE
     IF which = "merged traffic" THEN Merged!Init ELSE
       /\ interval = None /\ request = None /\ worker = None /\ queue = None
       /\ rows = None /\ processed = None /\ report = None /\ job = None
       /\ run = None /\ shortfalls = None /\ dropped = None /\ skipped = None
       /\ together = None /\ raced = None /\ belated = None
       /\ overlapped = None /\ shared = None
  /\ Monitor!Init
  /\ Poll!Init
  /\ which # "tables" =>
       DOMAIN polledRows = {}

Next ==
  \/ /\ which = "groups" /\ Admin!Next
     /\ UNCHANGED <<which, registryVars, trafficVars, monitorVars, pollVars>>
  \/ /\ which = "clusters" /\ Registry!Next
     /\ UNCHANGED <<which, adminVars, trafficVars, monitorVars, pollVars>>
  \/ /\ which = "traffic" /\ Traffic!Next
     /\ UNCHANGED <<which, adminVars, registryVars, monitorVars, pollVars>>
  \/ /\ which = "merged traffic" /\ Merged!Next
     /\ UNCHANGED <<which, adminVars, registryVars, monitorVars, pollVars>>
  \/ /\ which = "health" /\ Monitor!Next
     /\ UNCHANGED <<which, adminVars, registryVars, trafficVars, pollVars>>
  \/ /\ which = "tables" /\ Poll!Next
     /\ UNCHANGED <<which, adminVars, registryVars, trafficVars,
                 monitorVars>>

unionVars == <<which, adminVars, registryVars, trafficVars, monitorVars,
    pollVars>>

Spec == Init /\ [][Next]_unionVars

-----------------------------------------------------------------------------
(* The groups stay one tree below the public group, in which each fits into *)
(* its parent, unless edits overlapped or used an outdated public group.   *)
TreeSound ==
  which = "groups" =>
    Admin!ParentChainsEnd /\ Admin!GroupsFitTheirParents /\ Admin!OneRoot /\ Admin!TypeOK

(***************************************************************************)
(* A cluster serves an old table without a reload to come only if it was    *)
(* not told of a change or loaded during one, and the status page shows it; *)
(* a cluster without Redis finds the change by itself.  Neither page nor    *)
(* cluster sees a change that stamps no row.                               *)
(***************************************************************************)
StaleOnlyIfExcused ==
  /\ which = "clusters" =>
       Registry!StaleOnlyIfExcused /\ Registry!StatusShowsMissed /\ Registry!TypeOK
  /\ which = "tables" => Poll!PollFindsChange /\ Poll!StatusAgrees /\ Poll!TypeOK

(* Every logged request is counted in one place, and in its interval.      *)
CountedOnce ==
  /\ which = "traffic" =>
       Traffic!CountedOnce /\ Traffic!CountedInItsInterval /\ Traffic!TypeOK
  /\ which = "merged traffic" =>
       Merged!CountedOnce /\ Merged!CountedInItsInterval /\ Merged!TypeOK

(* Every report adds up the rows of the batches that were processed, once. *)
ReportsAddUp ==
  /\ which = "traffic" => Traffic!ReportsAddUp
  /\ which = "merged traffic" => Merged!ReportsAddUp

(* What a health check says worked did work while it was running.          *)
ReportsWorked == which = "health" => Monitor!ReportsWorked /\ Monitor!TypeOK

(* A ping never takes the only cluster out of service.                     *)
LoneStaysInService == Monitor!LoneStaysInService

=============================================================================
