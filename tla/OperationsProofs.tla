---------------------------- MODULE OperationsProofs ----------------------------
(***************************************************************************)
(* Proofs about the behaviours MCOperations puts together: health checks,   *)
(* the clusters that tell each other of changes, a worker that finds        *)
(* changes without Redis, and the edits of groups, for any number of        *)
(* clusters, rows, groups and faults.                                      *)
(***************************************************************************)
EXTENDS MCOperations, FiniteSetTheorems, WellFoundedInduction, TLAPS

-----------------------------------------------------------------------------
(***************************************************************************)
(* Health checks.  What works now has worked since the check in progress    *)
(* began, and the check has found working nothing else.  A cluster that met *)
(* no other row at its last refresh knows of none.                         *)
(***************************************************************************)
LEMMA StepOfHealth ==
  ASSUME [Next]_unionVars
  PROVE  Monitor!Next \/ UNCHANGED monitorVars
BY DEF Next, unionVars

HealthCheck == [kind : {"health", "status"}, at : HealthClusters, todo : SUBSET HealthClusters,
                working : BOOLEAN]

HealthShapes ==
  /\ redis \in [HealthClusters -> BOOLEAN] /\ clusterRows \subseteq HealthClusters
  /\ known \in [HealthClusters -> SUBSET HealthClusters]
  /\ code \in [HealthClusters -> Monitor!Codes]
  /\ lone \in [HealthClusters -> BOOLEAN]
  /\ healthReport \in {None, "health", "status", "failing", "error"}
  /\ check = Monitor!NoCheck \/ check \in HealthCheck

KnowsOthers ==
  \A c \in HealthClusters : c \notin known[c] /\ (lone[c] => known[c] = {})

WorkingNow == {c \in HealthClusters : Monitor!Working(c)}

CheckOK(q) ==
  /\ WorkingNow \subseteq worked
  /\ q.kind = "health" /\ q.working => worked # {}
  /\ q.kind = "status" /\ q.working => asked \ q.todo \subseteq worked

HealthInv ==
  /\ HealthShapes
  /\ KnowsOthers
  /\ check \in HealthCheck => CheckOK(check)
  /\ Monitor!ReportsWorked

LEMMA NoCheckFacts ==
  /\ Monitor!NoCheck.kind \notin {"health", "status"} /\ Monitor!NoCheck \notin HealthCheck
  /\ None # "health" /\ None # "status"
BY OperationsAssumption DEF Monitor!NoCheck, HealthCheck

LEMMA SameCardinality ==
  ASSUME NEW S
  PROVE  /\ Monitor!Cardinality(S) = Cardinality(S)
         /\ Registry!Cardinality(S) = Cardinality(S)
         /\ Poll!Cardinality(S) = Cardinality(S)
BY DEF Monitor!Cardinality, Registry!Cardinality, Poll!Cardinality, Cardinality,
   Monitor!IsFiniteSet, Registry!IsFiniteSet, Poll!IsFiniteSet, IsFiniteSet

LEMMA HealthInit ==
  ASSUME Init PROVE HealthInv
<1>0. Monitor!Init
  BY DEF Init
<1>1. /\ redis = [c \in HealthClusters |-> TRUE]
      /\ clusterRows = HealthClusters /\ known = [c \in HealthClusters |-> HealthClusters \ {c}]
      /\ lone = [c \in HealthClusters |-> Cardinality(HealthClusters) = 1]
      /\ code = [c \in HealthClusters |-> 200] /\ check = Monitor!NoCheck /\ healthReport = None
  BY <1>0, SameCardinality DEF Monitor!Init
<1>2. HealthShapes
  BY <1>1 DEF HealthShapes, Monitor!Codes
<1>3. KnowsOthers
  <2>1. ASSUME NEW c \in HealthClusters, Cardinality(HealthClusters) = 1
        PROVE  HealthClusters \ {c} = {}
    <3>1. PICK x : HealthClusters = {x}
      BY <2>1, FS_Singleton, OperationsAssumption
    <3>. QED
      BY <3>1
  <2>. QED
    BY <1>1, <2>1 DEF KnowsOthers
<1>. QED
  BY <1>1, <1>2, <1>3, NoCheckFacts DEF HealthInv, Monitor!ReportsWorked

(* Nothing starts to work, or what does is noted.                          *)
LEMMA QuietHealth ==
  ASSUME HealthInv, HealthShapes', KnowsOthers', UNCHANGED <<check, healthReport, asked>>,
         worked \subseteq worked', WorkingNow' \subseteq WorkingNow \cup worked'
  PROVE  HealthInv'
<1>1. check \in HealthCheck => CheckOK(check)'
  BY DEF HealthInv, CheckOK
<1>. QED
  BY <1>1 DEF HealthInv, Monitor!ReportsWorked

LEMMA PingStep ==
  ASSUME HealthInv, NEW c \in HealthClusters, Monitor!Ping(c)
  PROVE  HealthInv' /\ (code'[c] = 503 => ~lone[c]) /\ \A d \in HealthClusters \ {c} : code'[d] = code[d]
<1>1. /\ code' = [code EXCEPT ![c] = Monitor!PingCode(c)]
      /\ clusterRows' \subseteq clusterRows \cup {c}
      /\ UNCHANGED <<database, redis, known, lone, worked, check, healthReport, asked>>
  BY DEF Monitor!Ping, Monitor!Servers, Monitor!Checking
<1>2. Monitor!PingCode(c) \in Monitor!Codes
  BY DEF Monitor!PingCode, Monitor!Codes
<1>3. HealthShapes' /\ KnowsOthers'
  BY <1>1, <1>2 DEF HealthInv, HealthShapes, KnowsOthers
<1>4. WorkingNow' = WorkingNow
  BY <1>1 DEF WorkingNow, Monitor!Working, Monitor!AllPing
<1>5. code'[c] = 503 => ~lone[c]
  BY <1>1 DEF HealthInv, HealthShapes, KnowsOthers, Monitor!PingCode, Monitor!Working
<1>. QED
  BY <1>1, <1>3, <1>4, <1>5, QuietHealth DEF HealthInv, HealthShapes

LEMMA StartCheckStep ==
  ASSUME HealthInv, NEW c \in HealthClusters, NEW kind \in {"health", "status"},
         Monitor!StartCheck(kind, c)
  PROVE  HealthInv' /\ code' = code
<1>1. /\ check = Monitor!NoCheck
      /\ UNCHANGED <<database, redis, clusterRows, known, lone, code>>
      /\ \/ /\ check' = [kind |-> kind, at |-> c, todo |-> clusterRows, working |-> kind = "status"]
            /\ asked' = clusterRows /\ worked' = WorkingNow /\ healthReport' = None
         \/ healthReport' = "error" /\ UNCHANGED <<check, asked, worked>>
  BY DEF Monitor!StartCheck, Monitor!Servers, Monitor!Table, WorkingNow
<1>2. WorkingNow' = WorkingNow
  BY <1>1 DEF WorkingNow, Monitor!Working, Monitor!AllPing
<1>3. CASE healthReport' = "error" /\ UNCHANGED <<check, asked, worked>>
  BY <1>1, <1>3, NoCheckFacts DEF HealthInv, HealthShapes, KnowsOthers, Monitor!ReportsWorked
<1>4. CASE /\ check' = [kind |-> kind, at |-> c, todo |-> clusterRows, working |-> kind = "status"]
           /\ asked' = clusterRows /\ worked' = WorkingNow /\ healthReport' = None
  <2>1. /\ check' \in HealthCheck /\ check'.kind = kind /\ check'.todo = clusterRows
        /\ (kind = "health" => ~check'.working)
    BY <1>4 DEF HealthInv, HealthShapes, HealthCheck
  <2>2. CheckOK(check)'
    BY <1>2, <1>4, <2>1 DEF CheckOK
  <2>. QED
    BY <1>1, <1>4, <2>1, <2>2, NoCheckFacts DEF HealthInv, HealthShapes, KnowsOthers, Monitor!ReportsWorked
<1>. QED
  BY <1>1, <1>3, <1>4

(* The answer of one cluster is added to those the check has.               *)
LEMMA AskStep ==
  ASSUME HealthInv, NEW c \in HealthClusters, Monitor!HealthOf(c) \/ Monitor!StatusOf(c)
  PROVE  HealthInv' /\ code' = code
<1> DEFINE fine == /\ check.kind = "health"
                   /\ ~Monitor!PingRaises(c) /\ Monitor!Working(c) /\ Monitor!Reached(c)
           well == /\ check.kind = "status"
                   /\ ~Monitor!StatusRaises(c) /\ Monitor!RedisOk(c) /\ Monitor!Reached(c)
<1>1. /\ check.kind \in {"health", "status"}
      /\ UNCHANGED <<database, redis, clusterRows, known, lone, code, asked, worked>>
      /\ \/ healthReport' = "error" /\ check' = Monitor!NoCheck
         \/ /\ healthReport' = healthReport
            /\ \/ /\ check.kind = "health"
                  /\ check' = [check EXCEPT !.todo = @ \ {c}, !.working = @ \/ fine]
               \/ /\ check.kind = "status"
                  /\ check' = [check EXCEPT !.todo = @ \ {c}, !.working = @ /\ well]
  BY DEF Monitor!HealthOf, Monitor!StatusOf, Monitor!Servers, Monitor!Table
<1>2. check \in HealthCheck /\ CheckOK(check)
  BY <1>1, NoCheckFacts DEF HealthInv, HealthShapes
<1>3. WorkingNow' = WorkingNow
  BY <1>1 DEF WorkingNow, Monitor!Working, Monitor!AllPing
<1>4. fine \/ well => c \in worked
  BY <1>2 DEF CheckOK, WorkingNow, Monitor!Working, Monitor!AllPing, Monitor!StatusRaises, Monitor!RedisOk
<1> HIDE DEF fine, well
<1>5. CASE healthReport' = "error" /\ check' = Monitor!NoCheck
  BY <1>1, <1>5, NoCheckFacts DEF HealthInv, HealthShapes, KnowsOthers, Monitor!ReportsWorked
<1>6. CASE /\ healthReport' = healthReport /\ check.kind = "health"
           /\ check' = [check EXCEPT !.todo = @ \ {c}, !.working = @ \/ fine]
  <2>1. /\ check' \in HealthCheck /\ check'.kind = "health"
        /\ (check'.working => check.working \/ fine)
    <3>1. fine \in BOOLEAN
      BY DEF fine
    <3>. QED
      BY <1>2, <1>6, <3>1 DEF HealthCheck
  <2>2. CheckOK(check)'
    BY <1>1, <1>2, <1>3, <1>4, <1>6, <2>1 DEF CheckOK
  <2>. QED
    BY <1>1, <1>6, <2>1, <2>2 DEF HealthInv, HealthShapes, KnowsOthers, Monitor!ReportsWorked
<1>7. CASE /\ healthReport' = healthReport /\ check.kind = "status"
           /\ check' = [check EXCEPT !.todo = @ \ {c}, !.working = @ /\ well]
  <2>1. /\ check' \in HealthCheck /\ check'.kind = "status"
        /\ (check'.working => check.working /\ well)
        /\ check'.todo = check.todo \ {c}
    <3>1. well \in BOOLEAN
      BY DEF well
    <3>. QED
      BY <1>2, <1>7, <3>1 DEF HealthCheck
  <2>2. CheckOK(check)'
    BY <1>1, <1>2, <1>3, <1>4, <1>7, <2>1 DEF CheckOK
  <2>. QED
    BY <1>1, <1>7, <2>1, <2>2 DEF HealthInv, HealthShapes, KnowsOthers, Monitor!ReportsWorked
<1>. QED
  BY <1>1, <1>5, <1>6, <1>7

LEMMA EndCheckStep ==
  ASSUME HealthInv, Monitor!EndCheck PROVE HealthInv' /\ code' = code
<1>1. /\ check \in HealthCheck /\ check.todo = {} /\ check' = Monitor!NoCheck
      /\ healthReport' = (IF check.working THEN check.kind ELSE "failing")
      /\ UNCHANGED <<redis, clusterRows, known, lone, code, asked, worked>>
  BY DEF Monitor!EndCheck, Monitor!Servers, Monitor!Table, HealthInv, HealthShapes
<1>2. CheckOK(check) /\ check.kind \in {"health", "status"}
  BY <1>1 DEF HealthInv, HealthCheck
<1>3. Monitor!ReportsWorked'
  BY <1>1, <1>2, NoCheckFacts DEF CheckOK, Monitor!ReportsWorked
<1>. QED
  BY <1>1, <1>2, <1>3, NoCheckFacts DEF HealthInv, HealthShapes, KnowsOthers

(* The servers and the tables change, whatever a check is doing.            *)
LEMMA ServersStep ==
  ASSUME HealthInv, \/ Monitor!Outage \/ Monitor!Recovery
                    \/ \E c \in HealthClusters : Monitor!DeleteRow(c) \/ Monitor!Refresh(c)
  PROVE  HealthInv' /\ code' = code
<1>1. UNCHANGED <<code, check, healthReport, asked>>
  BY DEF Monitor!Outage, Monitor!Recovery, Monitor!DeleteRow, Monitor!Refresh, Monitor!Checking
<1>2. CASE Monitor!Outage
  <2>1. /\ UNCHANGED <<clusterRows, known, lone, worked>>
        /\ database' => database
        /\ redis' \in [HealthClusters -> BOOLEAN]
        /\ \A c \in HealthClusters : redis'[c] => redis[c]
    <3>1. /\ UNCHANGED <<clusterRows, known, lone, worked>>
          /\ \/ database' = FALSE /\ redis' = redis
             \/ \E c \in HealthClusters : redis' = [redis EXCEPT ![c] = FALSE] /\ database' = database
             \/ UNCHANGED <<database, redis>>
      BY <1>2 DEF Monitor!Outage, Monitor!Table
    <3>2. redis \in [HealthClusters -> BOOLEAN]
      BY DEF HealthInv, HealthShapes
    <3>3. CASE database' = FALSE /\ redis' = redis
      BY <3>1, <3>2, <3>3
    <3>4. ASSUME NEW c \in HealthClusters, redis' = [redis EXCEPT ![c] = FALSE], database' = database
          PROVE  /\ redis' \in [HealthClusters -> BOOLEAN]
                 /\ \A d \in HealthClusters : redis'[d] => redis[d]
      BY <3>2, <3>4
    <3>. QED
      BY <3>1, <3>2, <3>3, <3>4
  <2>2. WorkingNow' \subseteq WorkingNow
    BY <2>1 DEF WorkingNow, Monitor!Working, Monitor!AllPing
  <2>3. HealthShapes' /\ KnowsOthers'
    BY <1>1, <2>1 DEF HealthInv, HealthShapes, KnowsOthers
  <2>. QED
    BY <1>1, <2>1, <2>2, <2>3, QuietHealth
<1>3. CASE Monitor!Recovery
  <2>1. /\ UNCHANGED <<clusterRows, known, lone>> /\ worked' = worked \cup WorkingNow'
        /\ redis' \in [HealthClusters -> BOOLEAN]
    BY <1>3 DEF HealthInv, HealthShapes, Monitor!Recovery, Monitor!Table, Monitor!WorkedNow, WorkingNow
  <2>2. HealthShapes' /\ KnowsOthers'
    BY <1>1, <2>1 DEF HealthInv, HealthShapes, KnowsOthers
  <2>. QED
    BY <1>1, <2>1, <2>2, QuietHealth
<1>4. ASSUME NEW c \in HealthClusters, Monitor!DeleteRow(c) PROVE HealthInv'
  <2>1. UNCHANGED <<database, redis, known, lone, worked>> /\ clusterRows' \subseteq clusterRows
    BY <1>4 DEF Monitor!DeleteRow, Monitor!Servers
  <2>2. WorkingNow' = WorkingNow
    BY <2>1 DEF WorkingNow, Monitor!Working, Monitor!AllPing
  <2>3. HealthShapes' /\ KnowsOthers'
    BY <1>1, <2>1 DEF HealthInv, HealthShapes, KnowsOthers
  <2>. QED
    BY <1>1, <2>1, <2>2, <2>3, QuietHealth
<1>5. ASSUME NEW c \in HealthClusters, Monitor!Refresh(c) PROVE HealthInv'
  <2>1. /\ redis' = redis /\ clusterRows' = clusterRows /\ worked' = worked \cup WorkingNow'
        /\ known' = [known EXCEPT ![c] = clusterRows \ {c}]
        /\ lone' = [lone EXCEPT ![c] = (clusterRows \ {c} = {})]
    BY <1>5 DEF Monitor!Refresh, Monitor!WorkedNow, Monitor!Servers, WorkingNow
  <2>2. HealthShapes' /\ KnowsOthers'
    BY <1>1, <2>1 DEF HealthInv, HealthShapes, KnowsOthers
  <2>. QED
    BY <1>1, <2>1, <2>2, QuietHealth
<1>. QED
  BY <1>1, <1>2, <1>3, <1>4, <1>5

LEMMA HealthNext ==
  ASSUME HealthInv, [Next]_unionVars
  PROVE  /\ HealthInv'
         /\ \A c \in HealthClusters : code'[c] = 503 /\ code[c] # 503 => ~lone[c]
<1>1. ASSUME NEW c \in HealthClusters,
             \/ Monitor!Ping(c) \/ Monitor!HealthOf(c) \/ Monitor!StatusOf(c)
             \/ Monitor!DeleteRow(c) \/ Monitor!Refresh(c)
             \/ Monitor!StartCheck("health", c) \/ Monitor!StartCheck("status", c)
      PROVE  /\ HealthInv'
             /\ \A d \in HealthClusters : code'[d] = 503 /\ code[d] # 503 => ~lone[d]
  <2>1. CASE Monitor!Ping(c)
    BY <2>1, PingStep
  <2>2. CASE Monitor!HealthOf(c) \/ Monitor!StatusOf(c)
    BY <2>2, AskStep
  <2>3. CASE Monitor!DeleteRow(c) \/ Monitor!Refresh(c)
    BY <2>3, ServersStep
  <2>4. CASE Monitor!StartCheck("health", c) \/ Monitor!StartCheck("status", c)
    BY <2>4, StartCheckStep
  <2>. QED
    BY <1>1, <2>1, <2>2, <2>3, <2>4
<1>2. CASE Monitor!EndCheck \/ Monitor!Outage \/ Monitor!Recovery
  BY <1>2, EndCheckStep, ServersStep
<1>3. CASE UNCHANGED monitorVars
  <2>1. UNCHANGED <<database, redis, known, lone, clusterRows, code, check, healthReport, asked, worked>>
    BY <1>3 DEF monitorVars
  <2>2. WorkingNow' = WorkingNow /\ HealthShapes' /\ KnowsOthers'
    BY <2>1 DEF HealthInv, HealthShapes, KnowsOthers, WorkingNow, Monitor!Working, Monitor!AllPing
  <2>. QED
    BY <2>1, <2>2, QuietHealth
<1>. QED
  BY <1>1, <1>2, <1>3, StepOfHealth DEF Monitor!Next

LEMMA HealthHolds == Spec => []HealthInv
BY HealthInit, HealthNext, PTL DEF Spec

(* A health check that says the service works is about a cluster that       *)
(* worked at some moment of the check, and a status page without an error   *)
(* about clusters that all did, whatever the servers did meanwhile          *)
(* ('healthcheck' and 'status' of monitorviews.py).                         *)
THEOREM ChecksTellTheTruth == Spec => []ReportsWorked
<1>1. HealthInv => ReportsWorked
  BY DEF HealthInv, HealthShapes, KnowsOthers, ReportsWorked, Monitor!TypeOK
<1>. QED
  BY <1>1, HealthHolds, PTL

(* A ping answers 503 only in a cluster that met another row when it last   *)
(* refreshed the registry, which can take over ('ping' of monitorviews.py). *)
THEOREM OnlyClusterServes == Spec => LoneStaysInService
<1>1. HealthInv /\ [Next]_unionVars =>
        [\A c \in HealthClusters : code'[c] = 503 /\ code[c] # 503 => ~lone[c]]_(Monitor!vars)
  BY HealthNext
<1>. QED
  BY <1>1, HealthHolds, PTL DEF Spec, LoneStaysInService, Monitor!LoneStaysInService

-----------------------------------------------------------------------------
(***************************************************************************)
(* Tables found changed without Redis.  Unless the table was read while a   *)
(* change was under way, or has changed without a stamp, a row that the     *)
(* copy lacks is newer than the copy, and so is every save that is not      *)
(* committed yet.                                                          *)
(***************************************************************************)
LEMMA StepOfPoll ==
  ASSUME [Next]_unionVars
  PROVE  Poll!Next \/ UNCHANGED pollVars
BY DEF Next, unionVars

Change == [kind : {"none", "save", "rename", "delete"}, row : RowIds \cup {0}, modified : Nat]

PollShapes ==
  /\ now \in Nat /\ copied \in Nat /\ loading \in Nat /\ changes \in Nat /\ loads \in Nat
  /\ DOMAIN polledRows \subseteq RowIds /\ polledRows \in [DOMAIN polledRows -> Nat]
  /\ DOMAIN copy \subseteq RowIds /\ copy \in [DOMAIN copy -> Nat]
  /\ change \in [Admins -> Change]
  /\ \A u \in Admins : change[u].kind \in {"save", "rename"} => change[u].row \in RowIds
  /\ polledAltered \in BOOLEAN

PollBounds ==
  /\ copied <= now /\ loading <= now /\ changes <= MaxChanges /\ loads <= MaxLoads
  /\ \A u \in Admins : change[u].modified <= now
  /\ \A r \in DOMAIN polledRows : polledRows[r] <= now

LackingIsNewer ==
  ~crossed /\ ~polledAltered => \A r \in DOMAIN polledRows :
                 polledRows[r] > copied \/ (r \in DOMAIN copy /\ polledRows[r] = copy[r])

SavesAreNewer ==
  ~crossed => \A u \in Admins : change[u].kind = "save" => change[u].modified > copied

(* Any rows of the table have a newest one.                                *)
HasNewest(t, S) == \E r \in S : \A q \in S : t[q] <= t[r]
RowsHaveNewest(t) == \A S \in SUBSET DOMAIN t : S # {} => HasNewest(t, S)

PollInv ==
  PollShapes /\ PollBounds /\ LackingIsNewer /\ SavesAreNewer /\ RowsHaveNewest(polledRows)

LEMMA PollInit ==
  ASSUME Init PROVE PollInv
<1>1. Poll!Init
  BY DEF Init
<1>2. PICK S \in SUBSET RowIds : polledRows = [r \in S |-> 1]
  BY <1>1 DEF Poll!Init
<1>3. PollShapes /\ PollBounds
  <2>1. /\ copy = polledRows /\ copied = 2 /\ loading = 0 /\ now = 2 /\ changes = 0 /\ loads = 0
        /\ change = [u \in Admins |-> Poll!NoChange] /\ polledAltered = FALSE
    BY <1>1 DEF Poll!Init
  <2>2. /\ Poll!NoChange \in Change /\ Poll!NoChange.kind = "none" /\ Poll!NoChange.modified = 0
    BY DEF Poll!NoChange, Change
  <2>3. DOMAIN polledRows \subseteq RowIds /\ \A r \in DOMAIN polledRows : polledRows[r] = 1
    BY <1>2
  <2>4. PollShapes
    BY <1>2, <2>1, <2>2 DEF PollShapes
  <2>5. PollBounds
    BY <2>1, <2>2, <2>3, OperationsAssumption DEF PollBounds
  <2>. QED
    BY <2>4, <2>5
<1>4. LackingIsNewer /\ SavesAreNewer
  BY <1>1, <1>2 DEF Poll!Init, Poll!NoChange, LackingIsNewer, SavesAreNewer
<1>5. RowsHaveNewest(polledRows)
  BY <1>2 DEF RowsHaveNewest, HasNewest
<1>. QED
  BY <1>3, <1>4, <1>5 DEF PollInv

(* A table keeps a newest row when a row is written, and when one is lost.  *)
LEMMA NewestKept ==
  ASSUME NEW t, t \in [DOMAIN t -> Nat], RowsHaveNewest(t),
         NEW u, u \in [DOMAIN u -> Nat], NEW r,
         \A q \in DOMAIN u \ {r} : q \in DOMAIN t /\ u[q] = t[q]
  PROVE  RowsHaveNewest(u)
<1> SUFFICES ASSUME NEW S \in SUBSET DOMAIN u, S # {} PROVE HasNewest(u, S)
  BY DEF RowsHaveNewest
<1>1. CASE S \ {r} = {}
  <2>1. r \in S /\ \A q \in S : q = r
    BY <1>1
  <2>2. u[r] \in Nat
    BY <2>1
  <2>. QED
    BY <2>1, <2>2 DEF HasNewest
<1>2. CASE S \ {r} # {}
  <2>1. S \ {r} \in SUBSET DOMAIN t
    OBVIOUS
  <2>2. PICK m \in S \ {r} : \A q \in S \ {r} : t[q] <= t[m]
    BY <1>2, <2>1 DEF RowsHaveNewest, HasNewest
  <2>3. \A q \in S \ {r} : u[q] <= u[m]
    BY <2>2
  <2>4. u[m] \in Nat /\ (r \in S => u[r] \in Nat)
    OBVIOUS
  <2>5. CASE r \in S /\ u[r] > u[m]
    <3>1. \A q \in S : u[q] \in Nat
      OBVIOUS
    <3>2. \A q \in S : u[q] <= u[r]
      BY <2>3, <2>4, <2>5, <3>1
    <3>. QED
      BY <2>5, <3>2 DEF HasNewest
  <2>6. CASE ~(r \in S /\ u[r] > u[m])
    <3>1. \A q \in S : u[q] <= u[m]
      BY <2>3, <2>4, <2>6
    <3>. QED
      BY <3>1 DEF HasNewest
  <2>. QED
    BY <2>5, <2>6
<1>. QED
  BY <1>1, <1>2

LEMMA CommitStep ==
  ASSUME PollInv, NEW u \in Admins, Poll!Commit(u)
  PROVE  PollInv'
<1> DEFINE done == change[u]
<1>1. /\ done \in Change /\ (done.kind \in {"save", "rename"} => done.row \in RowIds)
      /\ done.modified <= now
      /\ change' = [change EXCEPT ![u] = Poll!NoChange]
      /\ UNCHANGED <<copy, copied, loading, now, changes, loads, crossed>>
      /\ polledAltered' = (polledAltered \/ done.kind = "rename")
      /\ polledRows' = IF done.kind \in {"save", "rename"}
                         THEN [r \in DOMAIN polledRows \cup {done.row} |->
                                 IF r = done.row THEN done.modified ELSE polledRows[r]]
                         ELSE [r \in DOMAIN polledRows \ {done.row} |-> polledRows[r]]
  BY DEF PollInv, PollShapes, PollBounds, Poll!Commit
<1>2. Poll!NoChange \in Change /\ Poll!NoChange.kind = "none" /\ Poll!NoChange.modified = 0
  BY DEF Poll!NoChange, Change
<1>3. done.row \in RowIds \cup {0} /\ done.modified \in Nat
  BY <1>1 DEF Change
<1> HIDE DEF done
<1>4. /\ DOMAIN polledRows' \subseteq RowIds /\ polledRows' \in [DOMAIN polledRows' -> Nat]
      /\ \A q \in DOMAIN polledRows' \ {done.row} :
            q \in DOMAIN polledRows /\ polledRows'[q] = polledRows[q]
      /\ done.row \in DOMAIN polledRows' =>
            done.kind \in {"save", "rename"} /\ polledRows'[done.row] = done.modified
  <2>1. CASE done.kind \in {"save", "rename"}
    BY <1>1, <1>3, <2>1 DEF PollInv, PollShapes
  <2>2. CASE done.kind \notin {"save", "rename"}
    BY <1>1, <1>3, <2>2 DEF PollInv, PollShapes
  <2>. QED
    BY <2>1, <2>2
<1>5. \A v \in Admins : change'[v] = change[v] \/ change'[v] = Poll!NoChange
  BY <1>1 DEF PollInv, PollShapes
<1>6. PollShapes'
  <2>1. change' \in [Admins -> Change]
    BY <1>1, <1>2 DEF PollInv, PollShapes
  <2>. QED
    BY <1>1, <1>2, <1>4, <1>5, <2>1 DEF PollInv, PollShapes
<1>7. PollBounds' /\ SavesAreNewer'
  <2>1. \A q \in DOMAIN polledRows' : polledRows'[q] <= now
    BY <1>1, <1>4 DEF PollInv, PollBounds
  <2>. QED
    BY <1>1, <1>2, <1>5, <2>1 DEF PollInv, PollShapes, PollBounds, SavesAreNewer
<1>8. LackingIsNewer'
  <2>1. ~crossed /\ done.kind = "save" => done.modified > copied
    BY DEF PollInv, SavesAreNewer, done
  <2>2. ~polledAltered' => ~polledAltered /\ done.kind # "rename"
    BY <1>1 DEF PollInv, PollShapes
  <2>. QED
    BY <1>1, <1>4, <2>1, <2>2 DEF PollInv, LackingIsNewer
<1>9. RowsHaveNewest(polledRows)'
  BY <1>4, NewestKept DEF PollInv, PollShapes
<1>. QED
  BY <1>6, <1>7, <1>8, <1>9 DEF PollInv

LEMMA ChangeStep ==
  ASSUME PollInv, NEW u \in Admins, NEW r \in RowIds, Poll!Save(u, r) \/ Poll!Rename(u, r) \/ Poll!Delete(u, r)
  PROVE  PollInv'
<1>1. PICK new \in Change :
        /\ change' = [change EXCEPT ![u] = new] /\ new.row \in RowIds
        /\ new.modified <= now' /\ (new.kind = "save" => new.modified > now)
        /\ now' \in {now, now + 1} /\ changes' = changes + 1 /\ changes < MaxChanges
        /\ UNCHANGED <<polledRows, copy, copied, polledAltered, loading, loads, crossed>>
  <2>0. now \in Nat
    BY DEF PollInv, PollShapes
  <2>1. CASE Poll!Save(u, r)
    <3> DEFINE new == [kind |-> "save", row |-> r, modified |-> now + 1]
    <3>1. new \in Change /\ new.row = r /\ new.modified = now + 1
      BY <2>0 DEF Change
    <3>2. /\ now' = now + 1 /\ change' = [change EXCEPT ![u] = new]
          /\ changes' = changes + 1 /\ changes < MaxChanges
          /\ UNCHANGED <<polledRows, copy, copied, polledAltered, loading, loads, crossed>>
      BY <2>1 DEF Poll!Save
    <3> HIDE DEF new
    <3>3. new.modified <= now' /\ new.modified > now
      BY <2>0, <3>1, <3>2
    <3>. QED
      BY <3>1, <3>2, <3>3
  <2>2. CASE Poll!Delete(u, r)
    <3> DEFINE new == [Poll!NoChange EXCEPT !.kind = "delete", !.row = r]
    <3>1. /\ new \in Change /\ new.row = r /\ new.modified = 0 /\ new.kind = "delete"
      BY DEF Poll!NoChange, Change
    <3>2. /\ now' = now /\ change' = [change EXCEPT ![u] = new]
          /\ changes' = changes + 1 /\ changes < MaxChanges
          /\ UNCHANGED <<polledRows, copy, copied, polledAltered, loading, loads, crossed>>
      BY <2>2 DEF Poll!Delete
    <3> HIDE DEF new
    <3>3. new.modified <= now'
      BY <2>0, <3>1, <3>2
    <3>. QED
      BY <3>1, <3>2, <3>3
  <2>3. CASE Poll!Rename(u, r)
    <3> DEFINE new == [kind |-> "rename", row |-> r, modified |-> polledRows[r]]
    <3>1. polledRows[r] \in Nat /\ polledRows[r] <= now
      BY <2>3 DEF Poll!Rename, PollInv, PollShapes, PollBounds
    <3>2. new \in Change /\ new.row = r /\ new.modified = polledRows[r] /\ new.kind = "rename"
      BY <3>1 DEF Change
    <3>3. /\ now' = now /\ change' = [change EXCEPT ![u] = new]
          /\ changes' = changes + 1 /\ changes < MaxChanges
          /\ UNCHANGED <<polledRows, copy, copied, polledAltered, loading, loads, crossed>>
      BY <2>3 DEF Poll!Rename
    <3> HIDE DEF new
    <3>. QED
      BY <3>1, <3>2, <3>3
  <2>. QED
    BY <2>1, <2>2, <2>3
<1>2. \A v \in Admins : change'[v] = IF v = u THEN new ELSE change[v]
  BY <1>1 DEF PollInv, PollShapes
<1>3. PollShapes'
  <2>1. change' \in [Admins -> Change]
    BY <1>1 DEF PollInv, PollShapes
  <2>. QED
    BY <1>1, <1>2, <2>1 DEF PollInv, PollShapes
<1>4. now \in Nat /\ now' \in Nat /\ now <= now' /\ copied \in Nat /\ new.modified \in Nat
      /\ changes \in Nat /\ loading \in Nat /\ MaxChanges \in Nat
  BY <1>1, OperationsAssumption DEF PollInv, PollShapes, Change
<1>5. /\ \A v \in Admins : change[v].modified \in Nat
      /\ \A q \in DOMAIN polledRows : polledRows[q] \in Nat
  BY DEF PollInv, PollShapes, Change
<1>6. PollBounds'
  BY <1>1, <1>2, <1>4, <1>5 DEF PollInv, PollBounds
<1>7. SavesAreNewer' /\ LackingIsNewer'
  BY <1>1, <1>2, <1>4 DEF PollInv, PollBounds, SavesAreNewer, LackingIsNewer
<1>. QED
  BY <1>1, <1>3, <1>6, <1>7 DEF PollInv

LEMMA LoadStep ==
  ASSUME PollInv, Poll!StartLoad \/ Poll!Load \/ Poll!DeleteProvider
  PROVE  PollInv'
<1>1. CASE Poll!StartLoad
  BY <1>1, OperationsAssumption
     DEF Poll!StartLoad, PollInv, PollShapes, PollBounds, LackingIsNewer, SavesAreNewer, Change
<1>2. CASE Poll!Load
  <2>1. /\ copy' = polledRows /\ copied' = loading /\ loading' = 0
        /\ crossed' = (Poll!Pending # {}) /\ polledAltered' = FALSE
        /\ UNCHANGED <<polledRows, change, now, changes, loads>>
    BY <1>2 DEF Poll!Load
  <2>2. PollShapes' /\ PollBounds'
    <3>1. PollShapes'
      BY <2>1 DEF PollInv, PollShapes
    <3>2. PollBounds'
      BY <2>1 DEF PollInv, PollShapes, PollBounds
    <3>. QED
      BY <3>1, <3>2
  <2>3. ~crossed' => \A u \in Admins : change[u] = Poll!NoChange
    BY <2>1 DEF Poll!Pending
  <2>4. LackingIsNewer' /\ SavesAreNewer'
    BY <2>1, <2>3 DEF Poll!NoChange, LackingIsNewer, SavesAreNewer
  <2>. QED
    BY <2>1, <2>2, <2>4 DEF PollInv
<1>3. CASE Poll!DeleteProvider
  <2>1. /\ changes' = changes + 1 /\ changes < MaxChanges /\ polledAltered' = TRUE
        /\ UNCHANGED <<polledRows, change, copy, copied, loading, now, loads, crossed>>
    BY <1>3 DEF Poll!DeleteProvider
  <2>2. PollShapes'
    BY <2>1 DEF PollInv, PollShapes
  <2>3. PollBounds'
    BY <2>1, OperationsAssumption DEF PollInv, PollShapes, PollBounds
  <2>. QED
    BY <2>1, <2>2, <2>3 DEF PollInv, LackingIsNewer, SavesAreNewer, RowsHaveNewest, HasNewest
<1>. QED
  BY <1>1, <1>2, <1>3

LEMMA PollNext ==
  ASSUME PollInv, [Next]_unionVars PROVE PollInv'
<1>1. CASE UNCHANGED pollVars
  BY <1>1 DEF pollVars, PollInv, PollShapes, PollBounds, LackingIsNewer, SavesAreNewer,
     RowsHaveNewest, HasNewest
<1>. QED
  BY <1>1, StepOfPoll, CommitStep, ChangeStep, LoadStep DEF Poll!Next

LEMMA PollFinds ==
  ASSUME PollInv
  PROVE  Poll!PollFindsChange /\ Poll!StatusAgrees /\ Poll!TypeOK
<1>1. /\ IsFiniteSet(DOMAIN copy) /\ IsFiniteSet(DOMAIN polledRows)
      /\ Cardinality(DOMAIN copy) \in Nat /\ Cardinality(DOMAIN polledRows) \in Nat
  BY OperationsAssumption, FS_Subset, FS_CardinalityType DEF PollInv, PollShapes
<1>2. Poll!IsChanged <=> \/ \E r \in DOMAIN polledRows : polledRows[r] > copied
                         \/ Cardinality(DOMAIN polledRows) # Cardinality(DOMAIN copy)
  BY SameCardinality DEF Poll!IsChanged, Poll!GetCacheTime, Poll!GetCacheSize
<1>3. Poll!PollFindsChange
  <2> SUFFICES ASSUME ~crossed, ~polledAltered, ~Poll!IsChanged PROVE copy = polledRows
    BY DEF Poll!PollFindsChange
  <2>1. \A r \in DOMAIN polledRows : r \in DOMAIN copy /\ polledRows[r] = copy[r]
    BY <1>2 DEF PollInv, PollShapes, LackingIsNewer
  <2>2. DOMAIN polledRows = DOMAIN copy
    BY <1>1, <1>2, <2>1, FS_Subset
  <2>. QED
    BY <2>1, <2>2 DEF PollInv, PollShapes
<1>4. Poll!StatusAgrees
  <2>1. CASE Cardinality(DOMAIN polledRows) # Cardinality(DOMAIN copy)
    BY <1>2, <2>1, SameCardinality DEF Poll!StatusAgrees, Poll!Status, Poll!GetCacheSize
  <2>2. CASE Cardinality(DOMAIN polledRows) = Cardinality(DOMAIN copy) /\ DOMAIN polledRows = {}
    BY <1>2, <2>2, SameCardinality DEF Poll!StatusAgrees, Poll!Status, Poll!GetCacheSize
  <2>3. CASE Cardinality(DOMAIN polledRows) = Cardinality(DOMAIN copy) /\ DOMAIN polledRows # {}
    <3> DEFINE newest == CHOOSE r \in DOMAIN polledRows :
                           \A q \in DOMAIN polledRows : polledRows[q] <= polledRows[r]
    <3>1. HasNewest(polledRows, DOMAIN polledRows)
      BY <2>3 DEF PollInv, RowsHaveNewest
    <3>2. /\ newest \in DOMAIN polledRows
          /\ \A q \in DOMAIN polledRows : polledRows[q] <= polledRows[newest]
      BY <3>1 DEF HasNewest
    <3>3. Poll!Status = IF polledRows[newest] > copied THEN "OUTDATED" ELSE "UP_TO_DATE"
      BY <2>3, SameCardinality DEF Poll!Status, Poll!GetCacheSize, Poll!GetCacheTime
    <3> HIDE DEF newest
    <3>4. (\E r \in DOMAIN polledRows : polledRows[r] > copied) <=> polledRows[newest] > copied
      <4>1. copied \in Nat /\ \A q \in DOMAIN polledRows : polledRows[q] \in Nat
        BY DEF PollInv, PollShapes
      <4>. QED
        BY <3>2, <4>1
    <3>5. Poll!IsChanged <=> polledRows[newest] > copied
      BY <1>2, <2>3, <3>4
    <3>. QED
      BY <3>3, <3>5 DEF Poll!StatusAgrees, Poll!IsChanged
  <2>. QED
    BY <2>1, <2>2, <2>3
<1>5. Poll!TypeOK
  BY DEF PollInv, PollShapes, PollBounds, Poll!TypeOK
<1>. QED
  BY <1>3, <1>4, <1>5

LEMMA PollHolds == Spec => []PollInv
BY PollInit, PollNext, PTL DEF Spec

-----------------------------------------------------------------------------
(***************************************************************************)
(* Clusters that tell each other of changes.  A cluster that an edit under  *)
(* way has told is announced a change it has not loaded, or loaded during   *)
(* an edit; one that lacks the table is told, or missed or early; and what  *)
(* one that is not early lacks was modified after it loaded.               *)
(***************************************************************************)
LEMMA StepOfRegistry ==
  ASSUME [Next]_unionVars
  PROVE  Registry!Next \/ UNCHANGED registryVars
BY DEF Next, unionVars

Tables == UNION {[S -> Nat] : S \in SUBSET Rows}

AllTasks == [pc : {"idle", "announce", "send"}, kind : {"sync", "save", "rename", "delete"},
             row : Rows \cup {0}, modified : Nat, size : Nat,
             asked : SUBSET Clusters, told : SUBSET Clusters]

Tasks == {x \in AllTasks : /\ x.size <= Cardinality(Clusters)
                           /\ x.pc = "announce" => x.told = {}
                           /\ x.kind # "sync" => x.row \in Rows}

RegistryShapes ==
  /\ up \subseteq Clusters /\ registered \subseteq Clusters
  /\ registry \in [Clusters -> SUBSET Clusters]
  /\ \A c \in Clusters : c \notin registry[c]
  /\ announced \in [Clusters -> Nat] /\ loadTime \in [Clusters -> Nat] /\ clock \in Nat
  /\ \A c \in Clusters : announced[c] <= clock /\ loadTime[c] <= clock
  /\ table \in Tables /\ loaded \in [Clusters -> Tables]
  /\ task \in [Clusters -> Tasks] /\ altered \subseteq Clusters

ToldOrEarly ==
  \A c \in Clusters : Registry!Editing(c) =>
    \A o \in task[c].told : announced[o] > loadTime[o] \/ o \in early

LackingIsExcused ==
  \A c \in Clusters : loaded[c] # table \/ c \in altered =>
    announced[c] > loadTime[c] \/ c \in missed \cup early

EditsAreNewer ==
  \A c, o \in Clusters : Registry!Editing(c) =>
    task[c].kind = "rename" \/ task[c].modified > loadTime[o] \/ o \in early

LackedIsNewer ==
  \A c \in Clusters : \A r \in DOMAIN table :
    \/ table[r] > loadTime[c] \/ c \in early \cup altered
    \/ r \in DOMAIN loaded[c] /\ loaded[c][r] = table[r]

RegistryInv ==
  /\ RegistryShapes /\ RowsHaveNewest(table)
  /\ ToldOrEarly /\ LackingIsExcused /\ EditsAreNewer /\ LackedIsNewer

LEMMA TableFacts ==
  ASSUME NEW t
  PROVE  t \in Tables <=> DOMAIN t \subseteq Rows /\ t \in [DOMAIN t -> Nat]
BY DEF Tables

LEMMA IdleFacts ==
  /\ Registry!Idle \in Tasks /\ Registry!Idle.pc = "idle" /\ Registry!Idle.kind = "sync"
  /\ Registry!Idle.told = {}
<1>1. Cardinality(Clusters) \in Nat
  BY OperationsAssumption, FS_CardinalityType
<1>. QED
  BY <1>1 DEF Registry!Idle, Tasks, AllTasks

LEMMA NewestFacts ==
  ASSUME NEW t \in Tables, RowsHaveNewest(t)
  PROVE  /\ Registry!Newest(t) \in Nat
         /\ \A r \in DOMAIN t : t[r] <= Registry!Newest(t)
<1>1. CASE DOMAIN t = {}
  BY <1>1 DEF Registry!Newest
<1>2. CASE DOMAIN t # {}
  <2>1. PICK r \in DOMAIN t : \A q \in DOMAIN t : t[q] <= t[r]
    BY <1>2 DEF RowsHaveNewest, HasNewest
  <2>2. \E m \in {t[q] : q \in DOMAIN t} : \A q \in DOMAIN t : t[q] <= m
    BY <2>1
  <2>3. /\ Registry!Newest(t) \in {t[q] : q \in DOMAIN t}
        /\ \A q \in DOMAIN t : t[q] <= Registry!Newest(t)
    BY <1>2, <2>2 DEF Registry!Newest
  <2>4. \A q \in DOMAIN t : t[q] \in Nat
    BY TableFacts
  <2>. QED
    BY <2>3, <2>4
<1>. QED
  BY <1>1, <1>2

LEMMA RegistryInit ==
  ASSUME Init PROVE RegistryInv
<1>1. Registry!Init
  BY DEF Init
<1>2. PICK S \in InitialRows : table = [r \in S |-> 1]
  BY <1>1 DEF Registry!Init
<1>3. PICK t \in {0, 2} : announced = [c \in Clusters |-> t]
  BY <1>1 DEF Registry!Init
<1>4. /\ up = Clusters /\ registered = Clusters /\ clock = 3
      /\ registry = [c \in Clusters |-> Clusters \ {c}]
      /\ loaded = [c \in Clusters |-> table] /\ loadTime = [c \in Clusters |-> 3] /\ altered = {}
      /\ task = [c \in Clusters |-> Registry!Idle]
  BY <1>1 DEF Registry!Init
<1>5. table \in Tables
  BY <1>2, OperationsAssumption, TableFacts
<1>6. RegistryShapes
  BY <1>3, <1>4, <1>5, IdleFacts DEF RegistryShapes
<1>7. RowsHaveNewest(table)
  BY <1>2 DEF RowsHaveNewest, HasNewest
<1>. QED
  BY <1>4, <1>6, <1>7, IdleFacts
     DEF RegistryInv, ToldOrEarly, LackingIsExcused, EditsAreNewer, LackedIsNewer, Registry!Editing

(* What is told and announced grows, and a new edit has told nobody.        *)
LEMMA TellingStep ==
  ASSUME RegistryInv, RegistryShapes',
         UNCHANGED <<table, loaded, loadTime, altered, missed, early>>,
         \A c \in Clusters : announced'[c] >= announced[c],
         \A c \in Clusters : Registry!Editing(c)' =>
           \/ /\ Registry!Editing(c) /\ task'[c].modified = task[c].modified
              /\ task'[c].kind = task[c].kind
              /\ \A o \in task'[c].told : o \in task[c].told \/ announced'[o] > loadTime[o]
           \/ /\ task'[c].kind = "rename" \/ task'[c].modified > clock
              /\ task'[c].told = {}
  PROVE  RegistryInv'
<1>1. \A c \in Clusters : /\ announced[c] \in Nat /\ announced'[c] \in Nat /\ loadTime[c] \in Nat
                          /\ loadTime[c] <= clock /\ clock \in Nat
                          /\ task'[c].told \subseteq Clusters /\ task'[c].modified \in Nat
  BY DEF RegistryInv, RegistryShapes, Tasks, AllTasks
<1>2. ToldOrEarly'
  BY <1>1 DEF RegistryInv, ToldOrEarly
<1>3. LackingIsExcused'
  BY <1>1 DEF RegistryInv, LackingIsExcused
<1>4. EditsAreNewer'
  BY <1>1 DEF RegistryInv, EditsAreNewer
<1>. QED
  BY <1>2, <1>3, <1>4 DEF RegistryInv, LackedIsNewer

LEMMA RefreshedFacts ==
  ASSUME RegistryShapes, NEW c \in Clusters
  PROVE  Registry!Refreshed(c) \subseteq Clusters \ {c}
BY DEF RegistryShapes, Registry!Refreshed

LEMMA RegistrationStep ==
  ASSUME RegistryInv, NEW c \in Clusters, NEW o \in Clusters,
         Registry!Refresh(c) \/ Registry!Heartbeat(c) \/ Registry!Unregister(c, o)
  PROVE  RegistryInv'
<1>1. /\ UNCHANGED <<up, table, announced, loaded, loadTime, altered, task, clock, missed, early>>
      /\ registered' \subseteq registered \cup {c}
      /\ registry' = registry \/ registry' = [registry EXCEPT ![c] = Registry!Refreshed(c)]
  BY DEF Registry!Refresh, Registry!Heartbeat, Registry!Unregister, Registry!cacheVars,
     Registry!counts, Registry!history
<1>2. RegistryShapes'
  BY <1>1, RefreshedFacts DEF RegistryInv, RegistryShapes
<1>3. \A d \in Clusters : announced'[d] >= announced[d]
  BY <1>1 DEF RegistryInv, RegistryShapes
<1>. QED
  BY <1>1, <1>2, <1>3, TellingStep DEF Registry!Editing

(* One task changes; the others are as they were.                          *)
LEMMA TaskStep ==
  ASSUME RegistryInv, NEW c \in Clusters, NEW x \in Tasks, task' = [task EXCEPT ![c] = x]
  PROVE  /\ task' \in [Clusters -> Tasks] /\ task'[c] = x
         /\ \A d \in Clusters \ {c} : task'[d] = task[d]
BY DEF RegistryInv, RegistryShapes

LEMMA BeginEditStep ==
  ASSUME RegistryInv, NEW c \in Clusters, NEW kind \in {"save", "rename", "delete"}, NEW r \in Rows,
         Registry!BeginEdit(c, kind, r)
  PROVE  RegistryInv'
<1> DEFINE stamp == IF kind = "rename" THEN table[r] ELSE clock + 1
           x == [Registry!Idle EXCEPT !.pc = "announce", !.kind = kind, !.row = r,
                                      !.modified = stamp]
<1>1. clock \in Nat /\ Cardinality(Clusters) \in Nat
  BY OperationsAssumption, FS_CardinalityType DEF RegistryInv, RegistryShapes
<1>2. x \in Tasks /\ (x.kind = "rename" \/ x.modified = clock + 1) /\ x.told = {}
  <2>1. stamp \in Nat /\ (kind = "rename" \/ stamp = clock + 1)
    <3>1. kind = "rename" => table[r] \in Nat
      BY TableFacts DEF RegistryInv, RegistryShapes, Registry!BeginEdit
    <3>. QED
      BY <1>1, <3>1
  <2> HIDE DEF stamp
  <2>2. Registry!Idle \in AllTasks
    BY DEF Registry!Idle, AllTasks
  <2>3. x \in AllTasks
    BY <2>1, <2>2 DEF AllTasks
  <2>4. x.modified = stamp /\ x.kind = kind /\ x.told = {} /\ x.row = r /\ x.size = 0
    BY <2>2 DEF Registry!Idle, AllTasks
  <2> HIDE DEF x
  <2>. QED
    BY <1>1, <2>1, <2>3, <2>4 DEF Tasks
<1>3. /\ clock' = clock + 1 /\ task' = [task EXCEPT ![c] = x]
      /\ UNCHANGED <<up, registered, registry, table, announced, loaded, loadTime, altered, missed, early>>
  BY DEF Registry!BeginEdit, Registry!Stamp, Registry!Tick, Registry!cacheVars, Registry!history
<1> HIDE DEF x, stamp
<1>4. /\ task' \in [Clusters -> Tasks] /\ task'[c] = x
      /\ \A d \in Clusters \ {c} : task'[d] = task[d]
  BY <1>2, <1>3, TaskStep
<1>5. RegistryShapes' /\ \A d \in Clusters : announced'[d] >= announced[d]
  BY <1>1, <1>3, <1>4 DEF RegistryInv, RegistryShapes
<1>6. task'[c].kind = "rename" \/ task'[c].modified > clock
  BY <1>1, <1>2, <1>4
<1>. QED
  BY <1>2, <1>3, <1>4, <1>5, <1>6, TellingStep DEF Registry!Editing

(* The announcement in the own cluster, and the start of the others'.       *)
LEMMA AnnounceStep ==
  ASSUME RegistryInv, NEW c \in Clusters,
         Registry!Announce(c) \/ Registry!AnnounceFails(c) \/ Registry!Sync(c)
  PROVE  RegistryInv'
<1> DEFINE size == Cardinality(Registry!Refreshed(c))
<1>1. clock \in Nat /\ announced \in [Clusters -> Nat] /\ loadTime \in [Clusters -> Nat]
      /\ registry \in [Clusters -> SUBSET Clusters] /\ task[c] \in Tasks
      /\ \A d \in Clusters : announced[d] <= clock /\ loadTime[d] <= clock
  BY DEF RegistryInv, RegistryShapes
<1>2. size \in Nat /\ size <= Cardinality(Clusters) /\ Cardinality(Clusters) \in Nat
  <2>1. Registry!Refreshed(c) \subseteq Clusters
    BY RefreshedFacts DEF RegistryInv
  <2>2. IsFiniteSet(Clusters)
    BY OperationsAssumption
  <2>. QED
    BY <2>1, <2>2, FS_Subset, FS_CardinalityType
<1>3. /\ registry' = [registry EXCEPT ![c] = Registry!Refreshed(c)]
      /\ UNCHANGED <<up, registered, table, loaded, loadTime, altered, missed, early>>
      /\ \/ clock' = clock + 1 /\ announced' = [announced EXCEPT ![c] = clock + 1]
         \/ UNCHANGED <<clock, announced>>
  BY DEF Registry!Announce, Registry!AnnounceFails, Registry!Sync, Registry!BeginSend,
     Registry!Tick, Registry!cacheVars, Registry!history
<1>4. Registry!Cardinality(registry'[c]) = size
  BY <1>1, <1>3, SameCardinality
<1> HIDE DEF size
<1>5. PICK x \in Tasks :
        /\ task' = [task EXCEPT ![c] = x]
        /\ \/ x.kind = "sync"
           \/ /\ x.kind = task[c].kind /\ x.modified = task[c].modified /\ task[c].pc # "idle"
              /\ \/ x.told = {}
                 \/ x.told = {c} /\ announced' = [announced EXCEPT ![c] = clock + 1]
  <2>1. CASE Registry!Announce(c)
    <3> DEFINE x == [[task[c] EXCEPT !.told = {c}] EXCEPT !.pc = "send", !.size = size]
    <3>1. /\ x \in AllTasks /\ x.pc = "send" /\ x.size = size /\ x.told = {c}
          /\ x.kind = task[c].kind /\ x.modified = task[c].modified /\ x.row = task[c].row
      BY <1>1, <1>2 DEF Tasks, AllTasks
    <3>2. task' = [task EXCEPT ![c] = x]
      BY <1>4, <2>1 DEF Registry!Announce, Registry!BeginSend
    <3> HIDE DEF x
    <3>3. x \in Tasks
      BY <1>1, <1>2, <3>1 DEF Tasks
    <3>4. task[c].pc # "idle" /\ announced' = [announced EXCEPT ![c] = clock + 1]
      BY <2>1 DEF Registry!Announce, Registry!Tick, Registry!At
    <3>. QED
      BY <3>1, <3>2, <3>3, <3>4
  <2>2. CASE Registry!AnnounceFails(c)
    <3> DEFINE x == [task[c] EXCEPT !.pc = "send", !.size = size]
    <3>1. /\ x \in AllTasks /\ x.pc = "send" /\ x.size = size /\ x.told = task[c].told
          /\ x.kind = task[c].kind /\ x.modified = task[c].modified /\ x.row = task[c].row
      BY <1>1, <1>2 DEF Tasks, AllTasks
    <3>2. task' = [task EXCEPT ![c] = x] /\ task[c].pc = "announce"
      BY <1>4, <2>2 DEF Registry!AnnounceFails, Registry!BeginSend, Registry!At
    <3> HIDE DEF x
    <3>3. x \in Tasks /\ task[c].told = {}
      BY <1>1, <1>2, <3>1, <3>2 DEF Tasks
    <3>. QED
      BY <3>1, <3>2, <3>3
  <2>3. CASE Registry!Sync(c)
    <3> DEFINE newest == Registry!Newest(table)
               x == [[Registry!Idle EXCEPT !.modified = newest, !.told = {c}]
                       EXCEPT !.pc = "send", !.size = size]
    <3>1. newest \in Nat
      BY NewestFacts DEF RegistryInv, RegistryShapes
    <3>2. task' = [task EXCEPT ![c] = x]
      BY <1>4, <2>3 DEF Registry!Sync, Registry!BeginSend
    <3> HIDE DEF newest
    <3>3. x \in AllTasks /\ x.kind = "sync" /\ x.size = size /\ x.pc = "send"
      BY <1>2, <3>1 DEF Registry!Idle, AllTasks
    <3> HIDE DEF x
    <3>4. x \in Tasks
      BY <1>2, <3>3 DEF Tasks
    <3>. QED
      BY <3>2, <3>3, <3>4
  <2>. QED
    BY <2>1, <2>2, <2>3
<1>6. /\ task' \in [Clusters -> Tasks] /\ task'[c] = x
      /\ \A d \in Clusters \ {c} : task'[d] = task[d]
  BY <1>5, TaskStep
<1>7. RegistryShapes'
  <2>1. registry' \in [Clusters -> SUBSET Clusters] /\ \A d \in Clusters : d \notin registry'[d]
    BY <1>1, <1>3, RefreshedFacts DEF RegistryInv, RegistryShapes
  <2>2. /\ announced' \in [Clusters -> Nat] /\ clock' \in Nat
        /\ \A d \in Clusters : announced'[d] <= clock' /\ loadTime[d] <= clock'
    BY <1>1, <1>3
  <2>. QED
    BY <1>3, <1>6, <2>1, <2>2 DEF RegistryInv, RegistryShapes
<1>8. \A d \in Clusters : announced'[d] >= announced[d]
  BY <1>1, <1>3
<1>9. announced' = [announced EXCEPT ![c] = clock + 1] => announced'[c] > loadTime[c]
  BY <1>1
<1>10. \A d \in Clusters : Registry!Editing(d)' =>
         /\ Registry!Editing(d) /\ task'[d].modified = task[d].modified /\ task'[d].kind = task[d].kind
         /\ \A o \in task'[d].told : o \in task[d].told \/ announced'[o] > loadTime[o]
  <2>1. ASSUME NEW d \in Clusters \ {c}, Registry!Editing(d)'
        PROVE  /\ Registry!Editing(d) /\ task'[d].modified = task[d].modified /\ task'[d].kind = task[d].kind
               /\ \A o \in task'[d].told : o \in task[d].told \/ announced'[o] > loadTime[o]
    BY <1>6, <2>1 DEF Registry!Editing
  <2>2. ASSUME Registry!Editing(c)'
        PROVE  /\ Registry!Editing(c) /\ task'[c].modified = task[c].modified /\ task'[c].kind = task[c].kind
               /\ \A o \in task'[c].told : o \in task[c].told \/ announced'[o] > loadTime[o]
    BY <1>5, <1>6, <1>9, <2>2 DEF Registry!Editing
  <2>. QED
    BY <2>1, <2>2
<1>. QED
  BY <1>3, <1>7, <1>8, <1>10, TellingStep

(* Another cluster is told, or a call to it fails.                          *)
LEMMA SendStep ==
  ASSUME RegistryInv, NEW c \in Clusters, NEW o \in Clusters,
         Registry!Send(c, o) \/ Registry!SendFails(c, o)
  PROVE  RegistryInv'
<1>1. clock \in Nat /\ announced \in [Clusters -> Nat] /\ loadTime \in [Clusters -> Nat]
      /\ task[c] \in Tasks /\ task \in [Clusters -> Tasks]
      /\ \A d \in Clusters : announced[d] <= clock /\ loadTime[d] <= clock
  BY DEF RegistryInv, RegistryShapes
<1>2. /\ UNCHANGED <<up, registered, registry, table, loaded, loadTime, altered, missed, early>>
      /\ \/ clock' = clock + 1 /\ announced' = [announced EXCEPT ![o] = clock + 1]
         \/ UNCHANGED <<clock, announced>>
      /\ task[c].pc = "send"
  BY DEF Registry!Send, Registry!SendFails, Registry!Receive, Registry!CanSend, Registry!At,
     Registry!Tick, Registry!cacheVars, Registry!history
<1>3. Registry!Send(c, o) /\ task[c].kind # "sync" => announced' = [announced EXCEPT ![o] = clock + 1]
  BY DEF Registry!Send, Registry!Receive, Registry!Tick
<1>4. PICK x \in Tasks :
        /\ task' = [task EXCEPT ![c] = x]
        /\ x.kind = task[c].kind /\ x.modified = task[c].modified /\ x.pc = "send"
        /\ \/ x.told = task[c].told
           \/ x.told = task[c].told \cup {o} /\ Registry!Send(c, o)
  <2>1. CASE Registry!Send(c, o)
    <3> DEFINE x == [task[c] EXCEPT !.asked = @ \cup {o}, !.told = @ \cup {o}]
    <3>1. /\ x \in AllTasks /\ x.kind = task[c].kind /\ x.modified = task[c].modified
          /\ x.pc = task[c].pc /\ x.size = task[c].size /\ x.row = task[c].row
          /\ x.told = task[c].told \cup {o}
      BY <1>1 DEF Tasks, AllTasks
    <3>2. task' = [task EXCEPT ![c] = x]
      BY <1>1, <2>1 DEF Registry!Send
    <3> HIDE DEF x
    <3>3. x \in Tasks
      BY <1>1, <1>2, <3>1 DEF Tasks
    <3>. QED
      BY <1>2, <2>1, <3>1, <3>2, <3>3
  <2>2. CASE Registry!SendFails(c, o)
    <3> DEFINE x == [task[c] EXCEPT !.asked = @ \cup {o}]
    <3>1. /\ x \in AllTasks /\ x.kind = task[c].kind /\ x.modified = task[c].modified
          /\ x.pc = task[c].pc /\ x.size = task[c].size /\ x.row = task[c].row
          /\ x.told = task[c].told
      BY <1>1 DEF Tasks, AllTasks
    <3>2. task' = [task EXCEPT ![c] = x]
      BY <1>1, <2>2 DEF Registry!SendFails
    <3> HIDE DEF x
    <3>3. x \in Tasks
      BY <1>1, <1>2, <3>1 DEF Tasks
    <3>. QED
      BY <1>2, <2>2, <3>1, <3>2, <3>3
  <2>. QED
    BY <2>1, <2>2
<1>5. /\ task' \in [Clusters -> Tasks] /\ task'[c] = x
      /\ \A d \in Clusters \ {c} : task'[d] = task[d]
  BY <1>4, TaskStep
<1>6. RegistryShapes' /\ \A d \in Clusters : announced'[d] >= announced[d]
  BY <1>1, <1>2, <1>5 DEF RegistryInv, RegistryShapes
<1>7. announced' = [announced EXCEPT ![o] = clock + 1] => announced'[o] > loadTime[o]
  BY <1>1
<1>8. \A d \in Clusters : Registry!Editing(d)' =>
         /\ Registry!Editing(d) /\ task'[d].modified = task[d].modified /\ task'[d].kind = task[d].kind
         /\ \A e \in task'[d].told : e \in task[d].told \/ announced'[e] > loadTime[e]
  <2>1. ASSUME NEW d \in Clusters \ {c}, Registry!Editing(d)'
        PROVE  /\ Registry!Editing(d) /\ task'[d].modified = task[d].modified /\ task'[d].kind = task[d].kind
               /\ \A e \in task'[d].told : e \in task[d].told \/ announced'[e] > loadTime[e]
    BY <1>5, <2>1 DEF Registry!Editing
  <2>2. ASSUME Registry!Editing(c)'
        PROVE  /\ Registry!Editing(c) /\ task'[c].modified = task[c].modified /\ task'[c].kind = task[c].kind
               /\ \A e \in task'[c].told : e \in task[c].told \/ announced'[e] > loadTime[e]
    BY <1>2, <1>3, <1>4, <1>5, <1>7, <2>2 DEF Registry!Editing
  <2>. QED
    BY <2>1, <2>2
<1>. QED
  BY <1>2, <1>6, <1>8, TellingStep

(* The request ends without a change: an error, a stop, or nothing to do.   *)
LEMMA EndStep ==
  ASSUME RegistryInv, NEW c \in Clusters,
         \/ Registry!Disturbed(c) \/ Registry!Stop(c)
         \/ Registry!Finish(c) /\ ~Registry!Editing(c)
  PROVE  RegistryInv'
<1>1. /\ UNCHANGED <<registered, registry, table, announced, loaded, loadTime, altered, clock, missed, early>>
      /\ up' \subseteq up /\ task' = [task EXCEPT ![c] = Registry!Idle]
  BY DEF Registry!Disturbed, Registry!Stop, Registry!Finish, Registry!cacheVars, Registry!history
<1>2. /\ task' \in [Clusters -> Tasks] /\ task'[c] = Registry!Idle
      /\ \A d \in Clusters \ {c} : task'[d] = task[d]
  BY <1>1, IdleFacts, TaskStep
<1>3. RegistryShapes' /\ \A d \in Clusters : announced'[d] >= announced[d]
  BY <1>1, <1>2 DEF RegistryInv, RegistryShapes
<1>4. \A d \in Clusters : Registry!Editing(d)' =>
         Registry!Editing(d) /\ task'[d] = task[d]
  BY <1>2, IdleFacts DEF Registry!Editing
<1>. QED
  BY <1>1, <1>3, <1>4, TellingStep

(* The commit: the clusters it has not told have missed it.                 *)
LEMMA FinishStep ==
  ASSUME RegistryInv, NEW c \in Clusters, Registry!Finish(c), Registry!Editing(c)
  PROVE  RegistryInv'
<1> DEFINE done == task[c]
<1>1. /\ UNCHANGED <<up, registered, registry, announced, loaded, loadTime, clock, early>>
      /\ altered' = IF done.kind = "rename" THEN Clusters ELSE altered
      /\ task' = [task EXCEPT ![c] = Registry!Idle]
      /\ table' = Registry!Written(table, done.row, done.kind, done.modified)
      /\ missed' = missed \cup (Clusters \ done.told)
  BY DEF Registry!Finish, Registry!cacheVars
<1>2. done \in AllTasks /\ done.kind \in {"save", "rename", "delete"} /\ done.row \in Rows
      /\ done.modified \in Nat
  BY DEF RegistryInv, RegistryShapes, Tasks, AllTasks, Registry!Editing
<1>3. /\ \A o \in done.told : announced[o] > loadTime[o] \/ o \in early
      /\ \A o \in Clusters : done.kind = "rename" \/ done.modified > loadTime[o] \/ o \in early
  BY DEF RegistryInv, ToldOrEarly, EditsAreNewer
<1> HIDE DEF done
<1>4. /\ table \in [DOMAIN table -> Nat] /\ table' \in [DOMAIN table' -> Nat] /\ table' \in Tables
      /\ \A q \in DOMAIN table' \ {done.row} : q \in DOMAIN table /\ table'[q] = table[q]
      /\ done.row \in DOMAIN table' => table'[done.row] = done.modified
  <2>1. DOMAIN table \subseteq Rows /\ table \in [DOMAIN table -> Nat]
    BY TableFacts DEF RegistryInv, RegistryShapes
  <2>2. /\ DOMAIN table' \subseteq Rows /\ table' \in [DOMAIN table' -> Nat]
        /\ \A q \in DOMAIN table' \ {done.row} : q \in DOMAIN table /\ table'[q] = table[q]
        /\ done.row \in DOMAIN table' => table'[done.row] = done.modified
    <3>1. CASE done.kind \in {"save", "rename"}
      BY <1>1, <1>2, <2>1, <3>1 DEF Registry!Written
    <3>2. CASE done.kind = "delete"
      BY <1>1, <1>2, <2>1, <3>2 DEF Registry!Written
    <3>. QED
      BY <1>2, <3>1, <3>2
  <2>. QED
    BY <2>1, <2>2, TableFacts
<1>5. /\ task' \in [Clusters -> Tasks] /\ task'[c] = Registry!Idle
      /\ \A d \in Clusters \ {c} : task'[d] = task[d]
  BY <1>1, IdleFacts, TaskStep
<1>6. RegistryShapes'
  BY <1>1, <1>4, <1>5 DEF RegistryInv, RegistryShapes
<1>7. RowsHaveNewest(table)'
  BY <1>4, NewestKept DEF RegistryInv
<1>8. \A d \in Clusters : Registry!Editing(d)' => Registry!Editing(d) /\ task'[d] = task[d]
  BY <1>5, IdleFacts DEF Registry!Editing
<1>9. ToldOrEarly' /\ EditsAreNewer'
  BY <1>1, <1>8 DEF RegistryInv, ToldOrEarly, EditsAreNewer
<1>10. LackingIsExcused'
  BY <1>1, <1>3 DEF LackingIsExcused
<1>11. LackedIsNewer'
  BY <1>1, <1>3, <1>4 DEF RegistryInv, LackedIsNewer
<1>. QED
  BY <1>6, <1>7, <1>9, <1>10, <1>11 DEF RegistryInv

(* The table is read: early, if an edit is under way.                       *)
LEMMA ReadStep ==
  ASSUME RegistryInv, NEW c \in Clusters, Registry!Reload(c) \/ Registry!Start(c)
  PROVE  RegistryInv'
<1>1. /\ UNCHANGED <<table, announced, task>>
      /\ up' \subseteq up \cup {c} /\ registered' \subseteq registered \cup {c}
      /\ registry' = registry \/ registry' = [registry EXCEPT ![c] = registered \ {c}]
      /\ clock' = clock + 1 /\ loaded' = [loaded EXCEPT ![c] = table]
      /\ loadTime' = [loadTime EXCEPT ![c] = clock + 1] /\ missed' = missed \ {c}
      /\ altered' = altered \ {c}
      /\ IF \E d \in Clusters : Registry!Editing(d) THEN early' = early \cup {c}
                                                    ELSE early' = early \ {c}
  BY DEF Registry!Reload, Registry!Start, Registry!ReadTable, Registry!Tick
<1>2. RegistryShapes'
  BY <1>1 DEF RegistryInv, RegistryShapes
<1>3. \A d \in Clusters \ {c} : /\ loadTime'[d] = loadTime[d] /\ loaded'[d] = loaded[d]
                                /\ (d \in early' <=> d \in early)
                                /\ (d \in missed' <=> d \in missed)
                                /\ (d \in altered' <=> d \in altered)
  BY <1>1 DEF RegistryInv, RegistryShapes
<1>4. loaded'[c] = table /\ c \notin altered'
  BY <1>1 DEF RegistryInv, RegistryShapes
<1>5. \A d \in Clusters : Registry!Editing(d)' => Registry!Editing(d) /\ c \in early'
  BY <1>1 DEF Registry!Editing
<1>6. ToldOrEarly'
  <2>1. \A d \in Clusters : task[d].told \subseteq Clusters
    BY DEF RegistryInv, RegistryShapes, Tasks, AllTasks
  <2>. QED
    BY <1>1, <1>3, <1>5, <2>1 DEF RegistryInv, ToldOrEarly
<1>7. EditsAreNewer'
  BY <1>1, <1>3, <1>5 DEF RegistryInv, EditsAreNewer
<1>8. LackingIsExcused' /\ LackedIsNewer' /\ RowsHaveNewest(table)'
  BY <1>1, <1>3, <1>4 DEF RegistryInv, LackingIsExcused, LackedIsNewer, RowsHaveNewest, HasNewest
<1>. QED
  BY <1>2, <1>6, <1>7, <1>8 DEF RegistryInv

(* Rows change without a stamp, and nobody is told.                         *)
LEMMA ProviderStep ==
  ASSUME RegistryInv, NEW c \in Clusters, Registry!DeleteProvider(c)
  PROVE  RegistryInv'
<1>1. /\ UNCHANGED <<up, registered, registry, table, announced, loaded, loadTime, task, clock, early>>
      /\ altered' = Clusters /\ missed' = Clusters
  BY DEF Registry!DeleteProvider
<1>2. RegistryShapes' /\ RowsHaveNewest(table)'
  BY <1>1 DEF RegistryInv, RegistryShapes, RowsHaveNewest, HasNewest
<1>3. ToldOrEarly' /\ EditsAreNewer'
  BY <1>1 DEF RegistryInv, ToldOrEarly, EditsAreNewer, Registry!Editing
<1>4. LackingIsExcused' /\ LackedIsNewer'
  BY <1>1 DEF LackingIsExcused, LackedIsNewer
<1>. QED
  BY <1>2, <1>3, <1>4 DEF RegistryInv

LEMMA RegistryNext ==
  ASSUME RegistryInv, [Next]_unionVars PROVE RegistryInv'
<1>1. CASE UNCHANGED registryVars
  BY <1>1 DEF registryVars, RegistryInv, RegistryShapes, ToldOrEarly, LackingIsExcused,
     EditsAreNewer, LackedIsNewer, RowsHaveNewest, HasNewest, Registry!Editing
<1>2. CASE Registry!Next
  <2>1. PICK c \in Clusters :
          \/ Registry!Refresh(c) \/ Registry!Heartbeat(c) \/ Registry!Stop(c) \/ Registry!Start(c)
          \/ \E kind \in {"save", "rename", "delete"}, r \in Rows : Registry!BeginEdit(c, kind, r)
          \/ Registry!DeleteProvider(c)
          \/ Registry!Announce(c) \/ Registry!AnnounceFails(c) \/ Registry!Sync(c)
          \/ Registry!Disturbed(c) \/ Registry!Finish(c) \/ Registry!Reload(c)
          \/ \E o \in Clusters : \/ Registry!Unregister(c, o) \/ Registry!Send(c, o)
                                 \/ Registry!SendFails(c, o)
    BY <1>2 DEF Registry!Next
  <2>. QED
    BY <2>1, RegistrationStep, BeginEditStep, AnnounceStep, SendStep, EndStep, FinishStep, ReadStep,
       ProviderStep
<1>. QED
  BY <1>1, <1>2, StepOfRegistry

LEMMA RegistryHolds == Spec => []RegistryInv
BY RegistryInit, RegistryNext, PTL DEF Spec

(* A table with as many rows as a copy, all of them in it, is the copy.     *)
LEMMA SameTable ==
  ASSUME NEW t \in Tables, NEW u \in Tables, Cardinality(DOMAIN t) = Cardinality(DOMAIN u),
         \A r \in DOMAIN t : r \in DOMAIN u /\ u[r] = t[r]
  PROVE  t = u
<1>1. /\ t \in [DOMAIN t -> Nat] /\ u \in [DOMAIN u -> Nat]
      /\ DOMAIN u \subseteq Rows /\ DOMAIN t \subseteq DOMAIN u
  BY TableFacts
<1>2. IsFiniteSet(DOMAIN u)
  BY <1>1, FS_Subset, OperationsAssumption
<1>3. DOMAIN t = DOMAIN u
  BY <1>1, <1>2, FS_Subset
<1>. QED
  BY <1>1, <1>3

LEMMA RegistryExcuses ==
  ASSUME RegistryInv
  PROVE  Registry!StaleOnlyIfExcused /\ Registry!StatusShowsMissed /\ Registry!TypeOK
<1>1. Registry!StaleOnlyIfExcused
  BY DEF RegistryInv, RegistryShapes, LackingIsExcused, Registry!StaleOnlyIfExcused, Registry!Stale
<1>2. Registry!StatusShowsMissed
  <2> SUFFICES ASSUME NEW c \in up, Registry!Stale(c), c \notin early \cup altered, announced[c] # 0
               PROVE  Registry!Status(c) = "OUT_OF_SYNC"
    BY DEF Registry!StatusShowsMissed
  <2> DEFINE newest == Registry!Newest(table)
  <2>1. /\ c \in Clusters /\ announced[c] \in Nat /\ loadTime[c] \in Nat
        /\ table \in Tables /\ loaded[c] \in Tables
    BY DEF RegistryInv, RegistryShapes
  <2>2. loaded[c] # table /\ announced[c] <= loadTime[c]
    BY DEF Registry!Stale
  <2>3. newest \in Nat /\ \A r \in DOMAIN table : table[r] <= newest /\ table[r] \in Nat
    BY <2>1, NewestFacts, TableFacts DEF RegistryInv
  <2> HIDE DEF newest
  <2>4. Registry!Status(c) =
          IF Cardinality(DOMAIN table) # Cardinality(DOMAIN loaded[c])
            THEN IF announced[c] > loadTime[c] THEN "OUTDATED" ELSE "OUT_OF_SYNC"
          ELSE IF DOMAIN table = {} \/ loadTime[c] >= newest THEN "UP_TO_DATE"
          ELSE IF newest > announced[c] THEN "OUT_OF_SYNC"
          ELSE IF announced[c] > loadTime[c] THEN "OUTDATED" ELSE "UP_TO_DATE"
    BY SameCardinality DEF newest, Registry!Status, Registry!CacheTime, Registry!CacheSize
  <2>5. ASSUME Cardinality(DOMAIN table) = Cardinality(DOMAIN loaded[c])
        PROVE  \E r \in DOMAIN table : table[r] > loadTime[c]
    <3>1. ~\A r \in DOMAIN table : r \in DOMAIN loaded[c] /\ loaded[c][r] = table[r]
      BY <2>1, <2>2, <2>5, SameTable
    <3>. QED
      BY <2>1, <3>1 DEF RegistryInv, LackedIsNewer
  <2>. QED
    BY <2>1, <2>2, <2>3, <2>4, <2>5
<1>3. Registry!TypeOK
  <2>1. \A c \in Clusters : DOMAIN loaded[c] \subseteq Rows
    BY TableFacts DEF RegistryInv, RegistryShapes
  <2>2. \A c \in Clusters : task[c].told \subseteq Clusters /\ task[c].size <= Cardinality(Clusters)
    BY DEF RegistryInv, RegistryShapes, Tasks, AllTasks
  <2>. QED
    BY <2>1, <2>2, SameCardinality DEF RegistryInv, RegistryShapes, Registry!TypeOK
<1>. QED
  BY <1>1, <1>2, <1>3

(* A cluster that serves an old table with no reload to come was not told   *)
(* of a change (as none is of the rows that a deleted identity provider     *)
(* leaves), or loaded while one was under way, and its status page shows    *)
(* the first, unless the change stamped no row; a worker without Redis      *)
(* finds every change that stamps its row and was not under way while it    *)
(* read, and its page agrees with what it does                              *)
(* ('ModelChange' of models.py, 'change_wrapper' of clustermodels.py).      *)
THEOREM OldTablesAreExcused == Spec => []StaleOnlyIfExcused
<1>1. RegistryInv /\ PollInv => StaleOnlyIfExcused
  BY RegistryExcuses, PollFinds DEF StaleOnlyIfExcused
<1>. QED
  BY <1>1, RegistryHolds, PollHolds, PTL

-----------------------------------------------------------------------------
(***************************************************************************)
(* The administration of the groups.                                       *)
(***************************************************************************)
LEMMA StepOfGroups ==
  ASSUME [Next]_unionVars
  PROVE  Admin!Next \/ UNCHANGED adminVars
BY DEF Next, unionVars

(* What the edits of a group hold.                                         *)
PostedEdits ==
  {x \in [pc : {"clean", "climb", "children", "compare", "write"}, group : Groups, new : BOOLEAN,
          form : GroupRow, parent : GroupRow \cup {None}, up : Groups \cup {None}] :
     x.form.users # {} /\ (x.form.parent # None => x.parent \in GroupRow)}

GroupShapes ==
  /\ live \subseteq Groups /\ public \in Groups /\ publicRow \in GroupRow
  /\ row \in [Groups -> GroupRow] /\ \A g \in live : row[g].users # {}
  /\ \A e \in Editors : edit[e] = Admin!NoEdit \/ edit[e] \in PostedEdits
  /\ edit = [e \in Editors |-> edit[e]]

(* Unless a refresh replaced the public group, no other becomes a root.     *)
Roots ==
  ~replaced =>
    /\ \A g \in live \ orphans : row[g].parent = None => g = public
    /\ \A e \in Editors : edit[e].pc \notin {"idle", "clean"} /\ edit[e].form.parent = None
                            => edit[e].group = public

(* The groups are a tree: each is deeper than its parent, and fits into it. *)
Deepens(depth) ==
  \A g \in live : row[g].parent # None => depth[row[g].parent] < depth[g]

TreeOf ==
  /\ \A g \in live : row[g].parent \in live \cup {None}
  /\ \E depth \in [Groups -> Nat] : Deepens(depth)
  /\ \A g \in live : row[g].parent # None => Admin!FitsInto(row[g], row[row[g].parent])

(* What an edit has read is so, as long as it is the only one: it has       *)
(* climbed from the parent to up and not met the group.                    *)
Climbed(x, path) ==
  /\ path \subseteq live /\ x.group \notin path
  /\ x.form.parent \in path \cup {x.up}
  /\ \A g \in path : row[g].parent \in path \cup {x.up}

Read(x) ==
  /\ x.form.parent \in live \cup {None}
  /\ x.parent = IF x.form.parent = None THEN None ELSE row[x.form.parent]
  /\ x.up \in live \cup {None}
  /\ x.pc = "clean" => x.up = x.form.parent
  /\ x.pc # "clean" => \E path \in SUBSET Groups : Climbed(x, path)
  /\ x.pc \in {"children", "compare", "write"} =>
       /\ x.up = None
       /\ x.parent # None => Admin!FitsInto(x.form, x.parent)
  /\ x.pc \in {"compare", "write"} => \A h \in Admin!Children(x.group) : Admin!FitsInto(row[h], x.form)

AloneAndRead ==
  \A e \in Editors : edit[e].pc # "idle" =>
    Read(edit[e]) /\ \A f \in Editors \ {e} : edit[f].pc = "idle"

GroupInv ==
  GroupShapes /\ Roots /\ (~overlaps /\ ~outdated => TreeOf /\ AloneAndRead)

LEMMA GroupFacts ==
  /\ None \notin Groups /\ None \notin GroupRow
  /\ Admin!NoEdit.pc = "idle" /\ Admin!NoEdit \notin PostedEdits
BY OperationsAssumption DEF Admin!NoEdit, PostedEdits

LEMMA EditFacts ==
  ASSUME GroupShapes, NEW e \in Editors, edit[e].pc # "idle"
  PROVE  /\ edit[e] \in PostedEdits /\ edit[e].group \in Groups /\ edit[e].form \in GroupRow
         /\ edit[e].form.parent \in Groups \cup {None}
BY GroupFacts DEF GroupShapes, PostedEdits, GroupRow

(* A tree that is not written to stays one, and what was read stays so.     *)
LEMMA TreeUnchanged ==
  ASSUME UNCHANGED <<live, row>>
  PROVE  TreeOf <=> TreeOf'
<1>1. \A r, q : Admin!FitsInto(r, q)' <=> Admin!FitsInto(r, q)
  BY DEF Admin!FitsInto, Admin!NotOutside, Admin!Inside
<1>. QED
  BY <1>1 DEF TreeOf, Deepens, Admin!FitsInto, Admin!NotOutside, Admin!Inside

LEMMA GroupsInit ==
  ASSUME Init PROVE GroupInv
<1>1. Admin!Init
  BY DEF Init
<1>2. PICK first \in FirstTables :
        /\ live = DOMAIN first
        /\ row = [g \in Groups |-> IF g \in live THEN first[g]
                                   ELSE [parent |-> None, users |-> {}, excluded |-> {}]]
  BY <1>1 DEF Admin!Init
<1>3. /\ public \in Admin!PublicRows /\ publicRow = row[public]
      /\ edit = [e \in Editors |-> Admin!NoEdit] /\ orphans = {}
  BY <1>1 DEF Admin!Init
<1>4. OneTree(first)
  BY OperationsAssumption
<1>5. live \subseteq Groups /\ \A g \in live : row[g] = first[g]
  BY <1>2, <1>4 DEF OneTree
<1>6. public \in live /\ row[public].users = Admin!AllEmails /\ row[public].excluded = {}
  BY <1>3 DEF Admin!PublicRows
<1>7. \A e \in Editors : edit[e] = Admin!NoEdit /\ edit[e].pc = "idle"
  BY <1>3, GroupFacts
<1>8. GroupShapes
  <2>1. row \in [Groups -> GroupRow]
    BY <1>2, <1>4, <1>5 DEF OneTree, GroupRow
  <2>2. \A g \in live : row[g].users # {}
    BY <1>2, <1>4, <1>5 DEF OneTree
  <2>. QED
    BY <1>3, <1>5, <1>6, <1>7, <2>1, <2>2 DEF GroupShapes
<1>9. Roots
  BY <1>2, <1>4, <1>5, <1>6, <1>7 DEF Roots, OneTree
<1>10. TreeOf
  <2>1. \A g \in live : row[g].parent \in live \cup {None}
    BY <1>2, <1>4, <1>5 DEF OneTree
  <2>2. PICK depth \in [Groups -> 0..Cardinality(Groups)] :
          \A g \in live : first[g].parent # None =>
            depth[first[g].parent] < depth[g] /\ Admin!FitsInto(first[g], first[first[g].parent])
    BY <1>2, <1>4 DEF OneTree
  <2>3. depth \in [Groups -> Nat]
    BY <2>2
  <2>4. Deepens(depth)
    BY <1>5, <2>2 DEF Deepens
  <2>5. \A g \in live : row[g].parent # None => Admin!FitsInto(row[g], row[row[g].parent])
    BY <1>5, <2>1, <2>2
  <2>. QED
    BY <2>1, <2>3, <2>4, <2>5 DEF TreeOf
<1>. QED
  BY <1>7, <1>8, <1>9, <1>10 DEF GroupInv, AloneAndRead

(* One edit goes on, and nothing is written.                               *)
LEMMA EditStep ==
  ASSUME GroupInv, NEW e \in Editors, NEW x, edit' = [edit EXCEPT ![e] = x],
         UNCHANGED <<live, row, public, publicRow, orphans, replaced>>,
         overlaps => overlaps', outdated => outdated',
         x = Admin!NoEdit \/ x \in PostedEdits,
         x \in PostedEdits /\ x.pc # "clean" /\ x.form.parent = None /\ ~replaced
           => x.group = public,
         ~overlaps' /\ ~outdated' /\ x \in PostedEdits /\ TreeOf /\ AloneAndRead
           => Read(x) /\ \A f \in Editors \ {e} : edit[f].pc = "idle"
  PROVE  GroupInv'
<1>1. edit'[e] = x /\ (\A f \in Editors \ {e} : edit'[f] = edit[f])
      /\ edit' = [f \in Editors |-> edit'[f]]
  BY DEF GroupInv, GroupShapes
<1>2. GroupShapes'
  <2>1. \A f \in Editors : edit'[f] = Admin!NoEdit \/ edit'[f] \in PostedEdits
    BY <1>1 DEF GroupInv, GroupShapes
  <2>2. Admin!NoEdit' = Admin!NoEdit /\ PostedEdits' = PostedEdits
    BY DEF Admin!NoEdit, PostedEdits, GroupRow
  <2>. QED
    BY <1>1, <2>1, <2>2 DEF GroupInv, GroupShapes
<1>3. Roots'
  BY <1>1, GroupFacts DEF GroupInv, Roots
<1>4. ASSUME ~overlaps', ~outdated' PROVE TreeOf' /\ AloneAndRead'
  <2>1. TreeOf /\ AloneAndRead
    BY <1>4 DEF GroupInv
  <2>2. TreeOf'
    BY <2>1, TreeUnchanged
  <2>3. ASSUME NEW f \in Editors, edit'[f].pc # "idle"
        PROVE  Read(edit'[f]) /\ \A o \in Editors \ {f} : edit'[o].pc = "idle"
    <3>1. CASE x = Admin!NoEdit
      BY <1>1, <2>1, <2>3, <3>1, GroupFacts DEF AloneAndRead
    <3>2. CASE x \in PostedEdits
      <4>1. Read(x) /\ \A o \in Editors \ {e} : edit[o].pc = "idle"
        BY <1>4, <2>1, <3>2
      <4>. QED
        BY <1>1, <2>3, <4>1
    <3>. QED
      BY <3>1, <3>2
  <2>4. AloneAndRead'
    <3>1. ASSUME NEW f \in Editors, edit'[f].pc # "idle"
          PROVE  Read(edit[f])'
      <4>1. Read(edit'[f])
        BY <2>3, <3>1
      <4>. QED
        BY <4>1 DEF Read, Climbed, Admin!Children, Admin!FitsInto, Admin!NotOutside, Admin!Inside
    <3>. QED
      BY <2>3, <3>1 DEF AloneAndRead
  <2>. QED
    BY <2>2, <2>4
<1>. QED
  BY <1>2, <1>3, <1>4 DEF GroupInv

LEMMA PostStep ==
  ASSUME GroupInv, NEW e \in Editors, NEW g \in Groups, NEW parent \in Groups \cup {None},
         NEW config \in Configs, Admin!Post(e, g, parent, config)
  PROVE  GroupInv'
<1> DEFINE form == Admin!Submitted(parent, config)
           x == [pc |-> "clean", group |-> g, new |-> g \notin live, form |-> form,
                 parent |-> IF parent = None THEN None ELSE row[parent], up |-> parent]
<1>1. /\ edit' = [edit EXCEPT ![e] = x] /\ parent \in live \cup {None}
      /\ edit[e].pc = "idle" /\ overlaps' = (overlaps \/ Admin!Others(e) # {})
      /\ UNCHANGED <<live, row, public, publicRow, orphans, outdated, replaced>>
  BY DEF Admin!Post, Admin!Cached
<1>2. form \in GroupRow /\ form.users # {} /\ form.parent = parent
  <2>1. /\ config.users \in SUBSET Patterns /\ config.excluded \in SUBSET Patterns
        /\ All \in Patterns
    BY OperationsAssumption
  <2>2. /\ Admin!AllEmails \in SUBSET Patterns /\ Admin!AllEmails # {}
    BY <2>1 DEF Admin!AllEmails
  <2>3. \A q \in SUBSET Patterns : Admin!Normal(q) \in SUBSET Patterns
    BY <2>2 DEF Admin!Normal
  <2>4. \A q \in SUBSET Patterns : q # {} => Admin!Normal(q) # {}
    BY <2>2 DEF Admin!Normal
  <2>. QED
    BY <2>1, <2>2, <2>3, <2>4 DEF Admin!Submitted, GroupRow
<1> HIDE DEF form
<1>3. x \in PostedEdits
  <2>1. (IF parent = None THEN None ELSE row[parent]) \in GroupRow \cup {None}
    BY DEF GroupInv, GroupShapes
  <2>. QED
    <3>1. parent # None => row[parent] \in GroupRow
      BY <1>1 DEF GroupInv, GroupShapes
    <3>. QED
      BY <1>2, <2>1, <3>1 DEF PostedEdits
<1>4. Read(x)
  BY <1>1, <1>2 DEF Read
<1>5. x.pc = "clean"
  OBVIOUS
<1>6. ~overlaps' => \A f \in Editors \ {e} : edit[f].pc = "idle"
  BY <1>1 DEF Admin!Others
<1> HIDE DEF x
<1>. QED
  BY <1>1, <1>3, <1>4, <1>5, <1>6, EditStep

(* An edit that has begun: what it holds, and what it may become.           *)
LEMMA EditGoesOn ==
  ASSUME GroupInv, NEW e \in Editors, edit[e].pc # "idle", NEW x,
         edit' = [edit EXCEPT ![e] = x],
         UNCHANGED <<live, row, public, publicRow, orphans, overlaps, replaced>>,
         outdated => outdated',
         \/ x = Admin!NoEdit
         \/ /\ x \in PostedEdits
            /\ x.form.parent = None /\ ~replaced => x.group = public
            /\ ~outdated' /\ TreeOf /\ Read(edit[e]) => Read(x)
  PROVE  GroupInv'
<1>1. AloneAndRead => Read(edit[e]) /\ \A f \in Editors \ {e} : edit[f].pc = "idle"
  BY DEF AloneAndRead
<1>2. x \in PostedEdits /\ x.pc # "clean" /\ x.form.parent = None /\ ~replaced
        => x.group = public
  BY GroupFacts
<1>3. x = Admin!NoEdit \/ x \in PostedEdits
  OBVIOUS
<1>4. ~overlaps' /\ ~outdated' /\ x \in PostedEdits /\ TreeOf /\ AloneAndRead
        => Read(x) /\ \A f \in Editors \ {e} : edit[f].pc = "idle"
  BY <1>1, GroupFacts
<1>. QED
  BY <1>2, <1>3, <1>4, EditStep

LEMMA TakeStep ==
  ASSUME GroupInv, NEW e \in Editors, Admin!TakePublic(e) \/ Admin!TakeParent(e)
  PROVE  GroupInv'
<1>1. edit[e].pc = "clean"
  BY DEF Admin!TakePublic, Admin!TakeParent
<1>2. /\ edit[e] \in PostedEdits /\ edit[e].group \in Groups /\ edit[e].form \in GroupRow
  BY <1>1, EditFacts DEF GroupInv
<1>3. publicRow \in GroupRow /\ public \in Groups
  BY DEF GroupInv, GroupShapes
<1>4. CASE Admin!TakePublic(e)
  <2> DEFINE x == [edit[e] EXCEPT !.form.parent = public, !.parent = publicRow, !.up = public,
                                  !.pc = "climb"]
  <2>1. /\ edit' = [edit EXCEPT ![e] = x]
        /\ UNCHANGED <<live, row, public, publicRow, orphans, overlaps, replaced>>
        /\ outdated' = (outdated \/ public \notin live \/ publicRow # row[public])
    BY <1>4 DEF Admin!TakePublic, Admin!Cached
  <2>2. /\ x \in PostedEdits /\ x.group = edit[e].group /\ x.form.parent = public
        /\ x.parent = publicRow /\ x.up = public /\ x.pc = "climb"
    BY <1>2, <1>3 DEF PostedEdits, GroupRow
  <2> HIDE DEF x
  <2>3. x.form.parent # None
    BY <1>3, <2>2, GroupFacts
  <2>4. ~outdated' => Read(x)
    <3>1. Climbed(x, {})
      BY <2>2 DEF Climbed
    <3>. QED
      BY <1>3, <2>1, <2>2, <2>3, <3>1 DEF Read
  <2>. QED
    BY <1>1, <2>1, <2>2, <2>3, <2>4, EditGoesOn
<1>5. CASE Admin!TakeParent(e)
  <2> DEFINE x == [edit[e] EXCEPT !.pc = "climb"]
  <2>1. /\ edit' = [edit EXCEPT ![e] = x]
        /\ UNCHANGED <<live, row, public, publicRow, orphans, overlaps, outdated, replaced>>
        /\ edit[e].form.parent # None \/ edit[e].group = public
    BY <1>5 DEF Admin!TakeParent, Admin!GoTo, Admin!Cached, Admin!History
  <2>2. /\ x \in PostedEdits /\ x.group = edit[e].group /\ x.form = edit[e].form
        /\ x.parent = edit[e].parent /\ x.up = edit[e].up /\ x.pc = "climb"
    BY <1>2 DEF PostedEdits
  <2> HIDE DEF x
  <2>3. Read(edit[e]) => Read(x)
    <3>1. Read(edit[e]) => Climbed(x, {})
      BY <1>1, <2>2 DEF Climbed, Read
    <3>. QED
      BY <2>2, <3>1 DEF Read
  <2>. QED
    BY <1>1, <2>1, <2>2, <2>3, EditGoesOn
<1>. QED
  BY <1>4, <1>5

LEMMA ClimbStep ==
  ASSUME GroupInv, NEW e \in Editors, Admin!Climb(e) PROVE GroupInv'
<1> DEFINE x == [edit[e] EXCEPT !.up = Admin!NextUp(e)]
<1>1. /\ edit[e].pc = "climb" /\ edit[e].up # None /\ edit[e].up # edit[e].group
      /\ edit' = [edit EXCEPT ![e] = x]
      /\ UNCHANGED <<live, row, public, publicRow, orphans, overlaps, outdated, replaced>>
  BY DEF Admin!Climb, Admin!Cached, Admin!History
<1>2. /\ edit[e] \in PostedEdits /\ edit[e].form.parent \in Groups \cup {None} /\ GroupShapes
  BY <1>1, EditFacts DEF GroupInv
<1>3. /\ edit[e].up \in Groups
      /\ edit[e].form.parent # None => edit[e].parent \in GroupRow
  BY <1>1, <1>2 DEF PostedEdits
<1>4. Admin!NextUp(e) \in Groups \cup {None}
  <2>1. \A r \in GroupRow : r.parent \in Groups \cup {None}
    BY DEF GroupRow
  <2>2. edit[e].up \in live => row[edit[e].up] \in GroupRow
    BY <1>2, <1>3 DEF GroupShapes
  <2>. QED
    BY <1>1, <1>3, <2>1, <2>2 DEF Admin!NextUp
<1>5. /\ x \in PostedEdits /\ x.group = edit[e].group /\ x.form = edit[e].form
      /\ x.parent = edit[e].parent /\ x.up = Admin!NextUp(e) /\ x.pc = "climb"
  BY <1>1, <1>2, <1>4 DEF PostedEdits
<1> HIDE DEF x
<1>6. ASSUME Read(edit[e]), TreeOf PROVE Read(x)
  <2>1. PICK path \in SUBSET Groups : Climbed(edit[e], path)
    BY <1>1, <1>6 DEF Read
  <2>2. edit[e].up \in live
    BY <1>1, <1>6 DEF Read
  <2>3. x.up = row[edit[e].up].parent
    BY <1>5, <1>6, <1>3, GroupFacts, <2>2 DEF Admin!NextUp, Read
  <2>4. x.up \in live \cup {None}
    BY <1>6, <2>2, <2>3 DEF TreeOf
  <2>5. Climbed(x, path \cup {edit[e].up})
    BY <1>1, <1>5, <2>1, <2>2, <2>3 DEF Climbed
  <2>6. path \cup {edit[e].up} \in SUBSET Groups
    BY <1>3, <2>1
  <2>. QED
    BY <1>5, <1>6, <2>4, <2>5, <2>6 DEF Read
<1>7. x.form.parent = None /\ ~replaced => x.group = public
  BY <1>1, <1>5, GroupFacts DEF GroupInv, Roots
<1>. QED
  BY <1>1, <1>5, <1>6, <1>7, EditGoesOn

LEMMA CompareStep ==
  ASSUME GroupInv, NEW e \in Editors,
         \/ Admin!OwnAncestor(e) \/ Admin!CompareParent(e) \/ Admin!CompareChildren(e)
         \/ Admin!Compare(e)
  PROVE  GroupInv'
<1> DEFINE To(pc) == [edit[e] EXCEPT !.pc = pc]
<1>1. /\ edit[e].pc \in {"climb", "children", "compare"}
      /\ UNCHANGED <<live, row, public, publicRow, orphans, overlaps, outdated, replaced>>
  BY DEF Admin!OwnAncestor, Admin!CompareParent, Admin!CompareChildren, Admin!Compare,
     Admin!Cached, Admin!History
<1>2. edit[e] \in PostedEdits
  BY <1>1, EditFacts DEF GroupInv
<1>3. \A pc \in {"children", "compare", "write"} :
        /\ To(pc) \in PostedEdits /\ To(pc).group = edit[e].group /\ To(pc).form = edit[e].form
        /\ To(pc).parent = edit[e].parent /\ To(pc).up = edit[e].up /\ To(pc).pc = pc
  BY <1>2 DEF PostedEdits
<1>4. edit[e].form.parent = None /\ ~replaced => edit[e].group = public
  BY <1>1, GroupFacts DEF GroupInv, Roots
<1>5. \/ edit' = [edit EXCEPT ![e] = Admin!NoEdit]
      \/ /\ edit[e].pc = "climb" /\ edit[e].up = None /\ Admin!FitsAbove(e)
         /\ edit' = [edit EXCEPT ![e] = To("children")]
      \/ /\ edit[e].pc = "children" /\ Admin!FitsBelow(e)
         /\ edit' = [edit EXCEPT ![e] = To("compare")]
      \/ edit[e].pc = "compare" /\ edit' = [edit EXCEPT ![e] = To("write")]
  BY DEF Admin!OwnAncestor, Admin!CompareParent, Admin!CompareChildren, Admin!Compare,
     Admin!Finish, Admin!GoTo
<1> HIDE DEF To
<1>6. CASE edit' = [edit EXCEPT ![e] = Admin!NoEdit]
  BY <1>1, <1>6, EditGoesOn
<1>7. \A pc \in {"children", "compare", "write"} : \A path :
        Climbed(edit[e], path) => Climbed(To(pc), path)
  BY <1>3 DEF Climbed
<1>8. CASE edit[e].pc = "climb" /\ edit[e].up = None /\ Admin!FitsAbove(e)
           /\ edit' = [edit EXCEPT ![e] = To("children")]
  <2>1. Read(edit[e]) => Read(To("children"))
    BY <1>3, <1>7, <1>8 DEF Read, Admin!FitsAbove
  <2>. QED
    BY <1>1, <1>3, <1>4, <1>8, <2>1, EditGoesOn
<1>9. CASE edit[e].pc = "children" /\ Admin!FitsBelow(e)
           /\ edit' = [edit EXCEPT ![e] = To("compare")]
  <2>1. Read(edit[e]) => Read(To("compare"))
    BY <1>3, <1>7, <1>9 DEF Read, Admin!FitsBelow
  <2>. QED
    BY <1>1, <1>3, <1>4, <1>9, <2>1, EditGoesOn
<1>10. CASE edit[e].pc = "compare" /\ edit' = [edit EXCEPT ![e] = To("write")]
  <2>1. Read(edit[e]) => Read(To("write"))
    BY <1>3, <1>7, <1>10 DEF Read
  <2>. QED
    BY <1>1, <1>3, <1>4, <1>10, <2>1, EditGoesOn
<1>. QED
  BY <1>5, <1>6, <1>8, <1>9, <1>10

(* The row that is written hangs below a path that does not meet it: all    *)
(* that is not on the path becomes deeper than the new parent.             *)
LEMMA TreeWritten ==
  ASSUME GroupShapes, TreeOf, NEW x \in PostedEdits, Read(x), x.pc = "write",
         live' = live \cup {x.group}, row' = [row EXCEPT ![x.group] = x.form]
  PROVE  TreeOf'
<1> DEFINE g == x.group
           p == x.form.parent
<1>1. /\ g \in Groups /\ x.form \in GroupRow /\ p \in live \cup {None} /\ live \subseteq Groups
      /\ x.up = None /\ None \notin live
  BY GroupFacts DEF PostedEdits, Read, GroupShapes
<1>2. PICK path \in SUBSET Groups : Climbed(x, path)
  BY DEF Read
<1>3. /\ path \subseteq live /\ g \notin path /\ p \in path \cup {None}
      /\ \A y \in path : row[y].parent \in path \cup {None}
  BY <1>1, <1>2 DEF Climbed
<1>4. /\ row'[g] = x.form /\ \A y \in Groups \ {g} : row'[y] = row[y]
  BY <1>1 DEF GroupShapes
<1>5. \A y \in live' : row'[y].parent \in live' \cup {None}
  BY <1>1, <1>4 DEF TreeOf
<1>6. \E depth \in [Groups -> Nat] : Deepens(depth)'
  <2>1. PICK depth \in [Groups -> Nat] : Deepens(depth)
    BY DEF TreeOf
  <2> DEFINE below == IF p = None THEN 0 ELSE depth[p] + 1
             deeper == [y \in Groups |-> IF y \in path THEN depth[y] ELSE depth[y] + below]
  <2>2. below \in Nat /\ (p # None => p \in Groups /\ depth[p] < below)
    BY <1>1, <2>1
  <2> HIDE DEF below
  <2>3. deeper \in [Groups -> Nat]
    BY <2>1, <2>2
  <2>4. ASSUME NEW y \in live', row'[y].parent # None
        PROVE  deeper[row'[y].parent] < deeper[y]
    <3>1. CASE y = g
      <4>1. row'[y].parent = p /\ p \in path /\ p \in Groups
        BY <1>1, <1>3, <1>4, <2>4, <3>1
      <4>. QED
        BY <1>1, <1>3, <2>1, <2>2, <3>1, <4>1
    <3>2. CASE y # g
      <4>1. y \in live /\ y \in Groups /\ row'[y] = row[y] /\ row[y].parent \in Groups
        BY <1>1, <1>4, <2>4, <3>2 DEF TreeOf
      <4>2. depth[row[y].parent] < depth[y] /\ depth[y] \in Nat /\ depth[row[y].parent] \in Nat
        BY <2>1, <2>4, <4>1 DEF Deepens
      <4>3. y \in path => row[y].parent \in path
        BY <1>3, <2>4, <4>1
      <4>. QED
        BY <2>2, <4>1, <4>2, <4>3
    <3>. QED
      BY <3>1, <3>2
  <2> HIDE DEF deeper
  <2>. QED
    BY <2>3, <2>4 DEF Deepens
<1>7. \A r, q : Admin!FitsInto(r, q)' <=> Admin!FitsInto(r, q)
  BY DEF Admin!FitsInto, Admin!NotOutside, Admin!Inside
<1>8. ASSUME NEW y \in live', row'[y].parent # None
      PROVE  Admin!FitsInto(row'[y], row'[row'[y].parent])
  <2>1. CASE y = g
    <3>1. p # None /\ p # g /\ p \in Groups /\ x.parent = row[p] /\ row[p] \in GroupRow
      BY <1>1, <1>3, <1>4, <1>8, <2>1 DEF Read, GroupShapes
    <3>2. Admin!FitsInto(x.form, x.parent)
      BY <3>1, GroupFacts DEF Read
    <3>. QED
      BY <1>4, <2>1, <3>1, <3>2
  <2>2. CASE y # g
    <3>1. y \in live /\ row'[y] = row[y] /\ row[y].parent # None
      BY <1>1, <1>4, <1>8, <2>2
    <3>2. CASE row[y].parent = g
      <4>1. y \in Admin!Children(g)
        BY <3>1, <3>2 DEF Admin!Children
      <4>2. Admin!FitsInto(row[y], x.form)
        BY <4>1 DEF Read
      <4>. QED
        BY <1>4, <3>1, <3>2, <4>2
    <3>3. CASE row[y].parent # g
      <4>1. row[y].parent \in Groups /\ Admin!FitsInto(row[y], row[row[y].parent])
        BY <1>1, <3>1 DEF TreeOf
      <4>. QED
        BY <1>4, <3>1, <3>3, <4>1
    <3>. QED
      BY <3>2, <3>3
  <2>. QED
    BY <2>1, <2>2
<1>. QED
  BY <1>5, <1>6, <1>7, <1>8 DEF TreeOf, Admin!FitsInto, Admin!NotOutside, Admin!Inside

LEMMA WriteStep ==
  ASSUME GroupInv, NEW e \in Editors, Admin!Write(e) PROVE GroupInv'
<1> DEFINE x == edit[e]
<1>1. /\ x.pc = "write" /\ edit' = [edit EXCEPT ![e] = Admin!NoEdit]
      /\ UNCHANGED <<public, publicRow, overlaps, outdated, replaced>>
      /\ \/ UNCHANGED <<live, row, orphans>>
         \/ /\ live' = live \cup {x.group} /\ row' = [row EXCEPT ![x.group] = x.form]
            /\ orphans' = orphans \ {x.group}
  BY DEF Admin!Write, Admin!Finish, Admin!Cached
<1>2. x \in PostedEdits /\ x.group \in Groups /\ x.form \in GroupRow /\ x.form.users # {}
  BY <1>1, EditFacts DEF GroupInv, PostedEdits
<1>3. CASE UNCHANGED <<live, row, orphans>>
  BY <1>1, <1>3, EditGoesOn
<1>4. CASE /\ live' = live \cup {x.group} /\ row' = [row EXCEPT ![x.group] = x.form]
           /\ orphans' = orphans \ {x.group}
  <2>1. /\ edit'[e] = Admin!NoEdit /\ (\A f \in Editors \ {e} : edit'[f] = edit[f])
        /\ edit' = [f \in Editors |-> edit'[f]]
    BY <1>1 DEF GroupInv, GroupShapes
  <2>2. /\ row' \in [Groups -> GroupRow] /\ live' \subseteq Groups
        /\ row'[x.group] = x.form /\ \A g \in Groups \ {x.group} : row'[g] = row[g]
    BY <1>2, <1>4 DEF GroupInv, GroupShapes
  <2>3. GroupShapes'
    <3>1. \A f \in Editors : edit'[f] = Admin!NoEdit \/ edit'[f] \in PostedEdits
      BY <2>1 DEF GroupInv, GroupShapes
    <3>2. Admin!NoEdit' = Admin!NoEdit /\ PostedEdits' = PostedEdits
      BY DEF Admin!NoEdit, PostedEdits, GroupRow
    <3>3. \A g \in live' : row'[g].users # {}
      BY <1>2, <1>4, <2>2 DEF GroupInv, GroupShapes
    <3>. QED
      BY <1>1, <2>1, <2>2, <3>1, <3>2, <3>3 DEF GroupInv, GroupShapes
  <2>4. Roots'
    <3>1. ASSUME ~replaced', NEW g \in live' \ orphans', row'[g].parent = None
          PROVE  g = public'
      BY <1>1, <1>2, <1>4, <2>2, <3>1 DEF GroupInv, Roots, GroupShapes
    <3>2. ASSUME ~replaced', NEW f \in Editors, edit'[f].pc \notin {"idle", "clean"},
                 edit'[f].form.parent = None
          PROVE  edit'[f].group = public'
      BY <1>1, <2>1, <3>2, GroupFacts DEF GroupInv, Roots
    <3>. QED
      BY <3>1, <3>2 DEF Roots
  <2>5. ASSUME ~overlaps', ~outdated' PROVE TreeOf' /\ AloneAndRead'
    <3>1. TreeOf /\ AloneAndRead
      BY <1>1, <2>5 DEF GroupInv
    <3>2. Read(x) /\ \A f \in Editors \ {e} : edit[f].pc = "idle"
      BY <1>1, <3>1 DEF AloneAndRead
    <3>3. \A f \in Editors : edit'[f].pc = "idle"
      BY <2>1, <3>2, GroupFacts
    <3> HIDE DEF x
    <3>4. TreeOf'
      BY <1>1, <1>2, <1>4, <3>1, <3>2, TreeWritten DEF GroupInv
    <3>. QED
      BY <3>3, <3>4 DEF AloneAndRead
  <2>. QED
    BY <2>3, <2>4, <2>5 DEF GroupInv
<1>. QED
  BY <1>1, <1>3, <1>4

LEMMA DeleteStep ==
  ASSUME GroupInv, NEW g \in Groups, Admin!Delete(g) PROVE GroupInv'
<1>1. /\ g \in live /\ live' = live \ {g}
      /\ row' = [h \in Groups |-> IF row[h].parent = g THEN [row[h] EXCEPT !.parent = None]
                                  ELSE row[h]]
      /\ orphans' = (orphans \ {g}) \cup Admin!Children(g)
      /\ overlaps' = (overlaps \/ \E e \in Editors : edit[e].pc # "idle")
      /\ UNCHANGED <<public, publicRow, edit, outdated, replaced>>
  BY DEF Admin!Delete, Admin!Cached
<1>2. GroupShapes
  BY DEF GroupInv
<1>3. \A h \in Groups :
        /\ row'[h] \in GroupRow
        /\ row'[h].users = row[h].users /\ row'[h].excluded = row[h].excluded
        /\ row'[h].parent = IF row[h].parent = g THEN None ELSE row[h].parent
  BY <1>1, <1>2 DEF GroupShapes, GroupRow
<1>4. GroupShapes'
  <2>1. row' \in [Groups -> GroupRow]
    BY <1>1, <1>3
  <2>2. Admin!NoEdit' = Admin!NoEdit /\ PostedEdits' = PostedEdits /\ GroupRow' = GroupRow
    BY DEF Admin!NoEdit, PostedEdits, GroupRow
  <2>. QED
    BY <1>1, <1>2, <1>3, <2>1, <2>2 DEF GroupShapes
<1>5. Roots'
  <2>1. ASSUME ~replaced', NEW h \in live' \ orphans', row'[h].parent = None PROVE h = public'
    <3>1. h \in live /\ h \in Groups /\ h \notin orphans /\ row[h].parent # g
      BY <1>1, <1>2, <2>1 DEF Admin!Children, GroupShapes
    <3>. QED
      BY <1>1, <1>3, <2>1, <3>1 DEF GroupInv, Roots
  <2>. QED
    BY <1>1, <2>1 DEF GroupInv, Roots
<1>6. ASSUME ~overlaps', ~outdated' PROVE TreeOf' /\ AloneAndRead'
  <2>1. TreeOf /\ \A e \in Editors : edit'[e].pc = "idle"
    BY <1>1, <1>6 DEF GroupInv
  <2>2. \A h \in live' : h \in live /\ h \in Groups /\ row'[h].parent \in live' \cup {None}
    BY <1>1, <1>2, <1>3, <2>1 DEF TreeOf, GroupShapes
  <2>3. PICK depth \in [Groups -> Nat] : Deepens(depth)
    BY <2>1 DEF TreeOf
  <2>4. Deepens(depth)'
    BY <1>3, <2>2, <2>3 DEF Deepens
  <2>5. ASSUME NEW h \in live', row'[h].parent # None
        PROVE  Admin!FitsInto(row'[h], row'[row'[h].parent])
    <3>1. row'[h].parent = row[h].parent /\ row[h].parent \in Groups
      BY <1>2, <1>3, <2>2, <2>5 DEF GroupShapes
    <3>2. Admin!FitsInto(row[h], row[row[h].parent])
      BY <2>1, <2>2, <2>5, <3>1 DEF TreeOf
    <3>. QED
      BY <1>3, <2>2, <3>1, <3>2 DEF Admin!FitsInto, Admin!NotOutside, Admin!Inside
  <2>6. TreeOf'
    BY <2>2, <2>3, <2>4, <2>5 DEF TreeOf, Admin!FitsInto, Admin!NotOutside, Admin!Inside
  <2>. QED
    BY <2>1, <2>6 DEF AloneAndRead
<1>. QED
  BY <1>4, <1>5, <1>6 DEF GroupInv

LEMMA RefreshStep ==
  ASSUME GroupInv, Admin!RefreshCache PROVE GroupInv'
<1>1. /\ public' \in Admin!PublicRows /\ publicRow' = row[public']
      /\ replaced' = (replaced \/ public' # public)
      /\ UNCHANGED <<live, row, edit, orphans, overlaps, outdated>>
  BY DEF Admin!RefreshCache
<1>2. public' \in Groups /\ publicRow' \in GroupRow
  BY <1>1 DEF Admin!PublicRows, GroupInv, GroupShapes
<1>3. GroupShapes'
  <2>1. Admin!NoEdit' = Admin!NoEdit /\ PostedEdits' = PostedEdits /\ GroupRow' = GroupRow
    BY DEF Admin!NoEdit, PostedEdits, GroupRow
  <2>. QED
    BY <1>1, <1>2, <2>1 DEF GroupInv, GroupShapes
<1>4. Roots'
  BY <1>1 DEF GroupInv, Roots
<1>5. TreeOf /\ AloneAndRead => TreeOf' /\ AloneAndRead'
  <2>1. TreeOf => TreeOf'
    BY <1>1, TreeUnchanged
  <2>2. AloneAndRead => AloneAndRead'
    BY <1>1 DEF AloneAndRead, Read, Climbed, Admin!Children, Admin!FitsInto, Admin!NotOutside, Admin!Inside
  <2>. QED
    BY <2>1, <2>2
<1>. QED
  BY <1>1, <1>3, <1>4, <1>5 DEF GroupInv

LEMMA GroupsNext ==
  ASSUME GroupInv, [Next]_unionVars PROVE GroupInv'
<1>1. CASE UNCHANGED adminVars
  <2>1. UNCHANGED <<live, row, public, publicRow, edit, orphans, overlaps, outdated, replaced>>
    BY <1>1 DEF adminVars
  <2>2. GroupShapes' /\ Roots'
    BY <2>1 DEF GroupInv, GroupShapes, Roots, PostedEdits, GroupRow, Admin!NoEdit
  <2>3. TreeOf /\ AloneAndRead => TreeOf' /\ AloneAndRead'
    <3>1. TreeOf => TreeOf'
      BY <2>1, TreeUnchanged
    <3>2. AloneAndRead => AloneAndRead'
      BY <2>1 DEF AloneAndRead, Read, Climbed, Admin!Children, Admin!FitsInto,
         Admin!NotOutside, Admin!Inside
    <3>. QED
      BY <3>1, <3>2
  <2>. QED
    BY <2>1, <2>2, <2>3 DEF GroupInv
<1>2. ASSUME NEW e \in Editors, Admin!PostAny(e) PROVE GroupInv'
  BY <1>2, PostStep DEF Admin!PostAny
<1>3. ASSUME NEW e \in Editors, Admin!Clean(e) \/ Admin!Compare(e) PROVE GroupInv'
  BY <1>3, TakeStep, ClimbStep, CompareStep DEF Admin!Clean
<1>. QED
  BY <1>1, <1>2, <1>3, WriteStep, DeleteStep, RefreshStep, StepOfGroups DEF Admin!Next

LEMMA GroupsHold == Spec => []GroupInv
BY GroupsInit, GroupsNext, PTL DEF Spec

(* Naturals are well ordered.                                              *)
LEMMA LeastExists ==
  ASSUME NEW S, S \subseteq Nat, S # {}
  PROVE  \E n \in S : \A m \in S : n <= m
<1> DEFINE R == {q \in Nat \X Nat : q[1] < q[2]}
<1>1. OpToRel(<, Nat) = R
  BY DEF OpToRel
<1>2. IsWellFoundedOn(R, Nat)
  BY <1>1, NatLessThanWellFounded
<1>3. PICK n \in S : \A m \in S : ~(<<m, n>> \in R)
  <2> HIDE DEF R
  <2>. QED
    BY <1>2, WFMin
<1>4. \A m \in S : ~(m < n)
  BY <1>3
<1>. QED
  BY <1>4

(* The function that Ancestor takes its last value of.                      *)
LEMMA ChainExists ==
  ASSUME NEW g, NEW N \in Nat
  PROVE  \E chain : chain = [n \in 0..N |-> IF n = 0 THEN g ELSE Admin!Above(chain[n - 1])]
<1> DEFINE Chain(k, chain) ==
             chain = [n \in 0..k |-> IF n = 0 THEN g ELSE Admin!Above(chain[n - 1])]
           Without == {k \in Nat : ~ \E chain : Chain(k, chain)}
<1>1. SUFFICES ASSUME Without # {} PROVE FALSE
  OBVIOUS
<1>2. PICK k \in Without : \A m \in Without : k <= m
  <2>1. Without \subseteq Nat
    OBVIOUS
  <2> HIDE DEF Without
  <2>. QED
    BY <1>1, <2>1, LeastExists
<1>3. k # 0
  <2>1. Chain(0, [n \in 0..0 |-> g])
    OBVIOUS
  <2>. QED
    BY <2>1
<1>4. k - 1 \in Nat /\ k - 1 \notin Without
  BY <1>2, <1>3
<1>5. PICK chain : Chain(k - 1, chain)
  BY <1>4
<1> DEFINE more == [n \in 0..k |-> IF n = 0 THEN g ELSE Admin!Above(chain[n - 1])]
<1>6. \A n \in 0..k - 1 : more[n] = chain[n]
  BY <1>4, <1>5
<1>7. more = [n \in 0..k |-> IF n = 0 THEN g ELSE Admin!Above(more[n - 1])]
  <2>1. \A n \in 0..k : n # 0 => n - 1 \in 0..k - 1
    BY <1>4
  <2>2. \A n \in 0..k : n # 0 => chain[n - 1] = more[n - 1]
    BY <1>6, <2>1
  <2> DEFINE other == [n \in 0..k |-> IF n = 0 THEN g ELSE Admin!Above(more[n - 1])]
  <2>3. \A n \in 0..k : more[n] = other[n]
    BY <2>2
  <2>. QED
    BY <2>3
<1>8. Chain(k, more)
  BY <1>7
<1> HIDE DEF more
<1>. QED
  BY <1>2, <1>8

LEMMA AncestorFacts ==
  ASSUME NEW g, NEW N \in Nat, N = Cardinality(Groups)
  PROVE  \E chain : /\ chain[0] = g /\ \A n \in 1..N : chain[n] = Admin!Above(chain[n - 1])
                 /\ Admin!Ancestor(g) = chain[N]
<1> DEFINE chain == CHOOSE f : f = [n \in 0..N |-> IF n = 0 THEN g ELSE Admin!Above(f[n - 1])]
<1>1. chain = [n \in 0..N |-> IF n = 0 THEN g ELSE Admin!Above(chain[n - 1])]
  BY ChainExists
<1>2. Admin!Cardinality(Groups) = N
  BY DEF Admin!Cardinality, Cardinality, Admin!IsFiniteSet, IsFiniteSet
<1>3. Admin!Ancestor(g) = chain[N]
  BY <1>2 DEF Admin!Ancestor
<1> HIDE DEF chain
<1>4. chain[0] = g /\ \A n \in 1..N : chain[n] = Admin!Above(chain[n - 1])
  BY <1>1
<1>. QED
  BY <1>3, <1>4

(* A chain that did not end would meet more groups than there are.          *)
LEMMA ChainsEnd ==
  ASSUME GroupShapes, TreeOf, NEW g \in live
  PROVE  Admin!Ancestor(g) = None
<1> DEFINE N == Cardinality(Groups)
<1>1. N \in Nat /\ IsFiniteSet(Groups)
  BY FS_CardinalityType, OperationsAssumption
<1>2. PICK chain : /\ chain[0] = g /\ \A n \in 1..N : chain[n] = Admin!Above(chain[n - 1])
                /\ Admin!Ancestor(g) = chain[N]
  BY <1>1, AncestorFacts
<1>3. PICK depth \in [Groups -> Nat] : Deepens(depth)
  BY DEF TreeOf
<1> DEFINE Rises(n) == chain[n] # None =>
             chain[n] \in live /\ \A m \in 0..n - 1 : chain[m] # None /\ depth[chain[n]] < depth[chain[m]]
           Bad == {n \in 0..N : ~Rises(n)}
<1>4. live \subseteq Groups /\ None \notin live
  BY GroupFacts DEF GroupShapes
<1>5. Bad = {}
  <2>1. SUFFICES ASSUME Bad # {} PROVE FALSE
    OBVIOUS
  <2>2. PICK n \in Bad : \A m \in Bad : n <= m
    <3>1. Bad \subseteq Nat
      OBVIOUS
    <3> HIDE DEF Bad
    <3>. QED
      BY <2>1, <3>1, LeastExists
  <2>3. n \in 0..N /\ n # 0
    BY <1>2
  <2>4. n \in 1..N /\ n - 1 \in 0..N /\ Rises(n - 1)
    BY <1>1, <2>2, <2>3
  <2>5. chain[n] # None /\ chain[n] = Admin!Above(chain[n - 1])
    BY <1>2, <2>2, <2>4
  <2>6. chain[n - 1] # None /\ chain[n] = row[chain[n - 1]].parent
    BY <2>5 DEF Admin!Above
  <2>7. chain[n - 1] \in live /\ chain[n] \in live /\ depth[chain[n]] < depth[chain[n - 1]]
    BY <1>3, <2>4, <2>5, <2>6 DEF TreeOf, Deepens
  <2>8. ASSUME NEW m \in 0..n - 1 PROVE chain[m] # None /\ depth[chain[n]] < depth[chain[m]]
    <3>1. CASE m = n - 1
      BY <2>6, <2>7, <3>1
    <3>2. CASE m # n - 1
      <4>1. m \in 0..(n - 1) - 1 /\ m \in 0..N
        BY <1>1, <2>3, <2>4, <2>8, <3>2
      <4>2. chain[m] # None /\ depth[chain[n - 1]] < depth[chain[m]]
        BY <2>4, <2>6, <4>1
      <4>3. Rises(m)
        BY <2>2, <2>3, <2>8, <4>1
      <4>4. chain[m] \in Groups /\ chain[n] \in Groups /\ chain[n - 1] \in Groups
        BY <1>4, <2>7, <4>2, <4>3
      <4>. QED
        BY <1>3, <2>7, <4>2, <4>4
    <3>. QED
      BY <3>1, <3>2
  <2>9. Rises(n)
    BY <2>7, <2>8
  <2>. QED
    BY <2>2, <2>9
<1>6. ASSUME chain[N] # None PROVE FALSE
  <2>1. \A n \in 0..N : Rises(n)
    BY <1>5
  <2>2. \A n \in 0..N : chain[n] # None
    BY <1>1, <1>6, <2>1
  <2>3. \A n \in 0..N : chain[n] \in Groups
    BY <1>4, <2>1, <2>2
  <2> DEFINE f == [n \in 0..N |-> chain[n]]
  <2>4. f \in [0..N -> Groups]
    BY <2>3
  <2>5. IsFiniteSet(0..N) /\ Cardinality(0..N) = N + 1
    BY <1>1, FS_Interval
  <2> HIDE DEF N, f
  <2>6. PICK i, j \in 0..N : i # j /\ f[i] = f[j]
    BY <1>1, <2>4, <2>5, FS_PigeonHole DEF N
  <2>7. ASSUME NEW k \in 0..N, NEW n \in 0..N, k < n PROVE chain[k] # chain[n]
    <3>1. k \in 0..n - 1 /\ depth[chain[n]] < depth[chain[k]]
      BY <1>1, <2>1, <2>2, <2>7
    <3>. QED
      BY <1>3, <2>3, <3>1
  <2>. QED
    BY <1>1, <2>6, <2>7 DEF f
<1>. QED
  BY <1>2, <1>6

(* Administrators who edit groups one after the other keep a tree below the *)
(* public group: UserGroup.clean refuses a parent that is the group or a    *)
(* descendant of it, so that following the parents ends, and compares the   *)
(* email patterns with those of the parent and the children; no other group *)
(* becomes a root.  Overlapping edits, an outdated public group and deleted *)
(* parents are the exceptions, for any groups, patterns and edits.         *)
THEOREM TreesStaySound == Spec => []TreeSound
<1>1. ASSUME GroupInv PROVE TreeSound
  <2>1. Admin!ParentChainsEnd
    BY <1>1, ChainsEnd DEF Admin!ParentChainsEnd, GroupInv
  <2>2. Admin!GroupsFitTheirParents
    BY <1>1 DEF Admin!GroupsFitTheirParents, GroupInv, TreeOf
  <2>3. Admin!OneRoot
    BY <1>1 DEF Admin!OneRoot, GroupInv, Roots
  <2>4. Admin!TypeOK
    <3>1. \A g \in live : row[g].parent \in Groups \cup {None} /\ row[g].users # {}
      BY <1>1 DEF GroupInv, GroupShapes, GroupRow
    <3>2. \A e \in Editors :
            edit[e].pc \in {"idle", "clean", "climb", "children", "compare", "write"}
      BY <1>1, GroupFacts DEF GroupInv, GroupShapes, PostedEdits
    <3>. QED
      BY <1>1, <3>1, <3>2 DEF Admin!TypeOK, GroupInv, GroupShapes
  <2>. QED
    BY <2>1, <2>2, <2>3, <2>4 DEF TreeSound
<1>. QED
  BY <1>1, GroupsHold, PTL

-----------------------------------------------------------------------------
(***************************************************************************)
(* The traffic statistics, of one cluster and of two.  What TrafficDataProofs *)
(* proves for any constants holds of both: its definitions are those of     *)
(* TrafficData, with the same constants.                                    *)
(***************************************************************************)
TrafficFacts == INSTANCE TrafficDataProofs WITH Clusters <- {t1}, MaxRuns <- 1,
  MaxRequests <- 3, Others <- {2}, MaxInterval <- 2, MaxFaults <- MaxTrafficFaults
MergedFacts == INSTANCE TrafficDataProofs WITH Clusters <- {t1, t2}, MaxRequests <- 2, Others <- {},
  MaxInterval <- 1, MaxFaults <- MaxTrafficFaults

LEMMA TrafficSame ==
  /\ TrafficFacts!TrafficConstants <=> Traffic!TrafficConstants
  /\ Traffic!Init => TrafficFacts!Init
  /\ Traffic!Next => TrafficFacts!Next
  /\ TrafficFacts!CountedOnce /\ TrafficFacts!CountedInItsInterval /\ TrafficFacts!TypeOK =>
       Traffic!CountedOnce /\ Traffic!CountedInItsInterval /\ Traffic!TypeOK
  /\ TrafficFacts!ReportsAddUp => Traffic!ReportsAddUp
BY DEF Traffic!Ids, Traffic!Intervals, Traffic!Runs, Traffic!Days, Traffic!Reports, Traffic!Row,
  Traffic!TrafficConstants, Traffic!logging, Traffic!history, Traffic!vars, Traffic!NoJob,
  Traffic!Nothing, Traffic!NoReport, Traffic!Unloaded, Traffic!NoRun, Traffic!Init,
  Traffic!InProgress, Traffic!Tick, Traffic!Begin, Traffic!Log, Traffic!RollOver,
  Traffic!Pushed, Traffic!Push, Traffic!PushFails, Traffic!JobAt, Traffic!Saving,
  Traffic!ReadList, Traffic!Trimmed, Traffic!Trim, Traffic!ListedIn, Traffic!IntervalsOf, Traffic!HasRow, Traffic!RowsOf,
  Traffic!Listed, Traffic!Rowless, Traffic!Sso, Traffic!Overtaken,
  Traffic!CommitRows, Traffic!SaveFails, Traffic!Active, Traffic!StartRun, Traffic!SaveCluster,
  Traffic!Saved, Traffic!CallFails, Traffic!Populate, Traffic!NewRows, Traffic!ReadRows,
  Traffic!KeysOf, Traffic!InMemory, Traffic!Plus, Traffic!Added, Traffic!FirstBatch,
  Traffic!AddRow, Traffic!CommitBatch, Traffic!CommitFails, Traffic!NextCluster, Traffic!Next,
  Traffic!TypeOK, Traffic!Places, Traffic!CountedOnce, Traffic!CountedInItsInterval,
  Traffic!ReportedRows, Traffic!ReportsAddUp, Traffic!IsFiniteSet, Traffic!Cardinality,
  TrafficFacts!Ids, TrafficFacts!Intervals, TrafficFacts!Runs, TrafficFacts!Days,
  TrafficFacts!Reports, TrafficFacts!Row, TrafficFacts!TrafficConstants, TrafficFacts!logging,
  TrafficFacts!history, TrafficFacts!vars, TrafficFacts!NoJob, TrafficFacts!Nothing,
  TrafficFacts!NoReport, TrafficFacts!Unloaded, TrafficFacts!NoRun, TrafficFacts!Init,
  TrafficFacts!InProgress, TrafficFacts!Tick, TrafficFacts!Begin, TrafficFacts!Log,
  TrafficFacts!RollOver, TrafficFacts!Pushed, TrafficFacts!Push, TrafficFacts!PushFails,
  TrafficFacts!JobAt, TrafficFacts!Saving, TrafficFacts!ReadList, TrafficFacts!Trimmed,
  TrafficFacts!Trim, TrafficFacts!ListedIn, TrafficFacts!IntervalsOf, TrafficFacts!HasRow, TrafficFacts!RowsOf,
  TrafficFacts!Listed, TrafficFacts!Rowless, TrafficFacts!Sso, TrafficFacts!Overtaken, TrafficFacts!CommitRows,
  TrafficFacts!SaveFails, TrafficFacts!Active, TrafficFacts!StartRun, TrafficFacts!SaveCluster,
  TrafficFacts!Saved, TrafficFacts!CallFails, TrafficFacts!Populate, TrafficFacts!NewRows,
  TrafficFacts!ReadRows, TrafficFacts!KeysOf, TrafficFacts!InMemory, TrafficFacts!Plus,
  TrafficFacts!Added, TrafficFacts!FirstBatch, TrafficFacts!AddRow, TrafficFacts!CommitBatch,
  TrafficFacts!CommitFails, TrafficFacts!NextCluster, TrafficFacts!Next, TrafficFacts!TypeOK,
  TrafficFacts!Places, TrafficFacts!CountedOnce, TrafficFacts!CountedInItsInterval,
  TrafficFacts!ReportedRows, TrafficFacts!ReportsAddUp, TrafficFacts!IsFiniteSet,
  TrafficFacts!Cardinality

LEMMA MergedSame ==
  /\ MergedFacts!TrafficConstants <=> Merged!TrafficConstants
  /\ Merged!Init => MergedFacts!Init
  /\ Merged!Next => MergedFacts!Next
  /\ MergedFacts!CountedOnce /\ MergedFacts!CountedInItsInterval /\ MergedFacts!TypeOK =>
       Merged!CountedOnce /\ Merged!CountedInItsInterval /\ Merged!TypeOK
  /\ MergedFacts!ReportsAddUp => Merged!ReportsAddUp
BY DEF Merged!Ids, Merged!Intervals, Merged!Runs, Merged!Days, Merged!Reports, Merged!Row,
  Merged!TrafficConstants, Merged!logging, Merged!history, Merged!vars, Merged!NoJob,
  Merged!Nothing, Merged!NoReport, Merged!Unloaded, Merged!NoRun, Merged!Init,
  Merged!InProgress, Merged!Tick, Merged!Begin, Merged!Log, Merged!RollOver, Merged!Pushed,
  Merged!Push, Merged!PushFails, Merged!JobAt, Merged!Saving, Merged!ReadList, Merged!Trimmed,
  Merged!Trim, Merged!ListedIn, Merged!IntervalsOf, Merged!HasRow, Merged!RowsOf,
  Merged!Listed, Merged!Rowless, Merged!Sso, Merged!Overtaken, Merged!CommitRows, Merged!SaveFails,
  Merged!Active, Merged!StartRun, Merged!SaveCluster, Merged!Saved, Merged!CallFails,
  Merged!Populate, Merged!NewRows, Merged!ReadRows, Merged!KeysOf, Merged!InMemory, Merged!Plus,
  Merged!Added, Merged!FirstBatch, Merged!AddRow, Merged!CommitBatch, Merged!CommitFails,
  Merged!NextCluster, Merged!Next, Merged!TypeOK, Merged!Places, Merged!CountedOnce,
  Merged!CountedInItsInterval, Merged!ReportedRows, Merged!ReportsAddUp, Merged!IsFiniteSet,
  Merged!Cardinality, MergedFacts!Ids, MergedFacts!Intervals, MergedFacts!Runs,
  MergedFacts!Days, MergedFacts!Reports, MergedFacts!Row, MergedFacts!TrafficConstants,
  MergedFacts!logging, MergedFacts!history, MergedFacts!vars, MergedFacts!NoJob,
  MergedFacts!Nothing, MergedFacts!NoReport, MergedFacts!Unloaded, MergedFacts!NoRun,
  MergedFacts!Init, MergedFacts!InProgress, MergedFacts!Tick, MergedFacts!Begin,
  MergedFacts!Log, MergedFacts!RollOver, MergedFacts!Pushed, MergedFacts!Push,
  MergedFacts!PushFails, MergedFacts!JobAt, MergedFacts!Saving, MergedFacts!ReadList,
  MergedFacts!Trimmed, MergedFacts!Trim, MergedFacts!ListedIn, MergedFacts!IntervalsOf, MergedFacts!HasRow, MergedFacts!RowsOf,
  MergedFacts!Listed, MergedFacts!Rowless, MergedFacts!Sso, MergedFacts!Overtaken,
  MergedFacts!CommitRows, MergedFacts!SaveFails, MergedFacts!Active, MergedFacts!StartRun,
  MergedFacts!SaveCluster, MergedFacts!Saved, MergedFacts!CallFails, MergedFacts!Populate,
  MergedFacts!NewRows, MergedFacts!ReadRows, MergedFacts!KeysOf, MergedFacts!InMemory,
  MergedFacts!Plus, MergedFacts!Added, MergedFacts!FirstBatch, MergedFacts!AddRow,
  MergedFacts!CommitBatch, MergedFacts!CommitFails, MergedFacts!NextCluster, MergedFacts!Next,
  MergedFacts!TypeOK, MergedFacts!Places, MergedFacts!CountedOnce,
  MergedFacts!CountedInItsInterval, MergedFacts!ReportedRows, MergedFacts!ReportsAddUp,
  MergedFacts!IsFiniteSet, MergedFacts!Cardinality

LEMMA StepOfTraffic ==
  ASSUME [Next]_unionVars
  PROVE  /\ which' = which
         /\ which = "traffic" => Traffic!Next \/ UNCHANGED trafficVars
         /\ which = "merged traffic" => Merged!Next \/ UNCHANGED trafficVars
BY DEF Next, unionVars

TrafficInv ==
  /\ which = "traffic" => TrafficFacts!CountInv /\ TrafficFacts!ReportsInv
  /\ which = "merged traffic" => MergedFacts!CountInv /\ MergedFacts!ReportsInv

LEMMA TrafficHolds == Spec => []TrafficInv
<1>1. TrafficFacts!TrafficConstants /\ MergedFacts!TrafficConstants
  BY TrafficAssumption, TrafficSame, MergedSame
<1>2. Init => TrafficInv
  <2>1. Init => /\ which = "traffic" => Traffic!Init
                /\ which = "merged traffic" => Merged!Init
    BY DEF Init
  <2>. QED
    BY <1>1, <2>1, TrafficSame, MergedSame, TrafficFacts!TrafficBegins, MergedFacts!TrafficBegins
       DEF TrafficInv
<1>3. TrafficInv /\ [Next]_unionVars => TrafficInv'
  <2>1. SUFFICES ASSUME TrafficInv, [Next]_unionVars PROVE TrafficInv'
    OBVIOUS
  <2>2. ASSUME which = "traffic" PROVE TrafficFacts!CountInv' /\ TrafficFacts!ReportsInv'
    <3>1. Traffic!Next \/ UNCHANGED trafficVars
      BY <2>1, <2>2, StepOfTraffic
    <3>2. [TrafficFacts!Next]_(TrafficFacts!vars)
      BY <3>1, TrafficSame DEF trafficVars, TrafficFacts!vars, TrafficFacts!logging, TrafficFacts!history
    <3>. QED
      BY <1>1, <2>1, <2>2, <3>2, TrafficFacts!TrafficGoesOn DEF TrafficInv
  <2>3. ASSUME which = "merged traffic" PROVE MergedFacts!CountInv' /\ MergedFacts!ReportsInv'
    <3>1. Merged!Next \/ UNCHANGED trafficVars
      BY <2>1, <2>3, StepOfTraffic
    <3>2. [MergedFacts!Next]_(MergedFacts!vars)
      BY <3>1, MergedSame DEF trafficVars, MergedFacts!vars, MergedFacts!logging, MergedFacts!history
    <3>. QED
      BY <1>1, <2>1, <2>3, <3>2, MergedFacts!TrafficGoesOn DEF TrafficInv
  <2>. QED
    BY <2>1, <2>2, <2>3, StepOfTraffic DEF TrafficInv
<1>. QED
  BY <1>2, <1>3, PTL DEF Spec

(* Each logged request is counted in exactly one place on its way from the  *)
(* worker into the database, and in the interval it started in if it was    *)
(* alone, unless a fault took it, two saves of its list overlapped, or it   *)
(* is not of the kinds that make a row and its interval made none           *)
(* (cache.py and '_save_trafficdata' of monitorviews.py).                   *)
THEOREM TrafficCountedOnce == Spec => []CountedOnce
<1>1. TrafficInv => CountedOnce
  BY TrafficAssumption, TrafficSame, MergedSame, TrafficFacts!TrafficSafe, MergedFacts!TrafficSafe
     DEF TrafficInv, CountedOnce
<1>. QED
  BY <1>1, TrafficHolds, PTL

(* The reports add up the rows of the processed batches, each once, as long *)
(* as no two runs of the command overlap, whatever fails                    *)
(* ('_populate_reports' of trafficdata.py).                                 *)
THEOREM TrafficReportsAddUp == Spec => []ReportsAddUp
<1>1. TrafficInv => ReportsAddUp
  BY TrafficAssumption, TrafficSame, MergedSame, TrafficFacts!TrafficSafe, MergedFacts!TrafficSafe
     DEF TrafficInv, ReportsAddUp
<1>. QED
  BY <1>1, TrafficHolds, PTL

=============================================================================
