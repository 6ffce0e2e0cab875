------------------------------- MODULE Health -------------------------------
(***************************************************************************)
(* Health checks (views/monitorviews.py): the ping that decides whether a   *)
(* cluster gets traffic, the health check and the status page that ask      *)
(* every cluster, and the loss of the database or of Redis in between.      *)
(*                                                                         *)
(* All clusters use one database; each has its own Redis servers.           *)
(***************************************************************************)
EXTENDS Naturals, FiniteSets

CONSTANTS
  Clusters,
  None,
  BeatsOnPing,   \* no AUTH2_MONITORING_DIR: a ping updates last_heartbeat
  MaxOutages,    \* bound: losses of the database, of Redis or of a model cache
  MaxDeletes,    \* bound: rows of Auth2Cluster deleted by an administrator
  MaxChecks      \* bound: health checks and status pages

VARIABLES
  database,      \* the database answers
  redis,         \* cluster -> its Redis servers answer
  models,        \* cluster -> its model caches are filled (cache.healthy)
  connected,     \* cluster -> its worker holds a connection to the database
  rows,          \* the clusters with a row in Auth2Cluster
  known,         \* cluster -> the others it has in memory
  lone,          \* history: cluster -> its last refresh found no other row
  code,          \* cluster -> what its last ping answered
  check,         \* the health check or status page in progress
  report,        \* the answer of the last one
  asked,         \* history: the clusters it is about
  worked,        \* history: the clusters that worked at some time during it
  outages, deletes, checks

vars == <<database, redis, models, connected, rows, known, lone, code, check, report,
          asked, worked, outages, deletes, checks>>

Codes == {200, 299, 500, 503}
NoCheck == [kind |-> None, at |-> None, todo |-> {}, working |-> FALSE]

Init ==
  /\ database = TRUE /\ redis = [c \in Clusters |-> TRUE] /\ models = [c \in Clusters |-> TRUE]
  /\ connected = [c \in Clusters |-> TRUE]
  /\ rows = Clusters /\ known = [c \in Clusters |-> Clusters \ {c}]
  /\ lone = [c \in Clusters |-> Cardinality(Clusters) = 1]
  /\ code = [c \in Clusters |-> 200]
  /\ check = NoCheck /\ report = None /\ asked = {} /\ worked = {}
  /\ outages = 0 /\ deletes = 0 /\ checks = 0

-----------------------------------------------------------------------------
Servers == <<database, redis, models, outages>>
Table == <<rows, known, lone, deletes>>
Checking == <<check, report, asked, checks>>

(* ping_database opens a cursor outside its try: without a connection the   *)
(* error of a database that is down is not caught.                         *)
PingRaises(c) == ~ database /\ ~ connected[c]

(* _check_localhealth                                                      *)
AllPing(c) == database /\ redis[c]
Working(c) == AllPing(c) \/ known[c] = {}

(* After an error the connection is closed at the end of the request.      *)
Reconnect(c) == connected' = [connected EXCEPT ![c] = database]

WorkedNow == worked' = worked \cup {c \in Clusters : Working(c)'}

(* ping, called by Kubernetes.                                             *)
PingCode(c) ==
  IF PingRaises(c) THEN 500
  ELSE IF ~ Working(c) THEN 503
  ELSE IF BeatsOnPing /\ ~ database THEN 500
  ELSE IF AllPing(c) THEN 200 ELSE 299

Ping(c) ==
  /\ code' = [code EXCEPT ![c] = PingCode(c)]
  /\ Reconnect(c)
  /\ rows' = IF BeatsOnPing /\ PingCode(c) \in {200, 299} THEN rows \cup {c} ELSE rows
  /\ UNCHANGED <<known, lone, deletes, worked>> /\ UNCHANGED <<Servers, Checking>>

(***************************************************************************)
(* healthcheck and status ask the clusters one after the other, themselves  *)
(* in place.                                                               *)
(***************************************************************************)
StartCheck(kind, c) ==
  /\ check = NoCheck /\ checks < MaxChecks
  /\ checks' = checks + 1
  /\ IF database
     THEN /\ check' = [kind |-> kind, at |-> c, todo |-> rows, working |-> kind = "status"]
          /\ asked' = rows /\ worked' = {d \in Clusters : Working(d)}
          /\ report' = None
     ELSE report' = "error" /\ UNCHANGED <<check, asked, worked>> \* the rows can't be read
  /\ Reconnect(c)
  /\ UNCHANGED code /\ UNCHANGED <<Servers, Table>>

(* A cluster in the table that the worker does not know can't be asked.    *)
Reached(c) == c = check.at \/ c \in known[check.at]

HealthOfAnyone(c) ==
  /\ check.kind = "health" /\ c \in check.todo
  /\ IF c = check.at /\ PingRaises(c)
     THEN report' = "error" /\ check' = NoCheck
     ELSE /\ check' = [check EXCEPT !.todo = @ \ {c},
                         !.working = @ \/ Reached(c)]
          /\ UNCHANGED report
  /\ Reconnect(c)
  /\ UNCHANGED <<code, checks, asked, worked>> /\ UNCHANGED <<Servers, Table>>

(* cluster_healthcheck: a cluster that can't be asked does not work.       *)
HealthOf(c) ==
  /\ check.kind = "health" /\ c \in check.todo
  /\ IF c = check.at /\ PingRaises(c)
     THEN report' = "error" /\ check' = NoCheck
     ELSE /\ check' = [check EXCEPT !.todo = @ \ {c},
                         !.working = @ \/ (~ PingRaises(c) /\ Working(c) /\ Reached(c))]
          /\ UNCHANGED report
  /\ Reconnect(c)
  /\ UNCHANGED <<code, checks, asked, worked>> /\ UNCHANGED <<Servers, Table>>

(* The model caches are filled, and within their sizes (cache.healthy); the *)
(* Redis servers answer (server_status).                                    *)
Healthy(c) == models[c]
RedisOk(c) == redis[c]

(* _get_localstatus: errors of the database and of the model caches are     *)
(* collected in variables that do not exist.                               *)
StatusRaises(c) == ~ database \/ ~ Healthy(c)

(* get_cluster_status answers "unhealthy" if the cluster fails.            *)
StatusOf(c) ==
  /\ check.kind = "status" /\ c \in check.todo
  /\ IF c = check.at /\ StatusRaises(c)
     THEN report' = "error" /\ check' = NoCheck
     ELSE /\ check' = [check EXCEPT !.todo = @ \ {c},
                         !.working = @ /\ ~ StatusRaises(c) /\ RedisOk(c) /\ Reached(c)]
          /\ UNCHANGED report
  /\ Reconnect(c)
  /\ UNCHANGED <<code, checks, asked, worked>> /\ UNCHANGED <<Servers, Table>>

EndCheck ==
  /\ check # NoCheck /\ check.todo = {}
  /\ report' = IF check.working THEN check.kind ELSE "failing"
  /\ check' = NoCheck
  /\ UNCHANGED <<code, connected, asked, worked, checks>> /\ UNCHANGED <<Servers, Table>>

-----------------------------------------------------------------------------
(* The servers come and go; the report of a check says something of the     *)
(* time of the check only.                                                 *)
Outage ==
  /\ outages < MaxOutages
  /\ outages' = outages + 1
  /\ \/ database' = FALSE /\ UNCHANGED <<redis, models>>
     \/ \E c \in Clusters : redis' = [redis EXCEPT ![c] = FALSE] /\ UNCHANGED <<database, models>>
     \/ \E c \in Clusters : models' = [models EXCEPT ![c] = FALSE] /\ UNCHANGED <<database, redis>>
  /\ UNCHANGED <<connected, code, worked>> /\ UNCHANGED <<Table, Checking>>

Recovery ==
  /\ \/ ~ database /\ database' = TRUE /\ UNCHANGED <<redis, models>>
     \/ \E c \in Clusters : /\ ~ redis[c] /\ redis' = [redis EXCEPT ![c] = TRUE]
                            /\ UNCHANGED <<database, models>>
     \/ \E c \in Clusters : /\ ~ models[c] /\ models' = [models EXCEPT ![c] = TRUE]
                            /\ UNCHANGED <<database, redis>>
  /\ UNCHANGED <<connected, code, outages>> /\ UNCHANGED <<Table, Checking>>
  /\ WorkedNow

DeleteRow(c) ==
  /\ c \in rows /\ database /\ deletes < MaxDeletes
  /\ rows' = rows \ {c} /\ deletes' = deletes + 1
  /\ UNCHANGED <<known, lone, connected, code, worked>> /\ UNCHANGED <<Servers, Checking>>

RefreshOnlyAdds(c) ==
  /\ database
  /\ known' = [known EXCEPT ![c] = @ \cup (rows \ {c})]
  /\ lone' = [lone EXCEPT ![c] = rows \ {c} = {}]
  /\ UNCHANGED <<rows, deletes, connected, code>> /\ UNCHANGED <<Servers, Checking>>
  /\ WorkedNow

(* refresh_auth2_clusters: rows are added, and those not met are removed.  *)
Refresh(c) ==
  /\ database
  /\ known' = [known EXCEPT ![c] = rows \ {c}]
  /\ lone' = [lone EXCEPT ![c] = rows \ {c} = {}]
  /\ UNCHANGED <<rows, deletes, connected, code>> /\ UNCHANGED <<Servers, Checking>>
  /\ WorkedNow

Next ==
  \/ \E c \in Clusters :
       \/ Ping(c) \/ HealthOf(c) \/ StatusOf(c) \/ DeleteRow(c) \/ Refresh(c)
       \/ StartCheck("health", c) \/ StartCheck("status", c)
  \/ EndCheck \/ Outage \/ Recovery

Spec == Init /\ [][Next]_vars

-----------------------------------------------------------------------------
TypeOK ==
  /\ \A c \in Clusters : code[c] \in Codes /\ c \notin known[c]
  /\ report \in {None, "health", "status", "failing", "error"}

(***************************************************************************)
(* A ping takes a cluster out of service (503) only while there is another  *)
(* one to take over: a cluster whose last refresh found no other row stays  *)
(* in service although its Redis servers fail.                             *)
(***************************************************************************)
LoneStaysInService ==
  [][\A c \in Clusters : code'[c] = 503 /\ code[c] # 503 => ~ lone[c]]_vars

(***************************************************************************)
(* A health check that says the service works is about a cluster that       *)
(* worked while the check was running, or that knew of no other; a status   *)
(* page that shows no error is about clusters that all worked.              *)
(***************************************************************************)
ReportsWorked ==
  /\ report = "health" => worked # {}
  /\ report = "status" => asked \subseteq worked

=============================================================================
