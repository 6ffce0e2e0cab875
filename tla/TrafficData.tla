------------------------------ MODULE TrafficData ------------------------------
(***************************************************************************)
(* Traffic statistics: a worker counts its requests in memory by interval,  *)
(* pushes the counts of an interval to a list in the Redis of its cluster   *)
(* when the first request of a later interval is logged (cache.py), and a   *)
(* scheduled command moves the lists of all clusters to the database and    *)
(* adds them to the reports (trafficdata.py, monitorviews.py).              *)
(*                                                                         *)
(* A request is a number; a count is the set of the requests it counts, and *)
(* in a report how often each is counted.  Requests are of the four kinds    *)
(* that a row's own columns add up ("auth" and its variants) or Others, such *)
(* as auth_captcha, that are counted beside them; Redis, database and remote *)
(* session calls are not monitored here.  Interval i lies in the day       *)
(* i \div PerDay and in the one week of the model.  A cooperative worker    *)
(* (gevent, eventlet) has several requests in progress; the push to Redis   *)
(* is where it switches.                                                   *)
(***************************************************************************)
EXTENDS Integers, Sequences, FiniteSets

CONSTANTS
  Clusters,
  None,
  Total,         \* the reports of all clusters together, "AUTH2" in the code
  PerDay,        \* intervals in a day
  Others,        \* the requests that are not of sso_requests_keys
  MaxRequests,   \* bound: requests logged
  MaxInterval,   \* bound: the last interval
  MaxRuns,       \* bound: runs of the command
  MaxFaults      \* bound: pushes, saves and calls that fail

Ids       == 1..MaxRequests
Intervals == 0..MaxInterval
Runs      == 1..MaxRuns

(* A report's type and period, for one cluster or for all of them.          *)
Days    == {i \div PerDay : i \in Intervals}
Reports == [scope : Clusters \cup {Total}, type : {"daily"}, period : Days]
             \cup [scope : Clusters \cup {Total}, type : {"weekly"}, period : {0}]

Row == [cluster : Clusters, interval : Intervals, batch : Runs, counted : SUBSET Ids]

(* sso_requests of a row                                                   *)
Sso(row) == row.counted \ Others

(* What the theorems assume of the constants.                              *)
TrafficConstants ==
  MaxRequests \in Nat /\ MaxInterval \in Nat /\ MaxRuns \in Nat /\ None \notin Row

VARIABLES
  interval,     \* the current interval
  request,      \* the requests, with the worker's cluster and their start
  worker,       \* the worker of each cluster: its interval and its counts
  queue,        \* the list of each cluster
  rows,         \* TrafficData
  processed,    \* last_processed_batchid of each cluster
  report,       \* TrafficReport: the requests that are in requests and status
  job,          \* _save_trafficdata of a run in a cluster
  run,          \* the runs of the command, by their batch ids
  shortfalls,   \* counter of faults
  dropped,      \* history: requests that a fault took away
  skipped,      \* history: requests of intervals that made no row
  together,     \* history: requests in progress at the same time in a worker
  raced,        \* history: clusters in which two saves overlapped
  belated,      \* history: rows a later batch overtook, until a run reads them
  overlapped,   \* history: two runs were in progress at once
  shared        \* history: a run began two reports with the same row

logging == <<interval, request, worker>>
history == <<dropped, skipped, together, raced, belated, overlapped, shared>>
vars    == <<logging, queue, rows, processed, report, job, run, shortfalls, history>>

NoJob == [pc |-> "none", read |-> <<>>]

(* A count of the requests, and a report: its columns requests and status.  *)
Nothing  == [i \in Ids |-> 0]
NoReport == [requests |-> Nothing, status |-> Nothing]

(* A report of the process in memory, with the row whose dictionary is its  *)
(* status, if it is one of a row.                                           *)
Unloaded == [data |-> NoReport, loaded |-> FALSE, changed |-> FALSE, of |-> None]

NoRun == [pc |-> "none", todo |-> {}, new |-> {}, cluster |-> None, batch |-> 0,
          memory |-> [k \in Reports |-> Unloaded]]

Init ==
  /\ interval = 0
  /\ request = [i \in Ids |-> [pc |-> "none", at |-> None, start |-> 0, data |-> None]]
  /\ worker = [c \in Clusters |-> [interval |-> 0, counted |-> {}]]
  /\ queue = [c \in Clusters |-> <<>>]
  /\ rows = {}
  /\ processed = [c \in Clusters |-> 0]
  /\ report = [k \in Reports |-> NoReport]
  /\ job = [rc \in Runs \X Clusters |-> NoJob]
  /\ run = [r \in Runs |-> NoRun]
  /\ shortfalls = 0
  /\ dropped = {} /\ skipped = {} /\ together = {} /\ raced = {} /\ belated = {}
  /\ overlapped = FALSE /\ shared = FALSE

InProgress(c) == {i \in Ids : request[i].at = c /\ request[i].pc \in {"running", "push"}}

-----------------------------------------------------------------------------
(* Logging.                                                                 *)
Tick ==
  /\ interval < MaxInterval
  /\ interval' = interval + 1
  /\ UNCHANGED <<request, worker, queue, rows, processed, report, job, run, shortfalls, history>>

(* Requests get their numbers in the order they start.                     *)
Begin(i, c) ==
  /\ request[i].pc = "none" /\ \A j \in Ids : j < i => request[j].pc # "none"
  /\ request' = [request EXCEPT ![i] = [pc |-> "running", at |-> c, start |-> interval,
                                        data |-> None]]
  /\ together' = IF InProgress(c) = {} THEN together
                 ELSE together \cup InProgress(c) \cup {i}
  /\ UNCHANGED <<interval, worker, queue, rows, processed, report, job, run, shortfalls,
                 dropped, skipped, raced, belated, overlapped, shared>>

(* A request of the worker's interval, or of one before, is added to it.    *)
Log(i) ==
  LET c == request[i].at IN
  /\ request[i].pc = "running" /\ request[i].start <= worker[c].interval
  /\ worker' = [worker EXCEPT ![c].counted = @ \cup {i}]
  /\ request' = [request EXCEPT ![i].pc = "logged"]
  /\ UNCHANGED <<interval, queue, rows, processed, report, job, run, shortfalls, history>>

(* The counts are taken and cleaned before they are pushed.                 *)
RollOver(i) ==
  LET c == request[i].at IN
  /\ request[i].pc = "running" /\ request[i].start > worker[c].interval
  /\ request' = [request EXCEPT ![i].pc = "push", ![i].data = worker[c]]
  /\ worker' = [worker EXCEPT ![c].counted = {}]
  /\ UNCHANGED <<interval, queue, rows, processed, report, job, run, shortfalls, history>>

PushedKeepsInterval(i) ==
  LET c == request[i].at IN
  /\ worker' = [worker EXCEPT ![c] = [@ EXCEPT !.counted = @ \cup {i}]]
  /\ request' = [request EXCEPT ![i].pc = "logged", ![i].data = None]
  /\ UNCHANGED <<interval, rows, processed, report, job, run, skipped,
                 together, raced, belated, overlapped, shared>>

(* After the push the worker is in the interval of the request that pushed, *)
(* whatever interval another request has taken it to.                       *)
Pushed(i) ==
  LET c == request[i].at IN
  /\ worker' = [worker EXCEPT ![c] = [interval |-> request[i].start,
                                      counted |-> @.counted \cup {i}]]
  /\ request' = [request EXCEPT ![i].pc = "logged", ![i].data = None]
  /\ UNCHANGED <<interval, rows, processed, report, job, run, skipped,
                 together, raced, belated, overlapped, shared>>

Push(i) ==
  /\ request[i].pc = "push"
  /\ queue' = IF request[i].data.counted = {} THEN queue
              ELSE [queue EXCEPT ![request[i].at] = Append(@, request[i].data)]
  /\ Pushed(i)
  /\ UNCHANGED <<shortfalls, dropped>>

PushFails(i) ==
  /\ request[i].pc = "push" /\ shortfalls < MaxFaults
  /\ shortfalls' = shortfalls + 1
  /\ dropped' = dropped \cup request[i].data.counted
  /\ Pushed(i)
  /\ UNCHANGED queue

-----------------------------------------------------------------------------
(* Saving the list of a cluster, in a transaction.                          *)
JobAt(r, c, pc) == job[<<r, c>>].pc = pc

Saving(c) == {r \in Runs : job[<<r, c>>].pc \in {"trim", "commit"}}

ReadList(r, c) ==
  /\ JobAt(r, c, "read")
  /\ job' = [job EXCEPT ![<<r, c>>] = IF queue[c] = <<>> THEN [NoJob EXCEPT !.pc = "done"]
                                  ELSE [pc |-> "trim", read |-> queue[c]]]
  /\ raced' = IF Saving(c) = {} THEN raced ELSE raced \cup {c}
  /\ UNCHANGED <<logging, queue, rows, processed, report, run, shortfalls,
                 dropped, skipped, together, belated, overlapped, shared>>

(* ltrim(key, datalength, -1)                                              *)
Trimmed(c, n) == SubSeq(queue[c], n + 1, Len(queue[c]))

Trim(r, c) ==
  /\ JobAt(r, c, "trim")
  /\ queue' = [queue EXCEPT ![c] = Trimmed(c, Len(job[<<r, c>>].read))]
  /\ job' = [job EXCEPT ![<<r, c>>].pc = "commit"]
  /\ UNCHANGED <<logging, rows, processed, report, run, shortfalls, history>>

ListedIn(r, c, n) ==
  LET read == job[<<r, c>>].read
  IN UNION {read[e].counted : e \in {e \in DOMAIN read : read[e].interval = n}}

IntervalsOf(r, c) == {job[<<r, c>>].read[e].interval : e \in DOMAIN job[<<r, c>>].read}

(* A row for each interval of the list with requests of sso_requests_keys;  *)
(* the other intervals are trimmed like these and make none.                *)
HasRow(r, c, n) == ~ ListedIn(r, c, n) \subseteq Others

RowsOf(r, c) ==
  {[cluster |-> c, interval |-> n, batch |-> r, counted |-> ListedIn(r, c, n)] :
     n \in {n \in IntervalsOf(r, c) : HasRow(r, c, n)}}

Listed(r, c) == UNION {ListedIn(r, c, n) : n \in IntervalsOf(r, c)}

Rowless(r, c) == UNION {ListedIn(r, c, n) : n \in {n \in IntervalsOf(r, c) : ~ HasRow(r, c, n)}}

(* A later batch of the cluster is in the reports, or is being added.       *)
Overtaken(r, c) ==
  \/ r <= processed[c]
  \/ \E q \in Runs : /\ run[q].pc = "batch" /\ run[q].cluster = c
                     /\ r < run[q].batch \/ \E row \in run[q].new : r < row.batch

CommitRows(r, c) ==
  /\ JobAt(r, c, "commit")
  /\ rows' = rows \cup RowsOf(r, c)
  /\ skipped' = skipped \cup Rowless(r, c)
  /\ belated' = IF Overtaken(r, c) THEN belated \cup RowsOf(r, c) ELSE belated
  /\ job' = [job EXCEPT ![<<r, c>>] = [NoJob EXCEPT !.pc = "done"]]
  /\ UNCHANGED <<logging, queue, processed, report, run, shortfalls,
                 dropped, together, raced, overlapped, shared>>

(* The transaction fails: what was trimmed by then is nowhere.             *)
SaveFails(r, c) ==
  /\ job[<<r, c>>].pc \in {"trim", "commit"} /\ shortfalls < MaxFaults
  /\ shortfalls' = shortfalls + 1
  /\ dropped' = IF JobAt(r, c, "trim") THEN dropped
                ELSE dropped \cup Listed(r, c)
  /\ job' = [job EXCEPT ![<<r, c>>] = [NoJob EXCEPT !.pc = "done"]]
  /\ UNCHANGED <<logging, queue, rows, processed, report, run, skipped,
                 together, raced, belated, overlapped, shared>>

-----------------------------------------------------------------------------
(* The command save2db.                                                     *)
Active == {r \in Runs : run[r].pc \notin {"none", "done"}}

(* Each run has a later batch id than those before.                        *)
StartRun(r) ==
  /\ run[r].pc = "none" /\ \A q \in Runs : q < r => run[q].pc # "none"
  /\ run' = [run EXCEPT ![r] = [NoRun EXCEPT !.pc = "save", !.todo = Clusters]]
  /\ overlapped' = (overlapped \/ Active # {})
  /\ UNCHANGED <<logging, queue, rows, processed, report, job, shortfalls,
                 dropped, skipped, together, raced, belated, shared>>

(* The own list, or a call to another cluster.                             *)
SaveCluster(r, c) ==
  /\ run[r].pc = "save" /\ c \in run[r].todo /\ JobAt(r, c, "none")
  /\ \A d \in Clusters : job[<<r, d>>].pc # "none" => d \notin run[r].todo
  /\ job' = [job EXCEPT ![<<r, c>>].pc = "read"]
  /\ UNCHANGED <<logging, queue, rows, processed, report, run, shortfalls, history>>

Saved(r, c) ==
  /\ run[r].pc = "save" /\ c \in run[r].todo /\ JobAt(r, c, "done")
  /\ run' = [run EXCEPT ![r].todo = @ \ {c}]
  /\ UNCHANGED <<logging, queue, rows, processed, report, job, shortfalls, history>>

(* The call times out; what it asked for goes on.                          *)
CallFails(r, c) ==
  /\ run[r].pc = "save" /\ c \in run[r].todo /\ job[<<r, c>>].pc \notin {"none", "done"}
  /\ shortfalls < MaxFaults
  /\ shortfalls' = shortfalls + 1
  /\ run' = [run EXCEPT ![r].todo = @ \ {c}]
  /\ UNCHANGED <<logging, queue, rows, processed, report, job, history>>

(* _populate_reports: the clusters one after the other, their new rows in   *)
(* the order of the batches.                                                *)
Populate(r) ==
  /\ run[r].pc = "save" /\ run[r].todo = {}
  /\ run' = [run EXCEPT ![r].pc = "next", ![r].todo = Clusters]
  /\ UNCHANGED <<logging, queue, rows, processed, report, job, shortfalls, history>>

NewRows(c) == {row \in rows : row.cluster = c /\ row.batch > processed[c]}

ReadRows(r, c) ==
  /\ run[r].pc = "next" /\ c \in run[r].todo
  /\ run' = [run EXCEPT ![r].pc = "batch", ![r].cluster = c, ![r].todo = @ \ {c},
                        ![r].new = NewRows(c)]
  /\ belated' = belated \ NewRows(c)
  /\ UNCHANGED <<logging, queue, rows, processed, report, job, shortfalls,
                 dropped, skipped, together, raced, overlapped, shared>>

KeysOf(row) ==
  {k \in Reports : /\ k.scope \in {row.cluster, Total}
                   /\ k.period = IF k.type = "daily" THEN row.interval \div PerDay ELSE 0}

(* get_or_create, once in a run                                            *)
InMemory(r, k) ==
  LET m == run[r].memory[k] IN IF m.loaded THEN m ELSE [m EXCEPT !.data = report[k], !.loaded = TRUE]

Plus(count, n, ids) == [i \in Ids |-> count[i] + IF i \in ids THEN n ELSE 0]

(* The report k when the row has been added to all its reports.  A report   *)
(* without a status takes the row's dictionary for its own, and each report *)
(* that shares a dictionary adds the row to it.                             *)
Added(r, row, k) ==
  LET m == InMemory(r, k)
      new == m.data.status = Nothing
      adders == {j \in KeysOf(row) : IF m.of = None THEN j = k ELSE InMemory(r, j).of = m.of}
      mine == k \in KeysOf(row)
      times == IF new THEN IF mine THEN 1 ELSE 0 ELSE Cardinality(adders)
  IN IF ~ mine /\ ~ run[r].memory[k].loaded
       THEN run[r].memory[k]
       ELSE [m EXCEPT !.data.requests = IF mine THEN Plus(@, 1, Sso(row)) ELSE @,
                      !.data.status = Plus(@, times, Sso(row)),
                      !.changed = @ \/ mine,
                      !.of = IF new /\ mine THEN row ELSE @]

FirstBatch(new, row) == row \in new /\ \A other \in new : row.batch <= other.batch

AddRow(r, row) ==
  /\ run[r].pc = "batch" /\ FirstBatch(run[r].new, row)
  /\ run[r].batch \in {0, row.batch}
  /\ run' = [run EXCEPT ![r].new = @ \ {row}, ![r].batch = row.batch,
                        ![r].memory = [k \in Reports |-> Added(r, row, k)]]
  /\ shared' = (shared \/ Cardinality({k \in KeysOf(row) :
                                        InMemory(r, k).data.status = Nothing}) > 1)
  /\ UNCHANGED <<logging, queue, rows, processed, report, job, shortfalls,
                 dropped, skipped, together, raced, belated, overlapped>>

(* The changed reports and the status of the process, in a transaction.     *)
CommitBatch(r) ==
  /\ run[r].pc = "batch" /\ run[r].batch # 0
  /\ \A row \in run[r].new : row.batch # run[r].batch
  /\ report' = [k \in Reports |-> IF run[r].memory[k].changed THEN run[r].memory[k].data
                                  ELSE report[k]]
  /\ processed' = [processed EXCEPT ![run[r].cluster] = run[r].batch]
  /\ run' = [run EXCEPT ![r].batch = 0,
                        ![r].memory = [k \in Reports |-> [@[k] EXCEPT !.changed = FALSE]]]
  /\ UNCHANGED <<logging, queue, rows, job, shortfalls, history>>

CommitFailsHalf(r) ==
  /\ run[r].pc = "batch" /\ run[r].batch # 0 /\ shortfalls < MaxFaults
  /\ \A row \in run[r].new : row.batch # run[r].batch
  /\ shortfalls' = shortfalls + 1
  /\ processed' = [processed EXCEPT ![run[r].cluster] = run[r].batch]
  /\ run' = [run EXCEPT ![r] = [NoRun EXCEPT !.pc = "done"]]
  /\ UNCHANGED <<logging, queue, rows, report, job, history>>

(* The transaction fails, and the command with it.                         *)
CommitFails(r) ==
  /\ run[r].pc = "batch" /\ run[r].batch # 0 /\ shortfalls < MaxFaults
  /\ \A row \in run[r].new : row.batch # run[r].batch
  /\ shortfalls' = shortfalls + 1
  /\ run' = [run EXCEPT ![r] = [NoRun EXCEPT !.pc = "done"]]
  /\ UNCHANGED <<logging, queue, rows, processed, report, job, history>>

NextCluster(r) ==
  /\ run[r].pc = "batch" /\ run[r].new = {} /\ run[r].batch = 0
  /\ run' = [run EXCEPT ![r] = IF run[r].todo = {} THEN [NoRun EXCEPT !.pc = "done"]
                               ELSE [@ EXCEPT !.pc = "next"]]
  /\ UNCHANGED <<logging, queue, rows, processed, report, job, shortfalls, history>>

-----------------------------------------------------------------------------
Next ==
  \/ Tick
  \/ \E i \in Ids :
       \/ \E c \in Clusters : Begin(i, c)
       \/ Log(i) \/ RollOver(i) \/ Push(i) \/ PushFails(i)
  \/ \E r \in Runs :
       \/ StartRun(r) \/ Populate(r)
       \/ \E c \in Clusters :
            \/ SaveCluster(r, c) \/ Saved(r, c) \/ CallFails(r, c)
            \/ ReadList(r, c) \/ Trim(r, c) \/ CommitRows(r, c) \/ SaveFails(r, c)
            \/ ReadRows(r, c)
       \/ (\E row \in run[r].new : AddRow(r, row))
       \/ CommitBatch(r) \/ CommitFails(r) \/ NextCluster(r)

Spec == Init /\ [][Next]_vars

-----------------------------------------------------------------------------
TypeOK ==
  /\ interval \in Intervals
  /\ \A c \in Clusters : /\ worker[c].counted \subseteq Ids
                         /\ worker[c].interval \in Intervals
                         /\ processed[c] \in 0..MaxRuns
  /\ \A row \in rows : row.counted \subseteq Ids /\ Sso(row) # {}
  /\ \A r \in Runs : run[r].pc \in {"none", "save", "next", "batch", "done"}

(* The places that count request i in its cluster: the worker's memory, a   *)
(* push in progress, the list in Redis, rows of the database, and rows of a *)
(* save whose list is trimmed.                                              *)
Places(i) ==
  LET c == request[i].at
      pushing == {j \in Ids : request[j].pc = "push" /\ i \in request[j].data.counted}
      queued == {e \in DOMAIN queue[c] : i \in queue[c][e].counted}
      saved == {row \in rows : i \in row.counted}
      moving == {r \in Runs : JobAt(r, c, "commit")
                                /\ \E e \in DOMAIN job[<<r, c>>].read : i \in job[<<r, c>>].read[e].counted}
  IN (IF i \in worker[c].counted THEN 1 ELSE 0)
       + Cardinality(pushing) + Cardinality(queued) + Cardinality(saved) + Cardinality(moving)

(* Every logged request is counted in one place, whatever the order of      *)
(* logging, pushing, saving and failing; a push that fails and a save that  *)
(* fails after it trimmed the list are what loses a request, two saves of a *)
(* list at once are what counts or loses it twice, and a request of Others   *)
(* is lost without any fault when its interval makes no row.                *)
CountedOnce ==
  \A i \in Ids :
     /\ request[i].pc = "logged" /\ request[i].at \notin raced
     /\ i \notin dropped \cup (skipped \cap Others)
     => Places(i) = 1

(* A request is counted in the interval it started in, unless another one   *)
(* was in progress in its worker at the same time.                          *)
CountedInItsInterval ==
  \A row \in rows : \A i \in row.counted : request[i].start # row.interval => i \in together

(* The rows a report stands for when no run is adding to it: those of its   *)
(* period in the batches of each cluster that are processed.                *)
ReportedRows(k) ==
  {row \in rows : k \in KeysOf(row) /\ row.batch <= processed[row.cluster] /\ row \notin belated}

(* Every report adds up the rows of the processed batches, each once, also  *)
(* when runs end in the middle and others go on: the reports of a batch and *)
(* the batch id are saved together.  A row that is saved after a later      *)
(* batch was read is only reported if the run that read it fails, and two   *)
(* runs at once are not excluded by anything.  The status codes count the   *)
(* same requests, unless two reports began with the dictionary of the same  *)
(* row and share it.                                                       *)
ReportsAddUp ==
  ~ overlapped =>
     \A k \in Reports, i \in Ids :
        /\ report[k].requests[i] = Cardinality({row \in ReportedRows(k) : i \in Sso(row)})
        /\ ~ shared => report[k].status[i] = report[k].requests[i]

=============================================================================
