-------------------------- MODULE TrafficDataProofs --------------------------
(***************************************************************************)
(* Proofs about the traffic statistics, for any number of clusters,         *)
(* requests, intervals, runs and faults: where a request is counted while   *)
(* it is logged, pushed and saved, and that the reports add up the rows.    *)
(***************************************************************************)
EXTENDS TrafficData, SequenceTheorems, FiniteSetTheorems, TLAPS

Entry == [interval : Intervals, counted : SUBSET Ids]

(***************************************************************************)
(* Counting.  Only logged requests are counted, in their cluster, and in    *)
(* another interval than their own only if they were not alone.             *)
(***************************************************************************)
Fits(e, c, reqs, others) ==
  \A i \in e.counted :
    /\ reqs[i].pc = "logged" /\ reqs[i].at = c
    /\ reqs[i].start # e.interval => i \in others

Logs == [pc : {"none", "running", "push", "logged"}, at : Clusters \cup {None},
         start : Intervals, data : Entry \cup {None}]

Job == [pc : {"none", "read", "trim", "commit", "done"}, read : Seq(Entry)]

TrafficShapes ==
  /\ interval \in Intervals /\ request \in [Ids -> Logs]
  /\ \A i \in Ids : /\ request[i].pc # "none" => request[i].at \in Clusters
                    /\ request[i].pc = "push" => request[i].data \in Entry
  /\ worker \in [Clusters -> Entry] /\ queue \in [Clusters -> Seq(Entry)]
  /\ rows \subseteq Row /\ job \in [Runs \X Clusters -> Job]

Belongs ==
  /\ \A c \in Clusters : Fits(worker[c], c, request, together)
  /\ \A i \in Ids :
       request[i].pc = "push" => Fits(request[i].data, request[i].at, request, together)
  /\ \A c \in Clusters : \A e \in 1..Len(queue[c]) :
       queue[c][e].counted # {} /\ Fits(queue[c][e], c, request, together)
  /\ \A r \in Runs, c \in Clusters : \A e \in 1..Len(job[<<r, c>>].read) :
       LET entry == job[<<r, c>>].read[e]
       IN  entry.counted # {} /\ Fits(entry, c, request, together)
  /\ \A row \in rows : Sso(row) # {} /\ Fits(row, row.cluster, request, together)

(* A request that is alone in its worker is not of an earlier interval than *)
(* the worker; while one pushes, only requests beside it are counted.       *)
InOrder ==
  /\ \A c \in Clusters : worker[c].interval <= interval
  /\ \A i \in Ids : request[i].pc \in {"running", "push"} =>
       /\ request[i].start <= interval
       /\ \/ i \in together
          \/ /\ InProgress(request[i].at) = {i}
             /\ worker[request[i].at].interval <= request[i].start
       /\ request[i].pc = "push" => worker[request[i].at].counted \subseteq together

(* One save at a time: it trims what it has read.                           *)
Heads(read, list) ==
  Len(read) <= Len(list) /\ \A e \in 1..Len(read) : read[e] = list[e]

ReadOnce(read, gone) ==
  \A e, f \in 1..Len(read) : \A i \in read[e].counted \cap read[f].counted : i \in gone \/ e = f

(* The requests that need not be counted: a fault took them, or they are of *)
(* Others and their interval made no row.                                  *)
Lost == dropped \cup (skipped \cap Others)

Saves ==
  \A c \in Clusters : c \notin raced =>
    /\ \A q, r \in Saving(c) : q = r
    /\ \A r \in Runs :
         /\ job[<<r, c>>].pc = "trim" => Heads(job[<<r, c>>].read, queue[c])
         /\ job[<<r, c>>].pc = "commit" => ReadOnce(job[<<r, c>>].read, Lost)

(* The places of a request, and that it is in one of them.                  *)
Counting(i) == i \in worker[request[i].at].counted

Pushing(i) == {j \in Ids : request[j].pc = "push" /\ i \in request[j].data.counted}

Queued(i) == {e \in 1..Len(queue[request[i].at]) : i \in queue[request[i].at][e].counted}

SavedIn(i) == {row \in rows : i \in row.counted}

Moving(i) ==
  {r \in Runs : /\ job[<<r, request[i].at>>].pc = "commit"
                /\ \E e \in 1..Len(job[<<r, request[i].at>>].read) :
                     i \in job[<<r, request[i].at>>].read[e].counted}

Single(S) == \E x : S = {x}

OnlyOne(counting, p, q, s, m) ==
  \/ counting /\ p = {} /\ q = {} /\ s = {} /\ m = {}
  \/ ~counting /\ Single(p) /\ q = {} /\ s = {} /\ m = {}
  \/ ~counting /\ p = {} /\ Single(q) /\ s = {} /\ m = {}
  \/ ~counting /\ p = {} /\ q = {} /\ Single(s) /\ m = {}
  \/ ~counting /\ p = {} /\ q = {} /\ s = {} /\ Single(m)

InOnePlace(i) == OnlyOne(Counting(i), Pushing(i), Queued(i), SavedIn(i), Moving(i))

CountInv ==
  /\ TrafficShapes /\ Belongs /\ InOrder /\ Saves
  /\ \A i \in Ids :
       request[i].pc = "logged" /\ i \notin Lost /\ request[i].at \notin raced => InOnePlace(i)

LEMMA TrafficInitial ==
  ASSUME TrafficConstants, Init PROVE CountInv
<1>1. interval = 0 /\ 0 \in Intervals /\ rows = {}
  BY DEF Init, Intervals, TrafficConstants
<1>2. /\ request = [i \in Ids |-> [pc |-> "none", at |-> None, start |-> 0, data |-> None]]
      /\ worker = [c \in Clusters |-> [interval |-> 0, counted |-> {}]]
      /\ queue = [c \in Clusters |-> <<>>] /\ job = [rc \in Runs \X Clusters |-> NoJob]
  BY DEF Init
<1>3. <<>> \in Seq(Entry) /\ Len(<<>>) = 0 /\ 1..0 = {}
  BY EmptySeq
<1>4. NoJob \in Job /\ NoJob.pc = "none" /\ NoJob.read = <<>>
  BY <1>3 DEF NoJob, Job
<1>5. \A r \in Runs, c \in Clusters : job[<<r, c>>] = NoJob
  BY <1>2
<1>6. \A i \in Ids : request[i].pc = "none"
  BY <1>2
<1>7. TrafficShapes
  BY <1>1, <1>2, <1>3, <1>4, <1>6 DEF TrafficShapes, Logs, Entry
<1>8. Belongs
  BY <1>1, <1>2, <1>3, <1>4, <1>5, <1>6 DEF Belongs, Fits
<1>9. InOrder /\ Saves
  BY <1>1, <1>2, <1>4, <1>5, <1>6 DEF InOrder, Saves, Saving, JobAt
<1>. QED
  BY <1>6, <1>7, <1>8, <1>9 DEF CountInv

LEMMA StillFits ==
  ASSUME NEW e, NEW c, NEW reqs, NEW others, NEW after, NEW later,
         Fits(e, c, reqs, others), others \subseteq later,
         \A i \in e.counted : reqs[i].pc = "logged" =>
           after[i].pc = "logged" /\ after[i].at = reqs[i].at /\ after[i].start = reqs[i].start
  PROVE  Fits(e, c, after, later)
BY DEF Fits

(* A request that is not logged yet is counted nowhere.                     *)
LEMMA NotCounted ==
  ASSUME CountInv, NEW i \in Ids, request[i].pc # "logged"
  PROVE  /\ \A c \in Clusters : i \notin worker[c].counted
         /\ Pushing(i) = {} /\ SavedIn(i) = {}
         /\ \A c \in Clusters : \A e \in 1..Len(queue[c]) : i \notin queue[c][e].counted
         /\ \A r \in Runs, c \in Clusters : \A e \in 1..Len(job[<<r, c>>].read) :
              i \notin job[<<r, c>>].read[e].counted
BY DEF CountInv, Belongs, Fits, Pushing, SavedIn

LEMMA CountedIds ==
  ASSUME TrafficShapes
  PROVE  /\ \A c \in Clusters : worker[c].counted \subseteq Ids
         /\ \A c \in Clusters : \A e \in 1..Len(queue[c]) :
              queue[c][e] \in Entry /\ queue[c][e].counted \subseteq Ids
         /\ \A r \in Runs, c \in Clusters : \A e \in 1..Len(job[<<r, c>>].read) :
              /\ job[<<r, c>>].read[e] \in Entry
              /\ job[<<r, c>>].read[e].counted \subseteq Ids
         /\ \A row \in rows : row.counted \subseteq Ids
<1>1. \A c \in Clusters : \A e \in 1..Len(queue[c]) : queue[c][e] \in Entry
  BY ElementOfSeq DEF TrafficShapes
<1>2. \A r \in Runs, c \in Clusters : job[<<r, c>>].read \in Seq(Entry)
  BY DEF TrafficShapes, Job
<1>3. \A r \in Runs, c \in Clusters : \A e \in 1..Len(job[<<r, c>>].read) :
        job[<<r, c>>].read[e] \in Entry
  BY <1>2, ElementOfSeq
<1>. QED
  BY <1>1, <1>3 DEF TrafficShapes, Entry, Row

(* What a step does to none of the counts.                                  *)
LEMMA CountsUnchanged ==
  ASSUME CountInv, interval' \in Intervals, interval <= interval',
         UNCHANGED <<request, worker, queue, rows, Lost, together, raced>>,
         job' \in [Runs \X Clusters -> Job],
         \A r \in Runs, c \in Clusters :
           /\ job'[<<r, c>>].read = job[<<r, c>>].read
           /\ \/ job'[<<r, c>>].pc = job[<<r, c>>].pc
              \/ {job[<<r, c>>].pc, job'[<<r, c>>].pc} \cap {"trim", "commit"} = {}
  PROVE  CountInv'
<1>1. TrafficShapes'
  BY DEF CountInv, TrafficShapes
<1>2. Belongs'
  BY DEF CountInv, Belongs
<1>3. InOrder'
  <2>1. \A c \in Clusters : worker[c].interval <= interval'
    BY <1>1 DEF CountInv, InOrder, TrafficShapes, Entry, Intervals
  <2>2. \A i \in Ids : request[i].pc \in {"running", "push"} => request[i].start <= interval'
    BY <1>1 DEF CountInv, InOrder, TrafficShapes, Logs, Intervals
  <2>3. \A c : InProgress(c)' = InProgress(c)
    BY DEF InProgress
  <2>. QED
    BY <2>1, <2>2, <2>3 DEF CountInv, InOrder
<1>4. Saves'
  <2>1. \A c \in Clusters : Saving(c)' = Saving(c)
    BY DEF Saving
  <2>2. \A r \in Runs, c \in Clusters :
          /\ job'[<<r, c>>].pc = "trim" => job[<<r, c>>].pc = "trim"
          /\ job'[<<r, c>>].pc = "commit" => job[<<r, c>>].pc = "commit"
          /\ job'[<<r, c>>].read = job[<<r, c>>].read
    OBVIOUS
  <2> HIDE DEF CountInv
  <2>3. Saves
    BY DEF CountInv
  <2>. QED
    BY <2>1, <2>2, <2>3 DEF Saves
<1>5. \A i \in Ids : request[i].pc = "logged" => (InOnePlace(i) => InOnePlace(i)')
  <2>1. SUFFICES ASSUME NEW i \in Ids, request[i].pc = "logged" PROVE InOnePlace(i) => InOnePlace(i)'
    OBVIOUS
  <2>2. request[i].at \in Clusters
    BY <2>1 DEF CountInv, TrafficShapes
  <2>3. Moving(i)' = Moving(i)
    BY <2>2 DEF Moving
  <2>4. /\ Counting(i)' = Counting(i) /\ Pushing(i)' = Pushing(i)
        /\ Queued(i)' = Queued(i) /\ SavedIn(i)' = SavedIn(i)
    BY DEF Counting, Pushing, Queued, SavedIn
  <2>. QED
    BY <2>3, <2>4 DEF InOnePlace
<1>. QED
  BY <1>1, <1>2, <1>3, <1>4, <1>5 DEF CountInv

(* A request starts, and another count or the same is in hand.              *)
LEMMA RequestBegins ==
  ASSUME CountInv, NEW i \in Ids, NEW c \in Clusters, Begin(i, c)
  PROVE  CountInv'
<1> DEFINE q == [pc |-> "running", at |-> c, start |-> interval, data |-> None]
<1>1. /\ request[i].pc = "none" /\ request' = [request EXCEPT ![i] = q]
      /\ together' = IF InProgress(c) = {} THEN together
                     ELSE together \cup InProgress(c) \cup {i}
      /\ UNCHANGED <<interval, worker, queue, rows, job, Lost, raced>>
  BY DEF Begin, Lost
<1>2. TrafficShapes /\ q \in Logs
  BY DEF CountInv, TrafficShapes, Logs
<1>3. q.pc = "running" /\ q.at = c /\ q.start = interval
  OBVIOUS
<1> HIDE DEF q
<1>4. request'[i] = q /\ \A j \in Ids \ {i} : request'[j] = request[j]
  BY <1>1, <1>2 DEF TrafficShapes
<1>5. TrafficShapes'
  BY <1>1, <1>2, <1>3, <1>4 DEF TrafficShapes
<1>6. together \subseteq together' /\ \A j \in Ids : request[j].pc = "logged" => request'[j] = request[j]
  BY <1>1, <1>4
<1>7. \A e, d : e.counted \subseteq Ids /\ Fits(e, d, request, together) => Fits(e, d, request', together')
  BY <1>6, StillFits
<1>8. Belongs'
  <2>1. /\ \A d \in Clusters : worker[d].counted \subseteq Ids
        /\ \A d \in Clusters : \A e \in 1..Len(queue[d]) : queue[d][e].counted \subseteq Ids
        /\ \A r \in Runs, d \in Clusters : \A e \in 1..Len(job[<<r, d>>].read) :
             job[<<r, d>>].read[e].counted \subseteq Ids
        /\ \A row \in rows : row.counted \subseteq Ids
    BY <1>2, CountedIds
  <2>2. \A j \in Ids : request'[j].pc = "push" =>
          request[j].pc = "push" /\ request'[j] = request[j] /\ request[j].data.counted \subseteq Ids
    BY <1>2, <1>3, <1>4 DEF TrafficShapes, Entry
  <2>. QED
    BY <1>1, <1>7, <2>1, <2>2 DEF CountInv, Belongs
<1>9. InOrder'
  <2> DEFINE Now(d) == {k \in Ids : request'[k].at = d /\ request'[k].pc \in {"running", "push"}}
  <2>1. \A d \in Clusters : d # c => Now(d) = InProgress(d)
    BY <1>1, <1>3, <1>4 DEF InProgress
  <2>2. Now(c) = InProgress(c) \cup {i}
    BY <1>1, <1>3, <1>4 DEF InProgress
  <2>5. \A d : InProgress(d)' = Now(d)
    BY DEF InProgress
  <2> HIDE DEF Now
  <2>3. ASSUME NEW j \in Ids, request'[j].pc \in {"running", "push"}
        PROVE  /\ request'[j].start <= interval
               /\ \/ j \in together'
                  \/ /\ Now(request'[j].at) = {j}
                     /\ worker[request'[j].at].interval <= request'[j].start
               /\ request'[j].pc = "push" => worker[request'[j].at].counted \subseteq together'
    <3>1. CASE j = i
      <4>1. InProgress(c) = {} => Now(c) = {i}
        BY <2>2
      <4>2. worker[c].interval <= interval /\ interval <= interval
        BY <1>2 DEF CountInv, InOrder, TrafficShapes, Intervals
      <4>. QED
        BY <1>1, <1>3, <1>4, <3>1, <4>1, <4>2
    <3>2. CASE j # i
      <4>1. /\ request'[j] = request[j] /\ request[j].at \in Clusters
            /\ j \in InProgress(request[j].at)
        BY <1>2, <1>4, <2>3, <3>2 DEF TrafficShapes, InProgress
      <4>2. CASE request[j].at = c
        <5>1. j \in together'
          BY <1>1, <4>1, <4>2
        <5>. QED
          BY <1>6, <2>3, <4>1, <5>1 DEF CountInv, InOrder
      <4>3. CASE request[j].at # c
        BY <1>6, <2>1, <2>3, <4>1, <4>3 DEF CountInv, InOrder
      <4>. QED
        BY <4>2, <4>3
    <3>. QED
      BY <3>1, <3>2
  <2>4. \A d \in Clusters : worker[d].interval <= interval
    BY DEF CountInv, InOrder
  <2>. QED
    BY <1>1, <2>3, <2>4, <2>5 DEF InOrder
<1>10. Saves'
  <2>1. \A d : Saving(d)' = Saving(d)
    BY <1>1 DEF Saving
  <2>. QED
    BY <1>1, <2>1 DEF CountInv, Saves
<1>11. ASSUME NEW j \in Ids, request'[j].pc = "logged" PROVE InOnePlace(j) => InOnePlace(j)'
  <2>1. request'[j] = request[j] /\ request[j].pc = "logged"
    BY <1>3, <1>4, <1>11
  <2>2. Pushing(j)' = Pushing(j)
    BY <1>1, <1>3, <1>4 DEF Pushing
  <2>3. /\ Counting(j)' = Counting(j) /\ Queued(j)' = Queued(j) /\ SavedIn(j)' = SavedIn(j)
        /\ Moving(j)' = Moving(j)
    BY <1>1, <2>1 DEF Counting, Queued, SavedIn, Moving
  <2>. QED
    BY <2>2, <2>3 DEF InOnePlace
<1>12. \A j \in Ids : request'[j].pc = "logged" => request'[j] = request[j]
  BY <1>3, <1>4
<1>. QED
  BY <1>1, <1>5, <1>8, <1>9, <1>10, <1>11, <1>12 DEF CountInv

(* A request that is logged or pushes leaves the others in order.           *)
LEMMA InOrderStill ==
  ASSUME CountInv, NEW i \in Ids, request[i].pc \in {"running", "push"},
         NEW c, c = request[i].at, UNCHANGED <<interval, together>>,
         \A j \in Ids \ {i} : request'[j] = request[j],
         request'[i].at = c, request'[i].start = request[i].start,
         \A d \in Clusters \ {c} : worker'[d] = worker[d],
         worker'[c].interval <= interval, worker'[c].counted \subseteq worker[c].counted \cup {i},
         \/ request'[i].pc = "logged"
         \/ /\ request'[i].pc = "push" /\ worker'[c].counted = {}
            /\ worker'[c].interval = worker[c].interval
  PROVE  InOrder'
<1> DEFINE Now(d) == {k \in Ids : request'[k].at = d /\ request'[k].pc \in {"running", "push"}}
<1>1. \A d : d # c => Now(d) = InProgress(d)
  BY DEF InProgress
<1>2. /\ request'[i].pc = "push" => Now(c) = InProgress(c)
      /\ i \in InProgress(c) /\ Now(c) \subseteq InProgress(c)
  BY DEF InProgress
<1>3. \A d : InProgress(d)' = Now(d)
  BY DEF InProgress
<1>4. InOrder /\ TrafficShapes
  BY DEF CountInv
<1> HIDE DEF Now
<1>5. ASSUME NEW j \in Ids, request'[j].pc \in {"running", "push"}
      PROVE  /\ request'[j].start <= interval
             /\ \/ j \in together
                \/ /\ Now(request'[j].at) = {j}
                   /\ worker'[request'[j].at].interval <= request'[j].start
             /\ request'[j].pc = "push" => worker'[request'[j].at].counted \subseteq together
  <2>1. CASE j = i
    BY <1>1, <1>2, <1>4, <1>5, <2>1 DEF InOrder
  <2>2. CASE j # i /\ request[j].at # c
    <3>1. request'[j] = request[j] /\ request[j].at \in Clusters
      BY <1>4, <1>5, <2>2 DEF TrafficShapes
    <3>. QED
      BY <1>1, <1>4, <1>5, <2>2, <3>1 DEF InOrder
  <2>3. CASE j # i /\ request[j].at = c
    <3>1. request'[j] = request[j] /\ j \in InProgress(c) /\ InProgress(c) # {i}
          /\ InProgress(c) # {j}
      BY <1>2, <1>5, <2>3 DEF InProgress
    <3>2. i \in together /\ j \in together
      BY <1>4, <1>5, <2>3, <3>1 DEF InOrder
    <3>. QED
      BY <1>4, <1>5, <2>3, <3>1, <3>2 DEF InOrder
  <2>. QED
    BY <2>1, <2>2, <2>3
<1>6. \A d \in Clusters : worker'[d].interval <= interval
  BY <1>4 DEF InOrder
<1>. QED
  BY <1>3, <1>5, <1>6 DEF InOrder

LEMMA RequestLogged ==
  ASSUME CountInv, NEW i \in Ids, Log(i)
  PROVE  CountInv'
<1> DEFINE c == request[i].at
           q == [request[i] EXCEPT !.pc = "logged"]
           w == [worker[c] EXCEPT !.counted = @ \cup {i}]
<1>1. /\ request[i].pc = "running" /\ request' = [request EXCEPT ![i] = q]
      /\ request[i].start <= worker[c].interval
      /\ UNCHANGED <<interval, queue, rows, job, Lost, together, raced>>
  BY DEF Log, history, Lost
<1>2. TrafficShapes /\ c \in Clusters
  BY <1>1 DEF CountInv, TrafficShapes
<1>3. worker' = [worker EXCEPT ![c] = w]
  BY <1>2 DEF Log
<1>4. /\ q \in Logs /\ q.pc = "logged" /\ q.at = c /\ q.start = request[i].start
      /\ w \in Entry /\ w.interval = worker[c].interval /\ w.counted = worker[c].counted \cup {i}
      /\ worker[c].interval \in Intervals /\ request[i].start \in Intervals
  <2>1. worker[c] \in Entry /\ request[i] \in Logs
    BY <1>2 DEF TrafficShapes
  <2>2. /\ w \in Entry /\ w.interval = worker[c].interval /\ w.counted = worker[c].counted \cup {i}
        /\ worker[c].interval \in Intervals
    BY <2>1 DEF Entry
  <2>. QED
    BY <2>1, <2>2 DEF Logs
<1> HIDE DEF q, w
<1>5. /\ request'[i] = q /\ \A j \in Ids \ {i} : request'[j] = request[j]
      /\ worker'[c] = w /\ \A d \in Clusters \ {c} : worker'[d] = worker[d]
  BY <1>1, <1>2, <1>3 DEF TrafficShapes
<1>6. TrafficShapes'
  BY <1>1, <1>2, <1>3, <1>4, <1>5 DEF TrafficShapes
<1>7. \A j \in Ids : request[j].pc = "logged" => request'[j] = request[j]
  BY <1>1, <1>5
<1>8. \A e, d : e.counted \subseteq Ids /\ Fits(e, d, request, together) => Fits(e, d, request', together)
  BY <1>7 DEF Fits
<1>9. Fits(w, c, request', together)
  <2>1. request[i].start # worker[c].interval => i \in together
    BY <1>1, <1>4 DEF CountInv, InOrder, Intervals
  <2>2. Fits(worker[c], c, request', together)
    BY <1>2, <1>8, CountedIds DEF CountInv, Belongs
  <2>. QED
    BY <1>4, <1>5, <2>1, <2>2 DEF Fits
<1>10. Belongs'
  <2>1. \A d \in Clusters : Fits(worker'[d], d, request', together)
    BY <1>2, <1>5, <1>8, <1>9, CountedIds DEF CountInv, Belongs
  <2>2. \A j \in Ids : request'[j].pc = "push" =>
          request[j].pc = "push" /\ request'[j] = request[j] /\ request[j].data.counted \subseteq Ids
    BY <1>2, <1>4, <1>5 DEF TrafficShapes, Entry
  <2>. QED
    BY <1>1, <1>2, <1>8, <2>1, <2>2, CountedIds DEF CountInv, Belongs
<1>11. InOrder'
  <2>1. w.interval <= interval
    BY <1>2, <1>4 DEF CountInv, InOrder
  <2>. QED
    BY <1>1, <1>4, <1>5, <2>1, InOrderStill
<1>12. Saves'
  <2>1. \A d : Saving(d)' = Saving(d)
    BY <1>1 DEF Saving
  <2>. QED
    BY <1>1, <2>1 DEF CountInv, Saves
<1>13. ASSUME NEW j \in Ids, request'[j].pc = "logged", j \notin Lost, request'[j].at \notin raced
       PROVE  InOnePlace(j)'
  <2>1. request'[j].at = request[j].at /\ request[j].at \in Clusters
    BY <1>2, <1>4, <1>5, <1>13 DEF TrafficShapes
  <2>2. /\ Pushing(j)' = Pushing(j) /\ Queued(j)' = Queued(j) /\ SavedIn(j)' = SavedIn(j)
        /\ Moving(j)' = Moving(j)
    BY <1>1, <1>4, <1>5, <2>1 DEF Pushing, Queued, SavedIn, Moving
  <2>3. CASE j = i
    <3>1. /\ Pushing(i) = {} /\ Queued(i) = {} /\ SavedIn(i) = {} /\ Moving(i) = {}
      BY <1>1, <1>2, NotCounted DEF Queued, Moving
    <3>2. Counting(i)'
      BY <1>4, <1>5 DEF Counting
    <3>. QED
      BY <2>2, <2>3, <3>1, <3>2 DEF InOnePlace, OnlyOne
  <2>4. CASE j # i
    <3>1. Counting(j)' <=> Counting(j)
      BY <1>4, <1>5, <2>1, <2>4 DEF Counting
    <3>2. InOnePlace(j)
      BY <1>5, <1>13, <2>1, <2>4 DEF CountInv
    <3>. QED
      BY <2>2, <3>1, <3>2 DEF InOnePlace, OnlyOne
  <2>. QED
    BY <2>3, <2>4
<1>. QED
  BY <1>1, <1>6, <1>10, <1>11, <1>12, <1>13 DEF CountInv

LEMMA RequestRollsOver ==
  ASSUME CountInv, NEW i \in Ids, RollOver(i)
  PROVE  CountInv'
<1> DEFINE c == request[i].at
           q == [request[i] EXCEPT !.pc = "push", !.data = worker[c]]
           w == [worker[c] EXCEPT !.counted = {}]
<1>1. /\ request[i].pc = "running" /\ request' = [request EXCEPT ![i] = q]
      /\ UNCHANGED <<interval, queue, rows, job, Lost, together, raced>>
  BY DEF RollOver, history, Lost
<1>2. TrafficShapes /\ c \in Clusters
  BY <1>1 DEF CountInv, TrafficShapes
<1>3. worker' = [worker EXCEPT ![c] = w]
  BY <1>2 DEF RollOver
<1>4. /\ q \in Logs /\ q.pc = "push" /\ q.at = c /\ q.start = request[i].start
      /\ q.data = worker[c] /\ worker[c] \in Entry
      /\ w \in Entry /\ w.interval = worker[c].interval /\ w.counted = {}
  BY <1>2 DEF TrafficShapes, Logs, Entry
<1> HIDE DEF q, w
<1>5. /\ request'[i] = q /\ \A j \in Ids \ {i} : request'[j] = request[j]
      /\ worker'[c] = w /\ \A d \in Clusters \ {c} : worker'[d] = worker[d]
  BY <1>1, <1>2, <1>3 DEF TrafficShapes
<1>6. TrafficShapes'
  BY <1>1, <1>2, <1>3, <1>4, <1>5 DEF TrafficShapes
<1>7. \A j \in Ids : request[j].pc = "logged" => request'[j] = request[j]
  BY <1>1, <1>5
<1>8. \A e, d : e.counted \subseteq Ids /\ Fits(e, d, request, together) => Fits(e, d, request', together)
  BY <1>7 DEF Fits
<1>9. Fits(w, c, request', together) /\ Fits(worker[c], c, request', together)
  <2>1. Fits(worker[c], c, request', together)
    BY <1>2, <1>8, CountedIds DEF CountInv, Belongs
  <2>. QED
    BY <1>4, <2>1 DEF Fits
<1>10. Belongs'
  <2>1. \A d \in Clusters : Fits(worker'[d], d, request', together)
    BY <1>2, <1>5, <1>8, <1>9, CountedIds DEF CountInv, Belongs
  <2>2. ASSUME NEW j \in Ids, request'[j].pc = "push"
        PROVE  Fits(request'[j].data, request'[j].at, request', together)
    <3>1. CASE j = i
      BY <1>4, <1>5, <1>9, <3>1
    <3>2. CASE j # i
      <4>1. request'[j] = request[j] /\ request[j].data.counted \subseteq Ids
        BY <1>2, <1>5, <2>2, <3>2 DEF TrafficShapes, Entry
      <4>. QED
        BY <1>8, <2>2, <4>1 DEF CountInv, Belongs
    <3>. QED
      BY <3>1, <3>2
  <2>. QED
    BY <1>1, <1>2, <1>8, <2>1, <2>2, CountedIds DEF CountInv, Belongs
<1>11. InOrder'
  <2>1. w.interval <= interval
    BY <1>2, <1>4 DEF CountInv, InOrder
  <2>. QED
    BY <1>1, <1>4, <1>5, <2>1, InOrderStill
<1>12. Saves'
  <2>1. \A d : Saving(d)' = Saving(d)
    BY <1>1 DEF Saving
  <2>. QED
    BY <1>1, <2>1 DEF CountInv, Saves
<1>13. ASSUME NEW j \in Ids, request'[j].pc = "logged", j \notin Lost, request'[j].at \notin raced
       PROVE  InOnePlace(j)'
  <2>1. /\ j # i /\ request'[j] = request[j] /\ request[j].at \in Clusters
        /\ InOnePlace(j) /\ request[j].pc = "logged"
    BY <1>2, <1>4, <1>5, <1>13 DEF CountInv, TrafficShapes
  <2>2. Queued(j)' = Queued(j) /\ SavedIn(j)' = SavedIn(j) /\ Moving(j)' = Moving(j)
    BY <1>1, <2>1 DEF Queued, SavedIn, Moving
  <2>3. Pushing(j)' = IF j \in worker[c].counted THEN Pushing(j) \cup {i} ELSE Pushing(j)
    BY <1>1, <1>4, <1>5 DEF Pushing
  <2>4. /\ Counting(j)' <=> Counting(j) /\ j \notin worker[c].counted
        /\ j \in worker[c].counted => Counting(j)
    BY <1>2, <1>4, <1>5, <2>1 DEF CountInv, Belongs, Fits, Counting
  <2>5. CASE j \in worker[c].counted
    <3>1. Single({i})
      BY DEF Single
    <3>. QED
      BY <2>1, <2>2, <2>3, <2>4, <2>5, <3>1 DEF InOnePlace, OnlyOne
  <2>6. CASE j \notin worker[c].counted
    BY <2>1, <2>2, <2>3, <2>4, <2>6 DEF InOnePlace, OnlyOne
  <2>. QED
    BY <2>5, <2>6
<1>. QED
  BY <1>1, <1>6, <1>10, <1>11, <1>12, <1>13 DEF CountInv

(* The counts a request took are pushed, or they are lost.                  *)
LEMMA RequestPushed ==
  ASSUME CountInv, NEW i \in Ids, Push(i) \/ PushFails(i)
  PROVE  CountInv'
<1> DEFINE c == request[i].at
           data == request[i].data
           q == [request[i] EXCEPT !.pc = "logged", !.data = None]
           w == [interval |-> request[i].start, counted |-> worker[c].counted \cup {i}]
<1>1. /\ request[i].pc = "push" /\ request' = [request EXCEPT ![i] = q]
      /\ worker' = [worker EXCEPT ![c] = [interval |-> request[i].start,
                                          counted |-> @.counted \cup {i}]]
      /\ UNCHANGED <<interval, rows, job, together, raced>>
      /\ \/ /\ queue' = [queue EXCEPT ![c] = Append(@, data)] /\ data.counted # {}
            /\ Lost' = Lost
         \/ queue' = queue /\ Lost' = Lost \cup data.counted
  BY DEF Push, PushFails, Pushed, Lost
<1>2. /\ TrafficShapes /\ c \in Clusters /\ data \in Entry
      /\ request[i] \in Logs /\ worker[c] \in Entry
  BY <1>1 DEF CountInv, TrafficShapes
<1>3. worker' = [worker EXCEPT ![c] = w]
  BY <1>1, <1>2 DEF TrafficShapes
<1>4. /\ q \in Logs /\ q.pc = "logged" /\ q.at = c /\ q.start = request[i].start
      /\ w.interval = request[i].start /\ w.counted = worker[c].counted \cup {i}
  BY <1>2 DEF Logs
<1>5. w \in Entry /\ request[i].start \in Intervals
  BY <1>2 DEF Entry, Logs
<1> HIDE DEF q, w
<1>6. /\ request'[i] = q /\ \A j \in Ids \ {i} : request'[j] = request[j]
      /\ worker'[c] = w /\ \A d \in Clusters \ {c} : worker'[d] = worker[d]
  BY <1>1, <1>2, <1>3 DEF TrafficShapes
<1>7. \/ /\ queue'[c] = Append(queue[c], data) /\ data.counted # {}
         /\ Append(queue[c], data) \in Seq(Entry) /\ Lost' = Lost
         /\ Len(queue'[c]) = Len(queue[c]) + 1 /\ queue'[c][Len(queue[c]) + 1] = data
         /\ \A e \in 1..Len(queue[c]) : queue'[c][e] = queue[c][e]
      \/ queue'[c] = queue[c] /\ Lost' = Lost \cup data.counted
  <2>1. queue[c] \in Seq(Entry)
    BY <1>2 DEF TrafficShapes
  <2>2. /\ Append(queue[c], data) \in Seq(Entry)
        /\ Len(Append(queue[c], data)) = Len(queue[c]) + 1
        /\ \A e \in 1..Len(queue[c]) : Append(queue[c], data)[e] = queue[c][e]
        /\ Append(queue[c], data)[Len(queue[c]) + 1] = data
    BY <1>2, <2>1, AppendProperties
  <2>3. CASE queue' = [queue EXCEPT ![c] = Append(@, data)]
    <3>1. queue'[c] = Append(queue[c], data)
      BY <1>2, <2>3 DEF TrafficShapes
    <3>. QED
      BY <1>1, <2>2, <3>1
  <2>. QED
    BY <1>1, <2>3
<1>8. /\ Len(queue[c]) \in Nat /\ \A d \in Clusters \ {c} : queue'[d] = queue[d]
      /\ \A e : e \in 1..(Len(queue[c]) + 1) <=> e \in 1..Len(queue[c]) \/ e = Len(queue[c]) + 1
      /\ Len(queue[c]) + 1 \notin 1..Len(queue[c])
  <2>1. Len(queue[c]) \in Nat
    BY <1>2, LenProperties DEF TrafficShapes
  <2>. QED
    BY <1>1, <1>2, <2>1 DEF TrafficShapes
<1>9. queue' \in [Clusters -> Seq(Entry)]
  BY <1>1, <1>2, <1>7 DEF TrafficShapes
<1>10. TrafficShapes'
  BY <1>1, <1>2, <1>3, <1>4, <1>5, <1>6, <1>9 DEF TrafficShapes
<1>11. \A j \in Ids : request[j].pc = "logged" => request'[j] = request[j]
  BY <1>1, <1>6
<1>12. \A e, d : e.counted \subseteq Ids /\ Fits(e, d, request, together) => Fits(e, d, request', together)
  BY <1>11 DEF Fits
<1>13. Fits(data, c, request', together) /\ Fits(w, c, request', together)
  <2>1. Fits(worker[c], c, request', together) /\ Fits(data, c, request', together)
    BY <1>1, <1>2, <1>12 DEF CountInv, Belongs, Entry
  <2>2. worker[c].counted \subseteq together
    BY <1>1, <1>2 DEF CountInv, InOrder
  <2>. QED
    BY <1>4, <1>6, <2>1, <2>2 DEF Fits
<1>14. \A e \in 1..Len(queue'[c]) : queue'[c][e].counted # {} /\ Fits(queue'[c][e], c, request', together)
  <2>1. \A e \in 1..Len(queue[c]) : queue[c][e].counted # {} /\ Fits(queue[c][e], c, request', together)
    BY <1>2, <1>12, CountedIds DEF CountInv, Belongs
  <2>. QED
    BY <1>7, <1>8, <1>13, <2>1
<1>15. Belongs'
  <2>1. \A d \in Clusters : Fits(worker'[d], d, request', together)
    BY <1>2, <1>6, <1>12, <1>13, CountedIds DEF CountInv, Belongs
  <2>2. \A j \in Ids : request'[j].pc = "push" =>
          request[j].pc = "push" /\ request'[j] = request[j] /\ request[j].data.counted \subseteq Ids
    BY <1>2, <1>4, <1>6 DEF TrafficShapes, Entry
  <2>3. \A d \in Clusters : \A e \in 1..Len(queue'[d]) :
          queue'[d][e].counted # {} /\ Fits(queue'[d][e], d, request', together)
    <3>1. ASSUME NEW d \in Clusters, d # c, NEW e \in 1..Len(queue'[d])
          PROVE  queue'[d][e].counted # {} /\ Fits(queue'[d][e], d, request', together)
      BY <1>2, <1>8, <1>12, <3>1, CountedIds DEF CountInv, Belongs
    <3>. QED
      BY <1>14, <3>1
  <2>. QED
    BY <1>1, <1>2, <1>12, <2>1, <2>2, <2>3, CountedIds DEF CountInv, Belongs
<1>16. InOrder'
  <2>1. w.interval <= interval
    BY <1>1, <1>4 DEF CountInv, InOrder
  <2>. QED
    BY <1>1, <1>4, <1>6, <2>1, InOrderStill
<1>17. Saves'
  <2>1. \A d : Saving(d)' = Saving(d)
    BY <1>1 DEF Saving
  <2>2. Lost \subseteq Lost'
    BY <1>1
  <2>3. \A read : ReadOnce(read, Lost) => ReadOnce(read, Lost')
    BY <2>2 DEF ReadOnce
  <2>4. ASSUME NEW read \in Seq(Entry), Heads(read, queue[c]) PROVE Heads(read, queue'[c])
    <3>1. Len(read) \in Nat
      BY LenProperties
    <3>. QED
      BY <1>7, <1>8, <2>4, <3>1 DEF Heads
  <2>5. \A r \in Runs, d \in Clusters : job[<<r, d>>].read \in Seq(Entry)
    BY <1>2 DEF TrafficShapes, Job
  <2>. QED
    BY <1>1, <1>8, <2>1, <2>3, <2>4, <2>5 DEF CountInv, Saves
<1>18. ASSUME NEW j \in Ids, request'[j].pc = "logged", j \notin Lost', request'[j].at \notin raced
       PROVE  InOnePlace(j)'
  <2>1. request'[j].at = request[j].at /\ request[j].at \in Clusters
    BY <1>2, <1>4, <1>6, <1>18 DEF TrafficShapes
  <2>2. SavedIn(j)' = SavedIn(j) /\ Moving(j)' = Moving(j)
    BY <1>1, <2>1 DEF SavedIn, Moving
  <2>3. Pushing(j)' = Pushing(j) \ {i} /\ (j \in data.counted => i \in Pushing(j))
    BY <1>1, <1>4, <1>6 DEF Pushing
  <2>4. CASE j = i
    <3>1. /\ Pushing(i) = {} /\ SavedIn(i) = {} /\ Moving(i) = {}
      BY <1>1, <1>2, NotCounted DEF Moving
    <3>2. Counting(i)'
      BY <1>4, <1>6 DEF Counting
    <3>3. i \notin data.counted
      BY <1>1, NotCounted DEF Pushing
    <3>4. \A e \in 1..Len(queue[c]) : i \notin queue[c][e].counted
      BY <1>1, <1>2, NotCounted
    <3>5. \A e \in 1..Len(queue'[c]) : i \notin queue'[c][e].counted
      BY <1>7, <1>8, <3>3, <3>4
    <3>6. Queued(i)' = {}
      BY <1>4, <1>6, <3>5 DEF Queued
    <3>. QED
      BY <2>2, <2>3, <2>4, <3>1, <3>2, <3>6 DEF InOnePlace, OnlyOne
  <2>5. CASE j # i
    <3>1. request'[j] = request[j] /\ (Counting(j)' <=> Counting(j))
      BY <1>4, <1>6, <2>1, <2>5 DEF Counting
    <3>2. InOnePlace(j)
      BY <1>1, <1>18, <2>1, <3>1 DEF CountInv
    <3>3. CASE j \notin data.counted
      <4>1. \A e \in 1..Len(queue'[c]) :
              j \in queue'[c][e].counted <=> e \in 1..Len(queue[c]) /\ j \in queue[c][e].counted
        BY <1>7, <1>8, <3>3
      <4>2. 1..Len(queue[c]) \subseteq 1..Len(queue'[c])
        BY <1>7, <1>8
      <4>3. Queued(j)' = Queued(j)
        <5>1. CASE request[j].at = c
          BY <3>1, <4>1, <4>2, <5>1 DEF Queued
        <5>2. CASE request[j].at # c
          BY <1>8, <2>1, <3>1, <5>2 DEF Queued
        <5>. QED
          BY <5>1, <5>2
      <4>4. i \notin Pushing(j)
        BY <3>3 DEF Pushing
      <4>. QED
        BY <2>2, <2>3, <3>1, <3>2, <4>3, <4>4 DEF InOnePlace, OnlyOne
    <3>4. CASE j \in data.counted
      <4>1. request[j].at = c
        BY <1>1, <3>4 DEF CountInv, Belongs, Fits
      <4>2. Queued(j) = {} /\ ~Counting(j) /\ SavedIn(j) = {} /\ Moving(j) = {} /\ Pushing(j) = {i}
        BY <2>3, <3>2, <3>4 DEF InOnePlace, OnlyOne, Single
      <4>3. \A e \in 1..Len(queue[c]) : j \notin queue[c][e].counted
        BY <4>1, <4>2 DEF Queued
      <4>4. /\ Len(queue'[c]) = Len(queue[c]) + 1 /\ queue'[c][Len(queue[c]) + 1] = data
            /\ \A e \in 1..Len(queue[c]) : queue'[c][e] = queue[c][e]
        BY <1>7, <1>18, <3>4
      <4>5. {e \in 1..(Len(queue[c]) + 1) : j \in queue'[c][e].counted} = {Len(queue[c]) + 1}
        BY <1>8, <3>4, <4>3, <4>4
      <4>6. Queued(j)' = {Len(queue[c]) + 1}
        BY <3>1, <4>1, <4>4, <4>5 DEF Queued
      <4>. QED
        BY <2>2, <2>3, <3>1, <4>2, <4>6 DEF InOnePlace, OnlyOne, Single
    <3>. QED
      BY <3>3, <3>4
  <2>. QED
    BY <2>4, <2>5
<1>. QED
  BY <1>1, <1>10, <1>15, <1>16, <1>17, <1>18 DEF CountInv

(* Saving lists: it changes neither requests nor workers.                   *)
LEMMA SavingAside ==
  ASSUME CountInv, UNCHANGED <<interval, request, worker, together>>
  PROVE  /\ InOrder'
         /\ \A i \in Ids : Counting(i)' = Counting(i) /\ Pushing(i)' = Pushing(i)
<1>1. \A d : InProgress(d)' = InProgress(d)
  BY DEF InProgress
<1>. QED
  BY <1>1 DEF CountInv, InOrder, Counting, Pushing

(* The job of a run in a cluster, changed.                                  *)
LEMMA JobChanged ==
  ASSUME TrafficShapes, NEW r \in Runs, NEW c \in Clusters, NEW x \in Job,
         job' = [job EXCEPT ![<<r, c>>] = x]
  PROVE  /\ job' \in [Runs \X Clusters -> Job] /\ job'[<<r, c>>] = x
         /\ \A q \in Runs, d \in Clusters : q # r \/ d # c => job'[<<q, d>>] = job[<<q, d>>]
         /\ \A d \in Clusters \ {c} : Saving(d)' = Saving(d)
         /\ x.pc \in {"trim", "commit"} => Saving(c)' = Saving(c) \cup {r}
         /\ x.pc \notin {"trim", "commit"} => Saving(c)' = Saving(c) \ {r}
<1>1. <<r, c>> \in Runs \X Clusters /\ job \in [Runs \X Clusters -> Job]
  BY DEF TrafficShapes
<1>2. job' \in [Runs \X Clusters -> Job] /\ job'[<<r, c>>] = x
  BY <1>1
<1>3. \A q \in Runs, d \in Clusters : q # r \/ d # c => job'[<<q, d>>] = job[<<q, d>>]
  BY <1>1
<1>4. \A d \in Clusters \ {c} : Saving(d)' = Saving(d)
  BY <1>3 DEF Saving
<1>5. /\ x.pc \in {"trim", "commit"} => Saving(c)' = Saving(c) \cup {r}
      /\ x.pc \notin {"trim", "commit"} => Saving(c)' = Saving(c) \ {r}
  BY <1>2, <1>3 DEF Saving
<1>. QED
  BY <1>2, <1>3, <1>4, <1>5

LEMMA ListRead ==
  ASSUME CountInv, NEW r \in Runs, NEW c \in Clusters, ReadList(r, c)
  PROVE  CountInv'
<1> DEFINE x == IF queue[c] = <<>> THEN [NoJob EXCEPT !.pc = "done"]
                ELSE [pc |-> "trim", read |-> queue[c]]
<1>1. /\ job[<<r, c>>].pc = "read" /\ job' = [job EXCEPT ![<<r, c>>] = x]
      /\ raced' = IF Saving(c) = {} THEN raced ELSE raced \cup {c}
      /\ UNCHANGED <<interval, request, worker, queue, rows, Lost, together>>
  BY DEF ReadList, JobAt, logging, Lost
<1>2. TrafficShapes /\ queue[c] \in Seq(Entry)
  BY DEF CountInv, TrafficShapes
<1>3. x \in Job /\ x.read \in {<<>>, queue[c]} /\ x.pc \in {"done", "trim"}
      /\ (x.pc = "trim" => x.read = queue[c])
  <2>1. <<>> \in Seq(Entry)
    BY EmptySeq
  <2>. QED
    BY <1>2, <2>1 DEF Job, NoJob
<1> HIDE DEF x
<1>4. /\ job' \in [Runs \X Clusters -> Job] /\ job'[<<r, c>>] = x
      /\ \A q \in Runs, d \in Clusters : q # r \/ d # c => job'[<<q, d>>] = job[<<q, d>>]
      /\ \A d \in Clusters \ {c} : Saving(d)' = Saving(d)
      /\ Saving(c)' \subseteq Saving(c) \cup {r}
  <2>1. /\ x.pc \in {"trim", "commit"} => Saving(c)' = Saving(c) \cup {r}
        /\ x.pc \notin {"trim", "commit"} => Saving(c)' = Saving(c) \ {r}
    BY <1>1, <1>2, <1>3, JobChanged
  <2>2. Saving(c)' \subseteq Saving(c) \cup {r}
    BY <2>1
  <2>. QED
    BY <1>1, <1>2, <1>3, <2>2, JobChanged
<1>5. TrafficShapes'
  BY <1>1, <1>2, <1>4 DEF TrafficShapes
<1>6. Len(<<>>) = 0 /\ 1..0 = {}
  BY EmptySeq
<1>7. Belongs'
  <2>1. \A q \in Runs, d \in Clusters : \A e \in 1..Len(job'[<<q, d>>].read) :
          /\ job'[<<q, d>>].read[e].counted # {}
          /\ Fits(job'[<<q, d>>].read[e], d, request, together)
    <3>1. ASSUME NEW e \in 1..Len(x.read)
          PROVE  x.read[e].counted # {} /\ Fits(x.read[e], c, request, together)
      BY <1>3, <1>6 DEF CountInv, Belongs
    <3>. QED
      BY <1>4, <3>1 DEF CountInv, Belongs
  <2>. QED
    BY <1>1, <2>1 DEF CountInv, Belongs
<1>8. Saves'
  <2>1. SUFFICES ASSUME NEW d \in Clusters, d \notin raced'
                 PROVE  /\ \A q, o \in Saving(d)' : q = o
                        /\ \A q \in Runs :
                             /\ job'[<<q, d>>].pc = "trim" => Heads(job'[<<q, d>>].read, queue[d])
                             /\ job'[<<q, d>>].pc = "commit" => ReadOnce(job'[<<q, d>>].read, Lost)
    BY <1>1 DEF Saves, Saving
  <2>2. d \notin raced /\ (d = c => Saving(c) = {})
    BY <1>1, <2>1
  <2>3. \A q, o \in Saving(d)' : q = o
    BY <1>4, <2>2 DEF CountInv, Saves
  <2>4. Heads(queue[c], queue[c])
    BY <1>2, LenProperties DEF Heads
  <2>. QED
    BY <1>3, <1>4, <2>2, <2>3, <2>4 DEF CountInv, Saves
<1>9. ASSUME NEW i \in Ids, request[i].pc = "logged", i \notin Lost, request[i].at \notin raced'
      PROVE  InOnePlace(i)'
  <2>1. InOnePlace(i) /\ request[i].at \in Clusters
    BY <1>1, <1>2, <1>9 DEF CountInv, TrafficShapes
  <2>2. Queued(i)' = Queued(i) /\ SavedIn(i)' = SavedIn(i)
    BY <1>1 DEF Queued, SavedIn
  <2>3. \A q \in Runs : /\ job'[<<q, request[i].at>>].pc = "commit"
                             <=> job[<<q, request[i].at>>].pc = "commit"
                        /\ job[<<q, request[i].at>>].pc = "commit" =>
                             job'[<<q, request[i].at>>] = job[<<q, request[i].at>>]
    BY <1>1, <1>3, <1>4, <2>1
  <2>4. Moving(i)' = Moving(i)
    BY <1>1, <2>3 DEF Moving
  <2>5. Counting(i)' = Counting(i) /\ Pushing(i)' = Pushing(i)
    BY <1>1, SavingAside
  <2>. QED
    BY <2>1, <2>2, <2>4, <2>5 DEF InOnePlace
<1>. QED
  BY <1>1, <1>5, <1>7, <1>8, <1>9, SavingAside DEF CountInv

(* What is left of a list when its first n entries are trimmed.             *)
LEMMA Tails ==
  ASSUME NEW s \in Seq(Entry), NEW n \in Nat, NEW t, t = SubSeq(s, n + 1, Len(s))
  PROVE  /\ t \in Seq(Entry) /\ Len(t) \in Nat /\ Len(s) \in Nat
         /\ \A e \in 1..Len(t) : e + n \in 1..Len(s) /\ t[e] = s[e + n]
         /\ \A k \in 1..Len(s) : k \notin 1..n => k - n \in 1..Len(t) /\ t[k - n] = s[k]
<1>1. Len(s) \in Nat
  BY LenProperties
<1>2. PICK m \in Nat : m = Len(s)
  BY <1>1
<1>3. \A e \in (n + 1)..m : s[e] \in Entry
  BY <1>2, ElementOfSeq
<1>4. /\ t \in Seq(Entry)
      /\ Len(t) = IF n + 1 <= m THEN m - (n + 1) + 1 ELSE 0
      /\ \A e \in 1..(m - (n + 1) + 1) : t[e] = s[(n + 1) + e - 1]
  <2>1. n + 1 \in Int /\ m \in Int
    OBVIOUS
  <2>. QED
    BY <1>2, <1>3, <2>1, SubSeqProperties
<1>5. m - (n + 1) + 1 = m - n /\ \A e \in Int : (n + 1) + e - 1 = e + n
  OBVIOUS
<1>6. PICK l \in Nat : l = Len(t) /\ l = IF n + 1 <= m THEN m - n ELSE 0
  <2>1. (IF n + 1 <= m THEN m - n ELSE 0) \in Nat
    OBVIOUS
  <2>2. Len(t) = IF n + 1 <= m THEN m - n ELSE 0
    BY <1>4, <1>5
  <2>. QED
    BY <2>1, <2>2
<1>7. \A e \in 1..l : e + n \in 1..m /\ e \in 1..(m - n) /\ e \in Int
  BY <1>6
<1>8. \A k \in 1..m : k \notin 1..n => k - n \in 1..l /\ (k - n) + n = k
  BY <1>6
<1>9. \A e \in 1..l : t[e] = s[e + n]
  BY <1>4, <1>5, <1>7
<1>. QED
  BY <1>1, <1>2, <1>4, <1>6, <1>7, <1>8, <1>9

LEMMA Shifted ==
  ASSUME NEW m \in Nat, NEW l \in Nat, NEW n \in Nat, NEW S \in SUBSET (1..m), NEW T \in SUBSET (1..l),
         \A e \in 1..l : e + n \in S <=> e \in T,
         \A k \in 1..m : k \notin 1..n => k - n \in 1..l /\ (k - n \in T <=> k \in S)
  PROVE  /\ S = {} => T = {}
         /\ \A k : S = {k} => (k \in 1..n => T = {}) /\ (k \notin 1..n => T = {k - n})
<1>1. ASSUME NEW k, S = {k} PROVE (k \in 1..n => T = {}) /\ (k \notin 1..n => T = {k - n})
  <2>1. k \in 1..m /\ \A e \in T : e \in 1..l /\ e + n = k
    BY <1>1
  <2>2. k \in 1..n => T = {}
    BY <2>1
  <2>3. \A e \in T : e = k - n
    BY <2>1
  <2>4. k \notin 1..n => k - n \in T
    BY <1>1, <2>1
  <2>. QED
    BY <2>2, <2>3, <2>4
<1>. QED
  BY <1>1

LEMMA ListTrimmed ==
  ASSUME CountInv, NEW r \in Runs, NEW c \in Clusters, Trim(r, c)
  PROVE  CountInv'
<1>1. PICK read, n, x : /\ read = job[<<r, c>>].read /\ n = Len(read)
                        /\ x = [job[<<r, c>>] EXCEPT !.pc = "commit"]
  OBVIOUS
<1>2. /\ job[<<r, c>>].pc = "trim" /\ job' = [job EXCEPT ![<<r, c>>] = x]
      /\ queue' = [queue EXCEPT ![c] = SubSeq(queue[c], n + 1, Len(queue[c]))]
      /\ UNCHANGED <<interval, request, worker, rows, Lost, together, raced>>
  BY <1>1 DEF Trim, JobAt, logging, history, Trimmed, Lost
<1>3. TrafficShapes /\ queue[c] \in Seq(Entry) /\ job[<<r, c>>] \in Job
  BY DEF CountInv, TrafficShapes
<1>4. x \in Job /\ x.read = read /\ x.pc = "commit" /\ read \in Seq(Entry)
  BY <1>1, <1>3 DEF Job
<1>5. /\ job' \in [Runs \X Clusters -> Job] /\ job'[<<r, c>>] = x
      /\ \A q \in Runs, d \in Clusters : q # r \/ d # c => job'[<<q, d>>] = job[<<q, d>>]
      /\ \A d \in Clusters \ {c} : Saving(d)' = Saving(d)
      /\ Saving(c)' = Saving(c) \cup {r} /\ r \in Saving(c)
  BY <1>2, <1>3, <1>4, JobChanged DEF Saving
<1>6. n \in Nat
  BY <1>1, <1>4, LenProperties
<1>7. queue'[c] = SubSeq(queue[c], n + 1, Len(queue[c]))
  BY <1>2, <1>3 DEF TrafficShapes
<1>8. /\ queue'[c] \in Seq(Entry)
      /\ \A e \in 1..Len(queue'[c]) : e + n \in 1..Len(queue[c]) /\ queue'[c][e] = queue[c][e + n]
      /\ \A k \in 1..Len(queue[c]) : k \notin 1..n =>
           k - n \in 1..Len(queue'[c]) /\ queue'[c][k - n] = queue[c][k]
  BY <1>3, <1>6, <1>7, Tails
<1>9. \A d \in Clusters \ {c} : queue'[d] = queue[d]
  BY <1>2, <1>3 DEF TrafficShapes
<1>10. TrafficShapes'
  BY <1>2, <1>3, <1>5, <1>8 DEF TrafficShapes
<1>11. Belongs'
  <2>1. \A q \in Runs, d \in Clusters : job'[<<q, d>>].read = job[<<q, d>>].read
    BY <1>1, <1>4, <1>5
  <2>2. ASSUME NEW d \in Clusters, NEW e \in 1..Len(queue'[d])
        PROVE  queue'[d][e].counted # {} /\ Fits(queue'[d][e], d, request, together)
    <3>1. CASE d = c
      <4>1. e + n \in 1..Len(queue[c]) /\ queue'[c][e] = queue[c][e + n]
        BY <1>8, <2>2, <3>1
      <4>. QED
        BY <3>1, <4>1 DEF CountInv, Belongs
    <3>2. CASE d # c
      BY <1>9, <3>2 DEF CountInv, Belongs
    <3>. QED
      BY <3>1, <3>2
  <2>3. \A q \in Runs, d \in Clusters : \A e \in 1..Len(job'[<<q, d>>].read) :
          /\ job'[<<q, d>>].read[e].counted # {}
          /\ Fits(job'[<<q, d>>].read[e], d, request, together)
    BY <2>1 DEF CountInv, Belongs
  <2>. QED
    BY <1>2, <2>2, <2>3 DEF CountInv, Belongs
<1>12. ASSUME c \notin raced
       PROVE  /\ \A e \in 1..n : e \in 1..Len(queue[c]) /\ read[e] = queue[c][e]
              /\ Saving(c) = {r}
  <2>1. Heads(read, queue[c]) /\ Saving(c) = {r}
    BY <1>1, <1>2, <1>5, <1>12 DEF CountInv, Saves
  <2>2. n <= Len(queue[c]) /\ Len(queue[c]) \in Nat /\ \A e \in 1..n : read[e] = queue[c][e]
    BY <1>1, <1>3, <2>1, LenProperties DEF Heads
  <2>. QED
    BY <1>6, <2>1, <2>2
<1>13. Saves'
  <2>1. SUFFICES ASSUME NEW d \in Clusters, d \notin raced
                 PROVE  /\ \A q, o \in Saving(d)' : q = o
                        /\ \A q \in Runs :
                             /\ job'[<<q, d>>].pc = "trim" => Heads(job'[<<q, d>>].read, queue'[d])
                             /\ job'[<<q, d>>].pc = "commit" => ReadOnce(job'[<<q, d>>].read, Lost)
    BY <1>2 DEF Saves, Saving
  <2>2. CASE d # c
    BY <1>5, <1>9, <2>1, <2>2 DEF CountInv, Saves
  <2>3. CASE d = c
    <3>1. \A q \in Runs \ {r} : job'[<<q, c>>].pc \notin {"trim", "commit"}
      BY <1>5, <1>12, <2>1, <2>3 DEF Saving
    <3>2. ReadOnce(read, Lost)
      <4>1. SUFFICES ASSUME NEW e \in 1..n, NEW f \in 1..n, NEW i \in read[e].counted \cap read[f].counted,
                            i \notin Lost
                     PROVE  e = f
        BY <1>1 DEF ReadOnce
      <4>2. /\ e \in 1..Len(queue[c]) /\ f \in 1..Len(queue[c])
            /\ i \in queue[c][e].counted /\ i \in queue[c][f].counted
        BY <1>12, <2>1, <2>3, <4>1
      <4>3. i \in Ids
        BY <1>3, <4>2, CountedIds
      <4>4. request[i].pc = "logged" /\ request[i].at = c
        BY <4>2 DEF CountInv, Belongs, Fits
      <4>5. InOnePlace(i) /\ e \in Queued(i) /\ f \in Queued(i)
        BY <2>1, <2>3, <4>1, <4>2, <4>3, <4>4 DEF CountInv, Queued
      <4>. QED
        BY <4>5 DEF InOnePlace, OnlyOne, Single
    <3>3. \A q, o \in Saving(c)' : q = o
      BY <1>5, <1>12, <2>1, <2>3
    <3>. QED
      BY <1>4, <1>5, <2>3, <3>1, <3>2, <3>3
  <2>. QED
    BY <2>2, <2>3
<1>14. ASSUME NEW i \in Ids, request[i].pc = "logged", i \notin Lost, request[i].at \notin raced
       PROVE  InOnePlace(i)'
  <2>1. InOnePlace(i) /\ request[i].at \in Clusters
    BY <1>3, <1>14 DEF CountInv, TrafficShapes
  <2>2. SavedIn(i)' = SavedIn(i) /\ Counting(i)' = Counting(i) /\ Pushing(i)' = Pushing(i)
    BY <1>2, SavingAside DEF SavedIn
  <2>3. CASE request[i].at # c
    <3>1. Queued(i)' = Queued(i) /\ Moving(i)' = Moving(i)
      BY <1>2, <1>5, <1>9, <2>1, <2>3 DEF Queued, Moving
    <3>. QED
      BY <2>1, <2>2, <3>1 DEF InOnePlace
  <2>4. CASE request[i].at = c
    <3>1. c \notin raced
      BY <1>14, <2>4
    <3>2. Moving(i) = {}
      BY <1>2, <1>12, <2>4, <3>1 DEF Moving, Saving
    <3>3. Moving(i)' = IF \E e \in 1..n : i \in read[e].counted THEN {r} ELSE {}
      <4>1. \A q \in Runs \ {r} : job'[<<q, c>>].pc # "commit"
        BY <1>5, <1>12, <3>1 DEF Saving
      <4>2. job'[<<r, c>>].pc = "commit" /\ job'[<<r, c>>].read = read /\ Len(read) = n
        BY <1>1, <1>4, <1>5
      <4>3. Moving(i)' = {q \in Runs : /\ job'[<<q, c>>].pc = "commit"
                                       /\ \E e \in 1..Len(job'[<<q, c>>].read) :
                                            i \in job'[<<q, c>>].read[e].counted}
        BY <1>2, <2>4 DEF Moving
      <4>. QED
        BY <4>1, <4>2, <4>3
    <3>4. /\ Queued(i) = {e \in 1..Len(queue[c]) : i \in queue[c][e].counted}
          /\ Queued(i)' = {e \in 1..Len(queue'[c]) : i \in queue'[c][e].counted}
      BY <1>2, <2>4 DEF Queued
    <3>5. /\ Queued(i) = {} => Queued(i)' = {}
          /\ \A k : Queued(i) = {k} => /\ k \in 1..n => Queued(i)' = {}
                                       /\ k \notin 1..n => Queued(i)' = {k - n}
      <4>1. PICK m, l, S, T : /\ m = Len(queue[c]) /\ l = Len(queue'[c])
                              /\ S = Queued(i) /\ T = Queued(i)'
        OBVIOUS
      <4>2. m \in Nat /\ l \in Nat
        BY <1>3, <1>8, <4>1, LenProperties
      <4>3. S \in SUBSET (1..m) /\ T \in SUBSET (1..l)
        BY <3>4, <4>1
      <4>4. \A e \in 1..l : e + n \in S <=> e \in T
        BY <1>8, <3>4, <4>1
      <4>5. \A k \in 1..m : k \notin 1..n => k - n \in 1..l /\ (k - n \in T <=> k \in S)
        BY <1>8, <3>4, <4>1
      <4>. QED
        BY <1>6, <4>1, <4>2, <4>3, <4>4, <4>5, Shifted
    <3>6. (\E e \in 1..n : i \in read[e].counted) <=> \E e \in 1..n : e \in Queued(i)
      BY <1>12, <3>1, <3>4
    <3>7. CASE Queued(i) = {}
      BY <2>1, <2>2, <3>2, <3>3, <3>5, <3>6, <3>7 DEF InOnePlace, OnlyOne, Single
    <3>8. CASE Queued(i) # {}
      <4>1. PICK k : Queued(i) = {k}
        BY <2>1, <3>8 DEF InOnePlace, OnlyOne, Single
      <4>2. ~Counting(i) /\ Pushing(i) = {} /\ SavedIn(i) = {}
        BY <2>1, <3>8 DEF InOnePlace, OnlyOne
      <4>3. CASE k \in 1..n
        <5>1. Moving(i)' = {r} /\ Queued(i)' = {}
          BY <3>3, <3>5, <3>6, <4>1, <4>3
        <5>. QED
          BY <2>2, <4>2, <5>1 DEF InOnePlace, OnlyOne, Single
      <4>4. CASE k \notin 1..n
        <5>1. Moving(i)' = {} /\ Queued(i)' = {k - n}
          BY <3>3, <3>5, <3>6, <4>1, <4>4
        <5>. QED
          BY <2>2, <4>2, <5>1 DEF InOnePlace, OnlyOne, Single
      <4>. QED
        BY <4>3, <4>4
    <3>. QED
      BY <3>7, <3>8
  <2>. QED
    BY <2>3, <2>4
<1>. QED
  BY <1>2, <1>10, <1>11, <1>13, <1>14, SavingAside DEF CountInv

(* The rows of a save: one for each interval of the list, which counts what *)
(* the entries of the interval count.                                       *)
LEMMA ReadEntries ==
  ASSUME TrafficShapes, Belongs, NEW r \in Runs, NEW c \in Clusters, NEW read,
         read = job[<<r, c>>].read
  PROVE  /\ read \in Seq(Entry) /\ DOMAIN read = 1..Len(read)
         /\ \A e \in 1..Len(read) : /\ read[e].interval \in Intervals
                                    /\ read[e].counted \subseteq Ids /\ read[e].counted # {}
         /\ \A n, i : i \in ListedIn(r, c, n) <=>
                        \E e \in 1..Len(read) : read[e].interval = n /\ i \in read[e].counted
         /\ IntervalsOf(r, c) = {read[e].interval : e \in 1..Len(read)}
<1>1. read \in Seq(Entry) /\ DOMAIN read = 1..Len(read)
  <2>1. read \in Seq(Entry)
    BY DEF TrafficShapes, Job
  <2>. QED
    BY <2>1, LenProperties
<1>2. \A e \in 1..Len(read) : /\ read[e].interval \in Intervals /\ read[e].counted \subseteq Ids
                              /\ read[e].counted # {}
  <2>1. \A e \in 1..Len(read) : read[e] \in Entry
    BY <1>1, ElementOfSeq
  <2>. QED
    BY <2>1 DEF Entry, Belongs
<1>3. \A n, i : i \in ListedIn(r, c, n) <=>
                  \E e \in 1..Len(read) : read[e].interval = n /\ i \in read[e].counted
  BY <1>1 DEF ListedIn
<1>. QED
  BY <1>1, <1>2, <1>3 DEF IntervalsOf

LEMMA RowsOfList ==
  ASSUME TrafficShapes, Belongs, NEW r \in Runs, NEW c \in Clusters
  PROVE  LET read == job[<<r, c>>].read
         IN  /\ \A row \in RowsOf(r, c) :
                  /\ row \in Row /\ row.cluster = c /\ row.batch = r /\ Sso(row) # {}
                  /\ \A i \in row.counted :
                       \E e \in 1..Len(read) : read[e].interval = row.interval /\ i \in read[e].counted
             /\ \A e \in 1..Len(read) : \A i \in read[e].counted :
                  \/ \E row \in RowsOf(r, c) : row.interval = read[e].interval /\ i \in row.counted
                  \/ i \in Rowless(r, c) \cap Others
             /\ \A row, other \in RowsOf(r, c) : row.interval = other.interval => row = other
<1>0. PICK read : read = job[<<r, c>>].read
  OBVIOUS
<1> DEFINE RowAt(n) == [cluster |-> c, interval |-> n, batch |-> r, counted |-> ListedIn(r, c, n)]
<1>1. RowsOf(r, c) = {RowAt(n) : n \in {n \in IntervalsOf(r, c) : HasRow(r, c, n)}}
  BY DEF RowsOf
<1>3. \A e \in 1..Len(read) : read[e].interval \in Intervals /\ read[e].counted \subseteq Ids
  BY <1>0, ReadEntries
<1>4. /\ \A n, i : i \in ListedIn(r, c, n) <=>
                  \E e \in 1..Len(read) : read[e].interval = n /\ i \in read[e].counted
      /\ IntervalsOf(r, c) = {read[e].interval : e \in 1..Len(read)}
  BY <1>0, ReadEntries
<1>5. ASSUME NEW n \in IntervalsOf(r, c)
      PROVE  /\ RowAt(n) \in Row /\ RowAt(n).interval = n
             /\ RowAt(n).cluster = c /\ RowAt(n).batch = r /\ RowAt(n).counted = ListedIn(r, c, n)
  <2>1. ListedIn(r, c, n) \subseteq Ids /\ n \in Intervals
    BY <1>3, <1>4
  <2>. QED
    BY <2>1 DEF Row
<1>6. \A row \in RowsOf(r, c) :
        /\ row \in Row /\ row.cluster = c /\ row.batch = r
        /\ row = RowAt(row.interval) /\ row.counted = ListedIn(r, c, row.interval)
        /\ HasRow(r, c, row.interval)
  BY <1>1, <1>5
<1>7. \A n \in IntervalsOf(r, c) : HasRow(r, c, n) => RowAt(n) \in RowsOf(r, c)
  BY <1>1
<1> HIDE DEF RowAt
<1>8. \A row \in RowsOf(r, c) : \A i \in row.counted :
        \E e \in 1..Len(read) : read[e].interval = row.interval /\ i \in read[e].counted
  BY <1>4, <1>6
<1>9. \A row \in RowsOf(r, c) : Sso(row) # {}
  BY <1>6 DEF HasRow, Sso
<1>10. \A e \in 1..Len(read) : \A i \in read[e].counted :
         \/ \E row \in RowsOf(r, c) : row.interval = read[e].interval /\ i \in row.counted
         \/ i \in Rowless(r, c) \cap Others
  <2>1. SUFFICES ASSUME NEW e \in 1..Len(read), NEW i \in read[e].counted,
                        NEW n, n = read[e].interval
                 PROVE  \/ \E row \in RowsOf(r, c) : row.interval = n /\ i \in row.counted
                        \/ i \in Rowless(r, c) \cap Others
    OBVIOUS
  <2>2. i \in ListedIn(r, c, n) /\ n \in IntervalsOf(r, c)
    BY <1>4, <2>1
  <2>3. CASE HasRow(r, c, n)
    BY <1>5, <1>7, <2>2, <2>3
  <2>4. CASE ~HasRow(r, c, n)
    BY <2>2, <2>4 DEF HasRow, Rowless
  <2>. QED
    BY <2>3, <2>4
<1>11. \A row, other \in RowsOf(r, c) : row.interval = other.interval => row = other
  BY <1>6
<1>. QED
  BY <1>0, <1>6, <1>8, <1>9, <1>10, <1>11

(* A save ends, with its rows or without.                                   *)
LEMMA SaveEnds ==
  ASSUME CountInv, NEW r \in Runs, NEW c \in Clusters,
         job' = [job EXCEPT ![<<r, c>>] = [NoJob EXCEPT !.pc = "done"]],
         UNCHANGED <<interval, request, worker, queue, together, raced>>,
         Lost \subseteq Lost', rows \subseteq rows', rows' \subseteq rows \cup RowsOf(r, c)
  PROVE  /\ TrafficShapes' /\ Belongs' /\ InOrder' /\ Saves'
         /\ \A i \in Ids : request[i].at \in Clusters =>
              /\ Counting(i)' = Counting(i) /\ Pushing(i)' = Pushing(i) /\ Queued(i)' = Queued(i)
              /\ Moving(i)' = IF request[i].at = c THEN Moving(i) \ {r} ELSE Moving(i)
<1>1. PICK x : x = [NoJob EXCEPT !.pc = "done"]
  OBVIOUS
<1>2. x \in Job /\ x.pc = "done" /\ x.read = <<>> /\ Len(<<>>) = 0 /\ 1..0 = {}
  <2>1. <<>> \in Seq(Entry) /\ Len(<<>>) = 0 /\ 1..0 = {}
    BY EmptySeq
  <2>. QED
    BY <1>1, <2>1 DEF NoJob, Job
<1>3. TrafficShapes /\ Belongs /\ Saves
  BY DEF CountInv
<1>4. /\ job' \in [Runs \X Clusters -> Job] /\ job'[<<r, c>>] = x
      /\ \A q \in Runs, d \in Clusters : q # r \/ d # c => job'[<<q, d>>] = job[<<q, d>>]
      /\ \A d \in Clusters \ {c} : Saving(d)' = Saving(d)
      /\ Saving(c)' = Saving(c) \ {r}
  <2>1. job' = [job EXCEPT ![<<r, c>>] = x] /\ x.pc \notin {"trim", "commit"}
    BY <1>1, <1>2
  <2>2. /\ job' \in [Runs \X Clusters -> Job] /\ job'[<<r, c>>] = x
        /\ \A q \in Runs, d \in Clusters : q # r \/ d # c => job'[<<q, d>>] = job[<<q, d>>]
        /\ \A d \in Clusters \ {c} : Saving(d)' = Saving(d)
        /\ x.pc \in {"trim", "commit"} => Saving(c)' = Saving(c) \cup {r}
        /\ x.pc \notin {"trim", "commit"} => Saving(c)' = Saving(c) \ {r}
    BY <1>2, <1>3, <2>1, JobChanged
  <2>. QED
    BY <2>1, <2>2
<1>5. \A row \in RowsOf(r, c) : row \in Row /\ Sso(row) # {} /\ Fits(row, row.cluster, request, together)
  <2>1. PICK read : read = job[<<r, c>>].read
    OBVIOUS
  <2>2. \A e \in 1..Len(read) : Fits(read[e], c, request, together)
    BY <1>3, <2>1 DEF Belongs
  <2>3. ASSUME NEW row \in RowsOf(r, c)
        PROVE  /\ row \in Row /\ row.cluster = c /\ Sso(row) # {}
               /\ \A i \in row.counted :
                    \E e \in 1..Len(read) : read[e].interval = row.interval /\ i \in read[e].counted
    BY <1>3, <2>1, <2>3, RowsOfList
  <2>. QED
    BY <2>2, <2>3 DEF Fits
<1>6. TrafficShapes'
  BY <1>3, <1>4, <1>5 DEF TrafficShapes
<1>7. Belongs'
  <2>1. \A q \in Runs, d \in Clusters : \A e \in 1..Len(job'[<<q, d>>].read) :
          /\ job'[<<q, d>>].read[e].counted # {}
          /\ Fits(job'[<<q, d>>].read[e], d, request, together)
    <3>1. SUFFICES ASSUME NEW q \in Runs, NEW d \in Clusters, NEW e \in 1..Len(job'[<<q, d>>].read)
                   PROVE  /\ job'[<<q, d>>].read[e].counted # {}
                          /\ Fits(job'[<<q, d>>].read[e], d, request, together)
      OBVIOUS
    <3>2. q # r \/ d # c
      BY <1>2, <1>4, <3>1
    <3>3. job'[<<q, d>>] = job[<<q, d>>]
      BY <1>4, <3>2
    <3>. QED
      BY <1>3, <3>1, <3>3 DEF Belongs
  <2>. QED
    BY <1>3, <1>5, <2>1 DEF Belongs
<1>8. Saves'
  <2>1. SUFFICES ASSUME NEW d \in Clusters, d \notin raced
                 PROVE  /\ \A q, o \in Saving(d)' : q = o
                        /\ \A q \in Runs :
                             /\ job'[<<q, d>>].pc = "trim" => Heads(job'[<<q, d>>].read, queue[d])
                             /\ job'[<<q, d>>].pc = "commit" => ReadOnce(job'[<<q, d>>].read, Lost')
    BY DEF Saves, Saving
  <2>2. \A read : ReadOnce(read, Lost) => ReadOnce(read, Lost')
    BY DEF ReadOnce
  <2>3. \A q, o \in Saving(d)' : q = o
    BY <1>2, <1>3, <1>4, <2>1 DEF Saves
  <2>. QED
    BY <1>2, <1>3, <1>4, <2>1, <2>2, <2>3 DEF Saves
<1>9. ASSUME NEW i \in Ids, request[i].at \in Clusters
      PROVE  /\ Counting(i)' = Counting(i) /\ Pushing(i)' = Pushing(i) /\ Queued(i)' = Queued(i)
             /\ Moving(i)' = IF request[i].at = c THEN Moving(i) \ {r} ELSE Moving(i)
  <2>1. Queued(i)' = Queued(i)
    BY DEF Queued
  <2>2. Moving(i)' = IF request[i].at = c THEN Moving(i) \ {r} ELSE Moving(i)
    BY <1>2, <1>4, <1>9 DEF Moving
  <2>. QED
    BY <2>1, <2>2, SavingAside
<1>. QED
  BY <1>6, <1>7, <1>8, <1>9, SavingAside

LEMMA RowsCommitted ==
  ASSUME CountInv, NEW r \in Runs, NEW c \in Clusters, CommitRows(r, c)
  PROVE  CountInv'
<1>1. /\ job[<<r, c>>].pc = "commit" /\ rows' = rows \cup RowsOf(r, c)
      /\ job' = [job EXCEPT ![<<r, c>>] = [NoJob EXCEPT !.pc = "done"]]
      /\ UNCHANGED <<interval, request, worker, queue, together, raced>>
      /\ Lost' = Lost \cup (Rowless(r, c) \cap Others)
  BY DEF CommitRows, JobAt, logging, Lost
<1>2. TrafficShapes /\ Belongs /\ Saves
  BY DEF CountInv
<1>3. /\ TrafficShapes' /\ Belongs' /\ InOrder' /\ Saves'
      /\ \A i \in Ids : request[i].at \in Clusters =>
           /\ Counting(i)' = Counting(i) /\ Pushing(i)' = Pushing(i) /\ Queued(i)' = Queued(i)
           /\ Moving(i)' = IF request[i].at = c THEN Moving(i) \ {r} ELSE Moving(i)
  <2>1. Lost \subseteq Lost' /\ rows \subseteq rows' /\ rows' \subseteq rows \cup RowsOf(r, c)
    BY <1>1
  <2>. QED
    BY <1>1, <2>1, SaveEnds
<1>4. PICK read : read = job[<<r, c>>].read
  OBVIOUS
<1>5. /\ \A row \in RowsOf(r, c) : \A i \in row.counted :
           \E e \in 1..Len(read) : read[e].interval = row.interval /\ i \in read[e].counted
      /\ \A e \in 1..Len(read) : \A i \in read[e].counted :
           \/ \E row \in RowsOf(r, c) : row.interval = read[e].interval /\ i \in row.counted
           \/ i \in Rowless(r, c) \cap Others
      /\ \A row, other \in RowsOf(r, c) : row.interval = other.interval => row = other
  BY <1>2, <1>4, RowsOfList
<1>6. ASSUME NEW i \in Ids, request[i].pc = "logged", i \notin Lost', request[i].at \notin raced
      PROVE  InOnePlace(i)'
  <2>1. InOnePlace(i) /\ request[i].at \in Clusters /\ i \notin Lost /\ i \notin Rowless(r, c) \cap Others
    BY <1>1, <1>2, <1>6 DEF CountInv, TrafficShapes
  <2>2. /\ Counting(i)' = Counting(i) /\ Pushing(i)' = Pushing(i) /\ Queued(i)' = Queued(i)
        /\ Moving(i)' = IF request[i].at = c THEN Moving(i) \ {r} ELSE Moving(i)
    BY <1>3, <2>1
  <2>3. SavedIn(i)' = SavedIn(i) \cup {row \in RowsOf(r, c) : i \in row.counted}
    BY <1>1 DEF SavedIn
  <2>4. CASE \E e \in 1..Len(read) : i \in read[e].counted
    <3>1. request[i].at = c
      BY <1>2, <1>4, <2>4 DEF Belongs, Fits
    <3>2. r \in Moving(i)
      BY <1>1, <1>4, <2>4, <3>1 DEF Moving
    <3>3. ~Counting(i) /\ Pushing(i) = {} /\ Queued(i) = {} /\ SavedIn(i) = {} /\ Moving(i) = {r}
      BY <2>1, <3>2 DEF InOnePlace, OnlyOne, Single
    <3>4. ReadOnce(read, Lost)
      BY <1>1, <1>2, <1>4, <1>6, <3>1 DEF Saves
    <3>5. PICK e \in 1..Len(read) : i \in read[e].counted
      BY <2>4
    <3>6. \A f \in 1..Len(read) : i \in read[f].counted => f = e
      BY <1>6, <2>1, <3>4, <3>5 DEF ReadOnce
    <3>7. PICK row \in RowsOf(r, c) : row.interval = read[e].interval /\ i \in row.counted
      BY <1>5, <2>1, <3>5
    <3>8. \A other \in RowsOf(r, c) : i \in other.counted => other = row
      BY <1>5, <3>6, <3>7
    <3>9. SavedIn(i)' = {row}
      BY <2>3, <3>3, <3>7, <3>8
    <3>10. Moving(i)' = {}
      BY <2>2, <3>1, <3>3
    <3>. QED
      BY <2>2, <3>3, <3>9, <3>10 DEF InOnePlace, OnlyOne, Single
  <2>5. CASE ~ \E e \in 1..Len(read) : i \in read[e].counted
    <3>1. SavedIn(i)' = SavedIn(i)
      BY <1>5, <2>3, <2>5
    <3>2. Moving(i)' = Moving(i)
      BY <1>4, <2>2, <2>5 DEF Moving
    <3>. QED
      BY <2>1, <2>2, <3>1, <3>2 DEF InOnePlace
  <2>. QED
    BY <2>4, <2>5
<1>. QED
  BY <1>1, <1>3, <1>6 DEF CountInv

LEMMA SaveGivenUp ==
  ASSUME CountInv, NEW r \in Runs, NEW c \in Clusters, SaveFails(r, c)
  PROVE  CountInv'
<1>1. /\ Lost' = IF JobAt(r, c, "trim") THEN Lost
                 ELSE Lost \cup Listed(r, c)
      /\ job[<<r, c>>].pc \in {"trim", "commit"}
      /\ job' = [job EXCEPT ![<<r, c>>] = [NoJob EXCEPT !.pc = "done"]]
      /\ UNCHANGED <<interval, request, worker, queue, together, raced, rows>>
  BY DEF SaveFails, logging, Lost
<1>2. TrafficShapes /\ Belongs
  BY DEF CountInv
<1>3. Lost \subseteq Lost'
  BY <1>1
<1>4. /\ TrafficShapes' /\ Belongs' /\ InOrder' /\ Saves'
      /\ \A i \in Ids : request[i].at \in Clusters =>
           /\ Counting(i)' = Counting(i) /\ Pushing(i)' = Pushing(i) /\ Queued(i)' = Queued(i)
           /\ Moving(i)' = IF request[i].at = c THEN Moving(i) \ {r} ELSE Moving(i)
  BY <1>1, <1>3, SaveEnds
<1>5. ASSUME NEW i \in Ids, request[i].pc = "logged", i \notin Lost', request[i].at \notin raced
      PROVE  InOnePlace(i)'
  <2>1. i \notin Lost /\ InOnePlace(i) /\ request[i].at \in Clusters
    BY <1>2, <1>3, <1>5 DEF CountInv, TrafficShapes
  <2>2. ASSUME request[i].at = c PROVE r \notin Moving(i)
    <3>1. CASE job[<<r, c>>].pc = "trim"
      BY <2>2, <3>1 DEF Moving
    <3>2. CASE job[<<r, c>>].pc = "commit"
      <4>1. PICK read : read = job[<<r, c>>].read
        OBVIOUS
      <4>2. i \notin Listed(r, c)
        BY <1>1, <1>5, <3>2 DEF JobAt
      <4>3. \A e \in 1..Len(read) : i \notin read[e].counted
        <5>1. SUFFICES ASSUME NEW e \in 1..Len(read), i \in read[e].counted PROVE FALSE
          OBVIOUS
        <5>2. i \in ListedIn(r, c, read[e].interval) /\ read[e].interval \in IntervalsOf(r, c)
          BY <1>2, <4>1, <5>1, ReadEntries
        <5>. QED
          BY <4>2, <5>2 DEF Listed
      <4>. QED
        BY <2>2, <4>1, <4>2, <4>3 DEF Moving
    <3>. QED
      BY <1>1, <3>1, <3>2
  <2>3. Moving(i)' = Moving(i)
    BY <1>4, <2>1, <2>2
  <2>4. Counting(i)' = Counting(i) /\ Pushing(i)' = Pushing(i) /\ Queued(i)' = Queued(i)
    BY <1>4, <2>1
  <2>5. SavedIn(i)' = SavedIn(i)
    BY <1>1 DEF SavedIn
  <2>. QED
    BY <2>1, <2>3, <2>4, <2>5 DEF InOnePlace
<1>. QED
  BY <1>1, <1>4, <1>5 DEF CountInv

LEMMA CountingGoesOn ==
  ASSUME TrafficConstants, CountInv, Next PROVE CountInv'
<1>1. CASE Tick
  <2>1. interval' \in Intervals /\ interval <= interval'
    BY <1>1 DEF Tick, Intervals, CountInv, TrafficShapes, TrafficConstants
  <2>2. UNCHANGED <<request, worker, queue, rows, Lost, together, raced, job>>
    BY <1>1 DEF Tick, history, Lost
  <2>3. job \in [Runs \X Clusters -> Job]
    BY DEF CountInv, TrafficShapes
  <2>. QED
    BY <2>1, <2>2, <2>3, CountsUnchanged
<1>2. ASSUME NEW i \in Ids,
             (\E c \in Clusters : Begin(i, c)) \/ Log(i) \/ RollOver(i) \/ Push(i) \/ PushFails(i)
      PROVE  CountInv'
  BY <1>2, RequestBegins, RequestLogged, RequestRollsOver, RequestPushed
<1>3. ASSUME NEW r \in Runs, NEW c \in Clusters,
             ReadList(r, c) \/ Trim(r, c) \/ CommitRows(r, c) \/ SaveFails(r, c)
      PROVE  CountInv'
  BY <1>3, ListRead, ListTrimmed, RowsCommitted, SaveGivenUp
<1>4. interval \in Intervals /\ interval <= interval /\ job \in [Runs \X Clusters -> Job]
  BY DEF CountInv, TrafficShapes, Intervals
<1>5. ASSUME NEW r \in Runs, NEW c \in Clusters, SaveCluster(r, c)
      PROVE  CountInv'
  <2>1. /\ job[<<r, c>>].pc = "none" /\ job' = [job EXCEPT ![<<r, c>>].pc = "read"]
        /\ UNCHANGED <<interval, request, worker, queue, rows, Lost, together, raced>>
    BY <1>5 DEF SaveCluster, JobAt, logging, history, Lost
  <2>2. job' \in [Runs \X Clusters -> Job]
    BY <1>4, <2>1 DEF Job
  <2>3. \A q \in Runs, d \in Clusters :
          /\ job'[<<q, d>>].read = job[<<q, d>>].read
          /\ \/ job'[<<q, d>>].pc = job[<<q, d>>].pc
             \/ {job[<<q, d>>].pc, job'[<<q, d>>].pc} \cap {"trim", "commit"} = {}
    <3>1. ASSUME NEW q \in Runs, NEW d \in Clusters, <<q, d>> # <<r, c>>
          PROVE  job'[<<q, d>>] = job[<<q, d>>]
      BY <1>4, <2>1, <3>1
    <3>2. job'[<<r, c>>].read = job[<<r, c>>].read /\ job'[<<r, c>>].pc = "read"
      BY <1>4, <2>1 DEF Job
    <3>. QED
      BY <2>1, <3>1, <3>2
  <2>. QED
    BY <1>4, <2>1, <2>2, <2>3, CountsUnchanged
<1>6. ASSUME UNCHANGED <<interval, request, worker, queue, rows, Lost, together, raced, job>>
      PROVE  CountInv'
  <2>1. \A q \in Runs, d \in Clusters : job'[<<q, d>>] = job[<<q, d>>]
    BY <1>6
  <2>. QED
    BY <1>4, <1>6, <2>1, CountsUnchanged
<1>7. ASSUME NEW r \in Runs,
             \/ StartRun(r) \/ Populate(r) \/ CommitBatch(r) \/ CommitFails(r) \/ NextCluster(r)
             \/ \E c \in Clusters : Saved(r, c) \/ CallFails(r, c) \/ ReadRows(r, c)
             \/ \E row \in run[r].new : AddRow(r, row)
      PROVE  UNCHANGED <<interval, request, worker, queue, rows, Lost, together, raced, job>>
  BY <1>7 DEF StartRun, Populate, CommitBatch, CommitFails, NextCluster, Saved, CallFails, ReadRows,
              AddRow, logging, history, Lost
<1>. QED
  BY <1>1, <1>2, <1>3, <1>5, <1>6, <1>7 DEF Next

LEMMA CountsAside ==
  ASSUME CountInv, UNCHANGED vars PROVE CountInv'
<1>1. interval \in Intervals /\ interval <= interval /\ job \in [Runs \X Clusters -> Job]
  BY DEF CountInv, TrafficShapes, Intervals
<1>2. /\ UNCHANGED <<interval, request, worker, queue, rows, Lost, together, raced>>
      /\ \A q \in Runs, d \in Clusters : job'[<<q, d>>] = job[<<q, d>>]
      /\ job' = job
  BY DEF vars, logging, history, Lost
<1>. QED
  BY <1>1, <1>2, CountsUnchanged

LEMMA CountHolds ==
  ASSUME TrafficConstants PROVE Spec => []CountInv
<1>1. Init => CountInv
  BY TrafficInitial
<1>2. CountInv /\ [Next]_vars => CountInv'
  BY CountingGoesOn, CountsAside
<1>. QED
  BY <1>1, <1>2, PTL DEF Spec

LEMMA OnePlaceOnce ==
  ASSUME CountInv PROVE CountedOnce /\ CountedInItsInterval
<1>1. CountedInItsInterval
  BY DEF CountInv, Belongs, Fits, CountedInItsInterval
<1>2. ASSUME NEW i \in Ids, request[i].pc = "logged", i \notin Lost, request[i].at \notin raced
      PROVE  Places(i) = 1
  <2>1. InOnePlace(i) /\ request[i].at \in Clusters
    BY <1>2 DEF CountInv, TrafficShapes
  <2>2. PICK p, q, s, m : p = Pushing(i) /\ q = Queued(i) /\ s = SavedIn(i) /\ m = Moving(i)
    OBVIOUS
  <2>3. DOMAIN queue[request[i].at] = 1..Len(queue[request[i].at])
    BY <2>1, LenProperties DEF CountInv, TrafficShapes
  <2>4. \A r \in Runs : DOMAIN job[<<r, request[i].at>>].read = 1..Len(job[<<r, request[i].at>>].read)
    <3>1. \A r \in Runs : job[<<r, request[i].at>>].read \in Seq(Entry)
      BY <2>1 DEF CountInv, TrafficShapes, Job
    <3>. QED
      BY <3>1, LenProperties
  <2>5. Places(i) = (IF Counting(i) THEN 1 ELSE 0) + Cardinality(p) + Cardinality(q)
                      + Cardinality(s) + Cardinality(m)
    <3>1. {r \in Runs : JobAt(r, request[i].at, "commit")
                          /\ \E e \in DOMAIN job[<<r, request[i].at>>].read :
                               i \in job[<<r, request[i].at>>].read[e].counted} = m
      BY <2>2, <2>4 DEF Moving, JobAt
    <3>2. {e \in DOMAIN queue[request[i].at] : i \in queue[request[i].at][e].counted} = q
      BY <2>2, <2>3 DEF Queued
    <3>3. {j \in Ids : request[j].pc = "push" /\ i \in request[j].data.counted} = p
      BY <2>2 DEF Pushing
    <3>4. {row \in rows : i \in row.counted} = s
      BY <2>2 DEF SavedIn
    <3>. QED
      BY <3>1, <3>2, <3>3, <3>4 DEF Places, Counting
  <2>6. /\ \A S : S = {} => Cardinality(S) = 0
        /\ \A S : Single(S) => Cardinality(S) = 1
    BY FS_EmptySet, FS_Singleton DEF Single
  <2>7. OnlyOne(Counting(i), p, q, s, m)
    BY <2>1, <2>2 DEF InOnePlace
  <2>. QED
    BY <2>5, <2>6, <2>7 DEF OnlyOne
<1>. QED
  BY <1>1, <1>2 DEF CountedOnce, Lost

-----------------------------------------------------------------------------
(***************************************************************************)
(* Reports.                                                                 *)
(***************************************************************************)
Count == [Ids -> Nat]

Report == [requests : Count, status : Count]

Memory == [data : Report, loaded : BOOLEAN, changed : BOOLEAN, of : Row \cup {None}]

Command == [pc : {"none", "save", "next", "batch", "done"}, todo : SUBSET Clusters,
            new : SUBSET Row, cluster : Clusters \cup {None}, batch : 0..MaxRuns,
            memory : [Reports -> Memory]]

RunShapes ==
  /\ processed \in [Clusters -> 0..MaxRuns] /\ report \in [Reports -> Report]
  /\ run \in [Runs -> Command] /\ IsFiniteSet(rows)
  /\ overlapped \in BOOLEAN /\ shared \in BOOLEAN

Sums(count, S) == \A i \in Ids : count[i] = Cardinality({row \in S : i \in Sso(row)})

(* The rows of the batch that a run is adding, as far as they are in the    *)
(* memory of the report k, and the batches it has read and not finished.    *)
AddedTo(r, k) ==
  {row \in rows : /\ run[r].pc = "batch" /\ run[r].batch # 0 /\ k \in KeysOf(row)
                  /\ row.cluster = run[r].cluster /\ row.batch = run[r].batch
                  /\ row \notin run[r].new}

Batches(r) == {row.batch : row \in run[r].new} \cup {run[r].batch}

Adding(r) ==
  LET c == run[r].cluster
      b == run[r].batch
  IN /\ c \in Clusters /\ c \notin run[r].todo
     /\ b # 0 => b > processed[c] /\ job[<<b, c>>].pc = "done"
     /\ \A row \in run[r].new :
          /\ row \in rows /\ row.cluster = c /\ row.batch > processed[c] /\ row.batch >= b
     /\ \A row \in rows : row.cluster = c =>
          IF row.batch \in Batches(r) THEN row \notin belated /\ (row \in run[r].new \/ row.batch = b)
          ELSE row.batch > processed[c] /\ row \notin belated =>
                 \A n \in Batches(r) : row.batch > n

(* What a run has in memory of the report k.                               *)
Holds(r, k) ==
  LET m == run[r].memory[k]
  IN /\ m.loaded => Sums(m.data.requests, ReportedRows(k) \cup AddedTo(r, k))
     /\ ~m.changed => AddedTo(r, k) = {}
     /\ ~m.loaded => ~m.changed /\ m.of = None
     /\ ~shared /\ m.loaded => m.data.status = m.data.requests
     /\ ~shared /\ m.of # None =>
          /\ m.of \notin run[r].new /\ m.of.cluster \notin run[r].todo
          /\ \A j \in Reports : run[r].memory[j].of = m.of => j = k

ReportsInv ==
  /\ RunShapes /\ \A row \in rows : job[<<row.batch, row.cluster>>].pc = "done"
  /\ \A r \in Runs : run[r].pc # "batch" => run[r].batch = 0 /\ run[r].new = {}
  /\ ~overlapped =>
       /\ \A q, r \in Active : q = r
       /\ \A k \in Reports : /\ Sums(report[k].requests, ReportedRows(k))
                             /\ ~shared => report[k].status = report[k].requests
       /\ \A r \in Active : /\ \A k \in Reports : Holds(r, k)
                            /\ run[r].pc = "save" => \A k \in Reports : ~run[r].memory[k].loaded
                            /\ run[r].pc = "batch" => Adding(r)

LEMMA KeysFinite ==
  ASSUME NEW row PROVE IsFiniteSet(KeysOf(row)) /\ KeysOf(row) \subseteq Reports
<1> DEFINE day == row.interval \div PerDay
           key(scope, type, period) == [scope |-> scope, type |-> type, period |-> period]
           D == {key(row.cluster, "daily", day)}
           E == {key(Total, "daily", day)}
           F == {key(row.cluster, "weekly", 0)}
           G == {key(Total, "weekly", 0)}
<1>1. KeysOf(row) \subseteq ((D \cup E) \cup F) \cup G
  BY DEF KeysOf, Reports
<1>2. IsFiniteSet(D) /\ IsFiniteSet(E) /\ IsFiniteSet(F) /\ IsFiniteSet(G)
  BY FS_Singleton
<1> HIDE DEF D, E, F, G
<1>3. IsFiniteSet(D \cup E)
  BY <1>2, FS_Union
<1>4. IsFiniteSet((D \cup E) \cup F)
  BY <1>2, <1>3, FS_Union
<1>5. IsFiniteSet(((D \cup E) \cup F) \cup G)
  BY <1>2, <1>4, FS_Union
<1>6. IsFiniteSet(KeysOf(row))
  BY <1>1, <1>5, FS_Subset
<1>. QED
  BY <1>6 DEF KeysOf

LEMMA RowsOfFinite ==
  ASSUME TrafficShapes, NEW r \in Runs, NEW c \in Clusters
  PROVE  IsFiniteSet(RowsOf(r, c))
<1> DEFINE read == job[<<r, c>>].read
           RowAt(n) == [cluster |-> c, interval |-> n, batch |-> r, counted |-> ListedIn(r, c, n)]
           All == {RowAt(n) : n \in {read[e].interval : e \in 1..Len(read)}}
           f == [e \in 1..Len(read) |-> RowAt(read[e].interval)]
<1>1. Len(read) \in Nat /\ DOMAIN read = 1..Len(read)
  <2>1. read \in Seq(Entry)
    BY DEF TrafficShapes, Job
  <2>. QED
    BY <2>1, LenProperties
<1>2. RowsOf(r, c) \subseteq All
  BY <1>1 DEF RowsOf, IntervalsOf
<1> HIDE DEF RowAt
<1>3. f \in Surjection(1..Len(read), All)
  BY DEF Surjection
<1>4. IsFiniteSet(1..Len(read))
  BY <1>1, FS_Interval
<1> HIDE DEF All
<1>5. IsFiniteSet(All)
  BY <1>3, <1>4, FS_Surjection
<1>. QED
  BY <1>2, <1>5, FS_Subset

(* A report in memory when a row is added to it.                            *)
Times(r, row, k) ==
  LET m == InMemory(r, k) IN
  IF m.data.status = Nothing THEN IF k \in KeysOf(row) THEN 1 ELSE 0
  ELSE Cardinality({j \in KeysOf(row) : IF m.of = None THEN j = k ELSE InMemory(r, j).of = m.of})

LEMMA TimesCount ==
  ASSUME NEW r, NEW row, NEW k PROVE Times(r, row, k) \in Nat
<1> DEFINE m == InMemory(r, k)
           S == {j \in KeysOf(row) : IF m.of = None THEN j = k ELSE InMemory(r, j).of = m.of}
<1>1. IsFiniteSet(S) /\ Cardinality(S) \in Nat
  <2>1. IsFiniteSet(KeysOf(row)) /\ S \in SUBSET KeysOf(row)
    BY KeysFinite
  <2>2. IsFiniteSet(S)
    BY <2>1, FS_Subset
  <2>. QED
    BY <2>2, FS_CardinalityType
<1>. QED
  BY <1>1 DEF Times

LEMMA InMemoryIs ==
  ASSUME RunShapes, NEW r \in Runs, NEW k \in Reports
  PROVE  LET m == run[r].memory[k]
         IN  /\ m \in Memory /\ InMemory(r, k) \in Memory /\ InMemory(r, k).loaded
             /\ InMemory(r, k).data = IF m.loaded THEN m.data ELSE report[k]
             /\ InMemory(r, k).of = m.of /\ InMemory(r, k).changed = m.changed
<1>1. run[r].memory[k] \in Memory /\ report[k] \in Report
  BY DEF RunShapes, Command
<1>. QED
  BY <1>1 DEF InMemory, Memory

LEMMA PlusCounts ==
  ASSUME NEW count \in Count, NEW n \in Nat, NEW ids
  PROVE  Plus(count, n, ids) \in Count
BY DEF Count, Plus

LEMMA AddedIs ==
  ASSUME RunShapes, NEW r \in Runs, NEW row \in Row, NEW k \in Reports
  PROVE  LET m == InMemory(r, k)
             a == Added(r, row, k)
             mine == k \in KeysOf(row)
         IN  /\ a \in Memory
             /\ ~mine /\ ~run[r].memory[k].loaded => a = run[r].memory[k]
             /\ mine \/ run[r].memory[k].loaded =>
                  /\ a.loaded /\ (a.changed <=> m.changed \/ mine)
                  /\ a.data.requests = IF mine THEN Plus(m.data.requests, 1, Sso(row))
                                       ELSE m.data.requests
                  /\ a.data.status = Plus(m.data.status, Times(r, row, k), Sso(row))
                  /\ a.of = IF m.data.status = Nothing /\ mine THEN row ELSE m.of
<1>1. PICK m : m = InMemory(r, k)
  OBVIOUS
<1>2. m \in Memory /\ m.loaded /\ run[r].memory[k] \in Memory
  BY <1>1, InMemoryIs
<1>3. PICK n \in Nat : n = Times(r, row, k)
  BY TimesCount
<1>4. PICK requests \in Count :
        requests = IF k \in KeysOf(row) THEN Plus(m.data.requests, 1, Sso(row)) ELSE m.data.requests
  <2>1. m.data.requests \in Count
    BY <1>2 DEF Memory, Report
  <2>2. Plus(m.data.requests, 1, Sso(row)) \in Count
    BY <2>1, PlusCounts
  <2>. QED
    BY <2>1, <2>2
<1>5. PICK status \in Count : status = Plus(m.data.status, n, Sso(row))
  <2>1. m.data.status \in Count
    BY <1>2 DEF Memory, Report
  <2>. QED
    BY <2>1, PlusCounts
<1>6. PICK of \in Row \cup {None} : of = IF m.data.status = Nothing /\ k \in KeysOf(row) THEN row ELSE m.of
  BY <1>2 DEF Memory
<1>7. PICK changed \in BOOLEAN : changed = (m.changed \/ k \in KeysOf(row))
  OBVIOUS
<1>8. ~(k \notin KeysOf(row) /\ ~run[r].memory[k].loaded) =>
        Added(r, row, k) = [m EXCEPT !.data.requests = requests, !.data.status = status,
                                     !.changed = changed, !.of = of]
  BY <1>1, <1>2, <1>3, <1>4, <1>5, <1>6, <1>7 DEF Added, Times, Memory, Report
<1>9. k \notin KeysOf(row) /\ ~run[r].memory[k].loaded => Added(r, row, k) = run[r].memory[k]
  BY DEF Added
<1>10. PICK x : x = [m EXCEPT !.data.requests = requests, !.data.status = status,
                             !.changed = changed, !.of = of]
  OBVIOUS
<1>11. /\ x \in Memory /\ x.loaded /\ x.changed = changed /\ x.of = of
       /\ x.data.requests = requests /\ x.data.status = status
  BY <1>2, <1>10 DEF Memory, Report
<1>12. CASE k \notin KeysOf(row) /\ ~run[r].memory[k].loaded
  BY <1>2, <1>9, <1>12
<1>13. CASE ~(k \notin KeysOf(row) /\ ~run[r].memory[k].loaded)
  <2>1. Added(r, row, k) = x
    BY <1>8, <1>10, <1>13
  <2>. QED
    BY <1>1, <1>3, <1>4, <1>5, <1>6, <1>7, <1>11, <1>13, <2>1
<1>. QED
  BY <1>12, <1>13

(* The types of the runs, the reports and the batch ids.                    *)
LEMMA NewRun ==
  ASSUME TrafficConstants PROVE /\ NoRun \in Command /\ NoReport \in Report
                                /\ Unloaded \in Memory
<1>1. NoReport \in Report
  BY DEF NoReport, Report, Count, Nothing
<1>2. Unloaded \in Memory
  BY <1>1 DEF Unloaded, Memory
<1>3. 0 \in 0..MaxRuns
  BY DEF TrafficConstants
<1>. QED
  BY <1>1, <1>2, <1>3 DEF NoRun, Command

LEMMA ShapesInitial ==
  ASSUME TrafficConstants, Init PROVE RunShapes
<1>1. NoRun \in Command /\ NoReport \in Report /\ 0 \in 0..MaxRuns
  BY NewRun DEF TrafficConstants
<1>. QED
  BY <1>1, FS_EmptySet DEF Init, RunShapes

LEMMA ShapesKept ==
  ASSUME TrafficConstants, TrafficShapes, TrafficShapes', RunShapes, [Next]_vars PROVE RunShapes'
<1>1. CASE UNCHANGED <<rows, processed, report, run, overlapped, shared>>
  BY <1>1 DEF RunShapes
<1>2. ASSUME NEW i \in Ids,
             (\E c \in Clusters : Begin(i, c)) \/ Log(i) \/ RollOver(i) \/ Push(i) \/ PushFails(i)
      PROVE  UNCHANGED <<rows, processed, report, run, overlapped, shared>>
  BY <1>2 DEF Begin, Log, RollOver, Push, PushFails, Pushed, history
<1>3. ASSUME NEW r \in Runs, NEW c \in Clusters,
             ReadList(r, c) \/ Trim(r, c) \/ SaveFails(r, c) \/ SaveCluster(r, c)
      PROVE  UNCHANGED <<rows, processed, report, run, overlapped, shared>>
  BY <1>3 DEF ReadList, Trim, SaveFails, SaveCluster, history
<1>4. Tick => UNCHANGED <<rows, processed, report, run, overlapped, shared>>
  BY DEF Tick, history
<1>5. ASSUME NEW r \in Runs, NEW c \in Clusters, CommitRows(r, c)
      PROVE  RunShapes'
  <2>1. IsFiniteSet(rows \cup RowsOf(r, c))
    BY RowsOfFinite, FS_Union DEF RunShapes
  <2>. QED
    BY <1>5, <2>1 DEF CommitRows, RunShapes
<1>6. ASSUME NEW r \in Runs, NEW x \in Command, run' = [run EXCEPT ![r] = x],
             processed' \in [Clusters -> 0..MaxRuns], report' \in [Reports -> Report],
             rows' = rows, overlapped' \in BOOLEAN, shared' \in BOOLEAN
      PROVE  RunShapes'
  BY <1>6 DEF RunShapes
<1>7. /\ processed \in [Clusters -> 0..MaxRuns] /\ report \in [Reports -> Report]
      /\ overlapped \in BOOLEAN /\ shared \in BOOLEAN /\ run \in [Runs -> Command]
      /\ \A r \in Runs : run[r] \in Command
      /\ rows \subseteq Row
  BY DEF RunShapes, TrafficShapes
<1>8. ASSUME NEW r \in Runs, StartRun(r) PROVE RunShapes'
  <2>1. [NoRun EXCEPT !.pc = "save", !.todo = Clusters] \in Command
    BY NewRun DEF Command
  <2>. QED
    BY <1>6, <1>7, <1>8, <2>1 DEF StartRun
<1>9. ASSUME NEW r \in Runs, Populate(r) PROVE RunShapes'
  <2>1. run' = [run EXCEPT ![r] = [run[r] EXCEPT !.pc = "next", !.todo = Clusters]]
    BY <1>7, <1>9 DEF Populate
  <2>2. [run[r] EXCEPT !.pc = "next", !.todo = Clusters] \in Command
    BY <1>7 DEF Command
  <2>. QED
    BY <1>6, <1>7, <1>9, <2>1, <2>2 DEF Populate, history
<1>10. ASSUME NEW r \in Runs, NEW c \in Clusters, Saved(r, c) \/ CallFails(r, c) PROVE RunShapes'
  <2>1. run' = [run EXCEPT ![r] = [run[r] EXCEPT !.todo = run[r].todo \ {c}]]
    BY <1>7, <1>10 DEF Saved, CallFails
  <2>2. [run[r] EXCEPT !.todo = run[r].todo \ {c}] \in Command
    BY <1>7 DEF Command
  <2>. QED
    BY <1>6, <1>7, <1>10, <2>1, <2>2 DEF Saved, CallFails, history
<1>11. ASSUME NEW r \in Runs, NEW c \in Clusters, ReadRows(r, c) PROVE RunShapes'
  <2>1. run' = [run EXCEPT ![r] = [run[r] EXCEPT !.pc = "batch", !.cluster = c,
                                     !.todo = run[r].todo \ {c}, !.new = NewRows(c)]]
    BY <1>7, <1>11 DEF ReadRows
  <2>2. NewRows(c) \subseteq Row
    BY <1>7 DEF NewRows
  <2>3. [run[r] EXCEPT !.pc = "batch", !.cluster = c,
                       !.todo = run[r].todo \ {c}, !.new = NewRows(c)] \in Command
    BY <1>7, <2>2 DEF Command
  <2>. QED
    BY <1>6, <1>7, <1>11, <2>1, <2>3 DEF ReadRows
<1>12. ASSUME NEW r \in Runs, NEW row \in run[r].new, AddRow(r, row) PROVE RunShapes'
  <2>1. row \in Row /\ row.batch \in 0..MaxRuns
    BY <1>7 DEF Command, Row, Runs, TrafficConstants
  <2>2. PICK memory : memory = [k \in Reports |-> Added(r, row, k)]
    OBVIOUS
  <2>3. memory \in [Reports -> Memory]
    BY <2>1, <2>2, AddedIs
  <2>4. run' = [run EXCEPT ![r] = [run[r] EXCEPT !.new = run[r].new \ {row}, !.batch = row.batch,
                                                 !.memory = memory]]
    BY <1>7, <1>12, <2>2 DEF AddRow
  <2>5. [run[r] EXCEPT !.new = run[r].new \ {row}, !.batch = row.batch, !.memory = memory] \in Command
    BY <1>7, <2>1, <2>3 DEF Command
  <2>6. shared' \in BOOLEAN
    BY <1>12 DEF AddRow
  <2>. QED
    BY <1>6, <1>7, <1>12, <2>4, <2>5, <2>6 DEF AddRow
<1>13. ASSUME NEW r \in Runs, CommitBatch(r) PROVE RunShapes'
  <2>1. PICK memory : memory = [k \in Reports |-> [run[r].memory[k] EXCEPT !.changed = FALSE]]
    OBVIOUS
  <2>2. \A k \in Reports : run[r].memory[k] \in Memory
    BY <1>7 DEF Command
  <2>3. memory \in [Reports -> Memory]
    BY <2>1, <2>2 DEF Memory
  <2>4. run' = [run EXCEPT ![r] = [run[r] EXCEPT !.batch = 0, !.memory = memory]]
    BY <1>7, <1>13, <2>1 DEF CommitBatch
  <2>5. [run[r] EXCEPT !.batch = 0, !.memory = memory] \in Command
    <3>1. 0 \in 0..MaxRuns
      BY DEF TrafficConstants
    <3>. QED
      BY <1>7, <2>3, <3>1 DEF Command
  <2>6. report' \in [Reports -> Report]
    BY <1>7, <1>13, <2>2 DEF CommitBatch, Memory
  <2>7. processed' \in [Clusters -> 0..MaxRuns]
    BY <1>7, <1>13 DEF CommitBatch, Command
  <2>. QED
    BY <1>6, <1>7, <1>13, <2>4, <2>5, <2>6, <2>7 DEF CommitBatch, history
<1>14. ASSUME NEW r \in Runs, CommitFails(r) PROVE RunShapes'
  <2>1. [NoRun EXCEPT !.pc = "done"] \in Command
    BY NewRun DEF Command
  <2>. QED
    BY <1>6, <1>7, <1>14, <2>1 DEF CommitFails, history
<1>15. ASSUME NEW r \in Runs, NextCluster(r) PROVE RunShapes'
  <2>1. PICK x : x = IF run[r].todo = {} THEN [NoRun EXCEPT !.pc = "done"]
                     ELSE [run[r] EXCEPT !.pc = "next"]
    OBVIOUS
  <2>2. x \in Command
    BY <1>7, <2>1, NewRun DEF Command
  <2>3. run' = [run EXCEPT ![r] = x]
    BY <1>7, <1>15, <2>1 DEF NextCluster
  <2>. QED
    BY <1>6, <1>7, <1>15, <2>2, <2>3 DEF NextCluster, history
<1>16. CASE UNCHANGED vars
  BY <1>1, <1>16 DEF vars, history
<1>. QED
  BY <1>1, <1>2, <1>3, <1>4, <1>5, <1>8, <1>9, <1>10, <1>11, <1>12, <1>13, <1>14, <1>15, <1>16 DEF Next

LEMMA CountTyped ==
  ASSUME TrafficConstants, CountInv, RunShapes PROVE TypeOK
<1>1. \A c \in Clusters : worker[c] \in Entry
  BY DEF CountInv, TrafficShapes
<1>2. \A row \in rows : row.counted \subseteq Ids /\ Sso(row) # {}
  BY DEF CountInv, TrafficShapes, Belongs, Row
<1>3. \A r \in Runs : run[r] \in Command
  BY DEF RunShapes
<1>. QED
  BY <1>1, <1>2, <1>3 DEF TypeOK, CountInv, TrafficShapes, RunShapes, Entry, Command

LEMMA ReportsInitial ==
  ASSUME TrafficConstants, Init PROVE ReportsInv
<1>1. RunShapes
  BY ShapesInitial
<1>2. rows = {} /\ report = [k \in Reports |-> NoReport] /\ \A r \in Runs : run[r] = NoRun
  BY DEF Init
<1>3. Active = {}
  BY <1>2 DEF Active, NoRun
<1>4. \A k \in Reports : Sums(report[k].requests, ReportedRows(k)) /\ report[k].status = report[k].requests
  <2>1. ASSUME NEW k \in Reports, NEW i \in Ids
        PROVE  report[k].requests[i] = Cardinality({row \in ReportedRows(k) : i \in Sso(row)})
    <3>1. {row \in ReportedRows(k) : i \in Sso(row)} = {}
      BY <1>2 DEF ReportedRows
    <3>2. report[k].requests[i] = 0
      BY <1>2 DEF NoReport, Nothing
    <3>. QED
      BY <3>1, <3>2, FS_EmptySet
  <2>2. \A k \in Reports : report[k].status = report[k].requests
    BY <1>2 DEF NoReport
  <2>. QED
    BY <2>1, <2>2 DEF Sums
<1>5. \A r \in Runs : run[r].batch = 0 /\ run[r].new = {}
  BY <1>2 DEF NoRun
<1>. QED
  BY <1>1, <1>2, <1>3, <1>4, <1>5 DEF ReportsInv

(* Jobs go on beside the runs.                                              *)
LEMMA RunsAside ==
  ASSUME ReportsInv, RunShapes', UNCHANGED <<rows, processed, report, run, belated, overlapped, shared>>,
         \A r \in Runs, c \in Clusters : job[<<r, c>>].pc = "done" => job'[<<r, c>>].pc = "done",
         TrafficConstants, TrafficShapes
  PROVE  ReportsInv'
<1>1. Active' = Active /\ \A k : ReportedRows(k)' = ReportedRows(k)
  BY DEF Active, ReportedRows
<1>2. \A r, k : Holds(r, k)' <=> Holds(r, k)
  <2>1. \A r, k : AddedTo(r, k)' = AddedTo(r, k)
    BY DEF AddedTo
  <2>. QED
    BY <1>1, <2>1 DEF Holds
<1>3. ASSUME NEW r \in Runs, Adding(r) PROVE Adding(r)'
  <2>1. Batches(r)' = Batches(r)
    BY DEF Batches
  <2>2. run[r].batch # 0 => run[r].batch \in Runs /\ run[r].cluster \in Clusters
    <3>1. run[r].batch \in 0..MaxRuns
      BY DEF ReportsInv, RunShapes, Command
    <3>. QED
      BY <1>3, <3>1 DEF Adding, Runs, TrafficConstants
  <2>. QED
    BY <1>3, <2>1, <2>2 DEF Adding
<1>4. \A row \in rows : row.batch \in Runs /\ row.cluster \in Clusters
  BY DEF TrafficShapes, Row
<1>. QED
  BY <1>1, <1>2, <1>3, <1>4 DEF ReportsInv, Active

(* A run goes on with what it has in memory.                                *)
LEMMA MemoryKept ==
  ASSUME ReportsInv, RunShapes', NEW r \in Active, NEW x, x.pc \notin {"none", "done"},
         run' = [run EXCEPT ![r] = x], x.memory = run[r].memory,
         UNCHANGED <<rows, processed, report, job, overlapped, shared>>,
         \A k \in Reports : AddedTo(r, k) = {} /\ AddedTo(r, k)' = {} /\ ReportedRows(k)' = ReportedRows(k),
         x.pc # "batch" => x.batch = 0 /\ x.new = {}, x.pc = "save" => run[r].pc = "save",
         ~overlapped /\ x.pc = "batch" => Adding(r)',
         ~overlapped /\ ~shared => \A k \in Reports : run[r].memory[k].of # None =>
           run[r].memory[k].of \notin x.new /\ run[r].memory[k].of.cluster \notin x.todo
  PROVE  ReportsInv'
<1>1. r \in Runs /\ run'[r] = x /\ \A q \in Runs \ {r} : run'[q] = run[q]
  BY DEF ReportsInv, RunShapes, Active
<1>2. Active' = Active
  BY <1>1 DEF Active
<1>3. \A k \in Reports : AddedTo(r, k)' = AddedTo(r, k)
  OBVIOUS
<1>4. ASSUME ~overlapped, NEW k \in Reports PROVE Holds(r, k)'
  <2>1. run'[r].memory = run[r].memory /\ run'[r].new = x.new /\ run'[r].todo = x.todo
    BY <1>1
  <2>2. Holds(r, k)
    BY <1>4 DEF ReportsInv
  <2>. QED
    BY <1>3, <1>4, <2>1, <2>2 DEF Holds
<1>5. \A q \in Runs : run'[q].pc # "batch" => run'[q].batch = 0 /\ run'[q].new = {}
  BY <1>1 DEF ReportsInv
<1>6. ~overlapped => \A q \in Active : q = r
  BY DEF ReportsInv
<1>7. ~overlapped => (x.pc = "save" => \A k \in Reports : ~x.memory[k].loaded)
  BY DEF ReportsInv
<1>8. /\ \A row \in rows : job[<<row.batch, row.cluster>>].pc = "done"
      /\ ~overlapped => \A k \in Reports : /\ Sums(report[k].requests, ReportedRows(k))
                                           /\ ~shared => report[k].status = report[k].requests
  BY DEF ReportsInv
<1>9. ~overlapped => \A q, o \in Active : q = o
  BY DEF ReportsInv
<1>. QED
  BY <1>1, <1>2, <1>4, <1>5, <1>6, <1>7, <1>8, <1>9 DEF ReportsInv

(* A run starts or ends, and nothing but a run in progress holds reports.   *)
LEMMA RunStartsOrEnds ==
  ASSUME ReportsInv, RunShapes', NEW r \in Runs, NEW x,
         run' = [run EXCEPT ![r] = x], x.batch = 0, x.new = {}, x.pc \in {"save", "done"},
         x.memory = [k \in Reports |-> Unloaded],
         UNCHANGED <<rows, processed, report, belated, job, shared>>,
         overlapped => overlapped', ~overlapped' /\ x.pc = "save" => Active = {}
  PROVE  ReportsInv'
<1>1. run'[r] = x /\ \A q \in Runs \ {r} : run'[q] = run[q]
  BY DEF ReportsInv, RunShapes
<1>2. /\ x.pc = "save" => Active' \subseteq Active \cup {r}
      /\ x.pc = "done" => Active' = Active \ {r}
  BY <1>1 DEF Active
<1>3. \A k : ReportedRows(k)' = ReportedRows(k)
  BY DEF ReportedRows
<1>4. ASSUME x.pc = "save", NEW k \in Reports PROVE Holds(r, k)' /\ ~run'[r].memory[k].loaded
  <2>1. AddedTo(r, k)' = {}
    BY <1>1, <1>4 DEF AddedTo
  <2>2. run'[r].memory[k] = Unloaded
    BY <1>1
  <2>. QED
    BY <2>1, <2>2 DEF Holds, Unloaded
<1>5. ASSUME ~overlapped, NEW q \in Active, q # r
      PROVE  /\ \A k \in Reports : Holds(q, k)'
             /\ run'[q].pc = "save" => \A k \in Reports : ~run'[q].memory[k].loaded
             /\ run'[q].pc = "batch" => Adding(q)'
  <2>1. q \in Runs /\ run'[q] = run[q]
    BY <1>1, <1>5 DEF Active
  <2>2. \A k : AddedTo(q, k)' = AddedTo(q, k)
    BY <2>1 DEF AddedTo
  <2>3. \A k : Holds(q, k)' <=> Holds(q, k)
    <3>. SUFFICES ASSUME NEW k PROVE Holds(q, k)' <=> Holds(q, k)
      OBVIOUS
    <3>. QED
      BY <1>3, <2>1, <2>2 DEF Holds
  <2>4. Adding(q)' <=> Adding(q)
    BY <2>1 DEF Adding, Batches
  <2>. QED
    BY <1>5, <2>1, <2>3, <2>4 DEF ReportsInv
<1>6. \A q \in Runs : run'[q].pc # "batch" => run'[q].batch = 0 /\ run'[q].new = {}
  BY <1>1 DEF ReportsInv
<1>7. /\ \A row \in rows : job[<<row.batch, row.cluster>>].pc = "done"
      /\ ~overlapped => \A k \in Reports : /\ Sums(report[k].requests, ReportedRows(k))
                                           /\ ~shared => report[k].status = report[k].requests
      /\ ~overlapped => \A q, o \in Active : q = o
  BY DEF ReportsInv
<1>8. ASSUME ~overlapped', x.pc = "save" PROVE \A q \in Active' : q = r
  BY <1>2, <1>8
<1>9. ASSUME ~overlapped', x.pc = "done" PROVE Active' = Active \ {r}
  BY <1>2, <1>9
<1>. QED
  BY <1>1, <1>3, <1>4, <1>5, <1>6, <1>7, <1>8, <1>9 DEF ReportsInv

(* The steps of a run that add nothing.                                     *)
LEMMA RunGoesOn ==
  ASSUME TrafficConstants, TrafficShapes, ReportsInv, RunShapes', NEW r \in Runs,
         \/ StartRun(r) \/ Populate(r) \/ CommitFails(r) \/ NextCluster(r)
         \/ \E c \in Clusters : Saved(r, c) \/ CallFails(r, c)
  PROVE  ReportsInv'
<1>1. run \in [Runs -> Command] /\ run[r] \in Command
  BY DEF ReportsInv, RunShapes
<1>2. CASE StartRun(r)
  <2>1. PICK x : x = [NoRun EXCEPT !.pc = "save", !.todo = Clusters]
    OBVIOUS
  <2>2. /\ x.batch = 0 /\ x.new = {} /\ x.pc = "save"
        /\ x.memory = [k \in Reports |-> Unloaded]
    BY <2>1 DEF NoRun
  <2>3. /\ run' = [run EXCEPT ![r] = x] /\ overlapped' = (overlapped \/ Active # {})
        /\ UNCHANGED <<rows, processed, report, belated, job, shared>>
    BY <1>2, <2>1 DEF StartRun
  <2>. QED
    BY <2>2, <2>3, RunStartsOrEnds
<1>3. CASE CommitFails(r) \/ (NextCluster(r) /\ run[r].todo = {})
  <2>1. PICK x : x = [NoRun EXCEPT !.pc = "done"]
    OBVIOUS
  <2>2. /\ x.batch = 0 /\ x.new = {} /\ x.pc = "done"
        /\ x.memory = [k \in Reports |-> Unloaded]
    BY <2>1 DEF NoRun
  <2>3. /\ run' = [run EXCEPT ![r] = x] /\ overlapped' = overlapped
        /\ UNCHANGED <<rows, processed, report, belated, job, shared>>
    BY <1>3, <2>1 DEF CommitFails, NextCluster, history
  <2>. QED
    BY <2>2, <2>3, RunStartsOrEnds
<1>4. \A k : UNCHANGED <<rows, processed, belated>> => ReportedRows(k)' = ReportedRows(k)
  BY DEF ReportedRows
<1>5. \A k : run[r].batch = 0 => AddedTo(r, k) = {}
  BY DEF AddedTo
<1>6. \A k : run'[r].batch = 0 => AddedTo(r, k)' = {}
  BY DEF AddedTo
<1>7. CASE Populate(r) \/ \E c \in Clusters : Saved(r, c) \/ CallFails(r, c)
  <2>1. /\ run[r].pc = "save" /\ r \in Active /\ run[r].batch = 0 /\ run[r].new = {}
        /\ UNCHANGED <<rows, processed, report, belated, job, shared, overlapped>>
    BY <1>7 DEF Populate, Saved, CallFails, Active, history, ReportsInv
  <2>2. PICK x : /\ run' = [run EXCEPT ![r] = x] /\ x.pc \in {"save", "next"}
                 /\ x.memory = run[r].memory /\ x.batch = 0 /\ x.new = {}
    <3>1. CASE Populate(r)
      <4>1. PICK x : x = [run[r] EXCEPT !.pc = "next", !.todo = Clusters]
        OBVIOUS
      <4>2. /\ run' = [run EXCEPT ![r] = x] /\ x.pc = "next" /\ x.memory = run[r].memory
            /\ x.batch = run[r].batch /\ x.new = run[r].new
        BY <1>1, <3>1, <4>1 DEF Populate, Command
      <4>. QED
        BY <2>1, <4>2
    <3>2. CASE \E c \in Clusters : Saved(r, c) \/ CallFails(r, c)
      <4>1. PICK c \in Clusters : Saved(r, c) \/ CallFails(r, c)
        BY <3>2
      <4>2. PICK x : x = [run[r] EXCEPT !.todo = run[r].todo \ {c}]
        OBVIOUS
      <4>3. /\ run' = [run EXCEPT ![r] = x] /\ x.pc = run[r].pc /\ x.memory = run[r].memory
            /\ x.batch = run[r].batch /\ x.new = run[r].new
        BY <1>1, <4>1, <4>2 DEF Saved, CallFails, Command
      <4>. QED
        BY <2>1, <4>3
    <3>. QED
      BY <1>7, <3>1, <3>2
  <2>3. run'[r] = x
    BY <1>1, <2>2
  <2>4. ~overlapped => \A k \in Reports : run[r].memory[k].of = None
    BY <2>1 DEF ReportsInv, Holds
  <2>. QED
    BY <1>4, <1>5, <1>6, <2>1, <2>2, <2>3, <2>4, MemoryKept
<1>8. CASE NextCluster(r) /\ run[r].todo # {}
  <2>1. /\ run[r].pc = "batch" /\ r \in Active /\ run[r].batch = 0 /\ run[r].new = {}
        /\ UNCHANGED <<rows, processed, report, belated, job, shared, overlapped>>
    BY <1>8 DEF NextCluster, Active, history
  <2>2. PICK x : x = [run[r] EXCEPT !.pc = "next"]
    OBVIOUS
  <2>3. /\ run' = [run EXCEPT ![r] = x] /\ x.pc = "next" /\ x.memory = run[r].memory
        /\ x.batch = 0 /\ x.new = {} /\ x.todo = run[r].todo
    BY <1>1, <1>8, <2>1, <2>2 DEF NextCluster, Command
  <2>4. run'[r] = x
    BY <1>1, <2>3
  <2>5. ~overlapped /\ ~shared => \A k \in Reports : run[r].memory[k].of # None =>
          run[r].memory[k].of.cluster \notin run[r].todo
    BY <2>1 DEF ReportsInv, Holds
  <2>. QED
    BY <1>4, <1>5, <1>6, <2>1, <2>3, <2>4, <2>5, MemoryKept
<1>9. CASE NextCluster(r)
  BY <1>3, <1>8, <1>9
<1>10. CASE CommitFails(r)
  BY <1>3, <1>10
<1>11. CASE Populate(r)
  BY <1>7, <1>11
<1>12. CASE \E c \in Clusters : Saved(r, c) \/ CallFails(r, c)
  BY <1>7, <1>12
<1>. QED
  BY <1>2, <1>9, <1>10, <1>11, <1>12

LEMMA RowsRead ==
  ASSUME TrafficConstants, TrafficShapes, ReportsInv, RunShapes', NEW r \in Runs, NEW c \in Clusters,
         ReadRows(r, c)
  PROVE  ReportsInv'
<1>1. run \in [Runs -> Command] /\ run[r] \in Command
  BY DEF ReportsInv, RunShapes
<1>2. /\ run[r].pc = "next" /\ c \in run[r].todo /\ r \in Active
      /\ belated' = belated \ NewRows(c)
      /\ UNCHANGED <<rows, processed, report, job, shared, overlapped>>
  BY DEF ReadRows, Active
<1>3. run[r].batch = 0
  BY <1>2 DEF ReportsInv
<1>4. PICK x : x = [run[r] EXCEPT !.pc = "batch", !.cluster = c, !.todo = run[r].todo \ {c},
                                  !.new = NewRows(c)]
  OBVIOUS
<1>5. /\ run' = [run EXCEPT ![r] = x] /\ x.pc = "batch" /\ x.memory = run[r].memory
      /\ x.batch = 0 /\ x.new = NewRows(c) /\ x.todo = run[r].todo \ {c} /\ x.cluster = c
  BY <1>1, <1>3, <1>4 DEF ReadRows, Command
<1>6. run'[r] = x
  BY <1>1, <1>5
<1>7. \A k : AddedTo(r, k) = {} /\ AddedTo(r, k)' = {}
  BY <1>3, <1>5, <1>6 DEF AddedTo
<1>8. \A row \in rows : row.batch \in Nat /\ row.batch # 0 /\ row.cluster \in Clusters
  BY DEF TrafficShapes, Row, Runs, TrafficConstants
<1>9. \A d \in Clusters : processed[d] \in Nat
  BY DEF ReportsInv, RunShapes, TrafficConstants
<1>10. \A k : ReportedRows(k)' = ReportedRows(k)
  <2>1. \A row \in NewRows(c) : ~(row.batch <= processed[row.cluster])
    BY <1>8, <1>9 DEF NewRows
  <2>. QED
    BY <1>2, <2>1 DEF ReportedRows
<1>11. Adding(r)'
  <2>1. Batches(r)' = {row.batch : row \in NewRows(c)} \cup {0}
    BY <1>5, <1>6 DEF Batches
  <2>2. \A row \in NewRows(c) :
          row \in rows /\ row.cluster = c /\ row.batch > processed[c] /\ row.batch >= 0
    BY <1>8 DEF NewRows
  <2>3. \A row \in rows : row.cluster = c =>
          IF row.batch \in Batches(r)' THEN row \notin belated' /\ row \in NewRows(c)
          ELSE ~(row.batch > processed[c])
    BY <1>2, <1>8, <2>1 DEF NewRows
  <2>. QED
    BY <1>2, <1>5, <1>6, <2>2, <2>3 DEF Adding
<1>12. ~overlapped /\ ~shared => \A k \in Reports : run[r].memory[k].of # None =>
         run[r].memory[k].of \notin x.new /\ run[r].memory[k].of.cluster \notin x.todo
  <2>1. ~overlapped /\ ~shared => \A k \in Reports : run[r].memory[k].of # None =>
          run[r].memory[k].of.cluster \notin run[r].todo
    BY <1>2 DEF ReportsInv, Holds
  <2>. QED
    BY <1>2, <1>5, <2>1 DEF NewRows
<1>. QED
  BY <1>2, <1>5, <1>7, <1>10, <1>11, <1>12, MemoryKept

(* The rows of a save, which are of no batch that is being added.           *)
LEMMA RowsJoin ==
  ASSUME TrafficConstants, TrafficShapes, Belongs, ReportsInv, RunShapes',
         NEW r \in Runs, NEW c \in Clusters, CommitRows(r, c)
  PROVE  ReportsInv'
<1>1. /\ job[<<r, c>>].pc = "commit" /\ rows' = rows \cup RowsOf(r, c)
      /\ belated' = IF Overtaken(r, c) THEN belated \cup RowsOf(r, c) ELSE belated
      /\ UNCHANGED <<processed, report, run, overlapped, shared>>
  BY DEF CommitRows, JobAt
<1>2. ASSUME NEW row \in RowsOf(r, c) PROVE row.cluster = c /\ row.batch = r
  <2>1. PICK read : read = job[<<r, c>>].read
    OBVIOUS
  <2>2. /\ row \in Row /\ row.cluster = c /\ row.batch = r
        /\ \A i \in row.counted :
             \E e \in 1..Len(read) : read[e].interval = row.interval /\ i \in read[e].counted
    BY <2>1, RowsOfList
  <2>. QED
    BY <2>2
<1>3. \A row \in rows : ~(row.cluster = c /\ row.batch = r)
  BY <1>1 DEF ReportsInv
<1>4. \A row \in rows : row \in belated' <=> row \in belated
  BY <1>1, <1>2, <1>3
<1>5. r \in Nat /\ r # 0 /\ processed[c] \in Nat
  BY DEF Runs, TrafficConstants, ReportsInv, RunShapes
<1>6. \A k : ReportedRows(k)' = ReportedRows(k)
  <2>1. \A row \in RowsOf(r, c) : row.batch <= processed[row.cluster] => row \in belated'
    BY <1>1, <1>2 DEF Overtaken
  <2>. QED
    BY <1>1, <1>4, <2>1 DEF ReportedRows
<1>7. job \in [Runs \X Clusters -> Job] /\ job' = [job EXCEPT ![<<r, c>>] = [NoJob EXCEPT !.pc = "done"]]
  BY DEF TrafficShapes, CommitRows
<1>8. \A q \in Runs, d \in Clusters :
        job'[<<q, d>>].pc = "done" <=> job[<<q, d>>].pc = "done" \/ <<q, d>> = <<r, c>>
  BY <1>7 DEF NoJob
<1>9. \A row \in rows : row.batch \in Runs /\ row.cluster \in Clusters
  BY DEF TrafficShapes, Row
<1>10. \A row \in rows' : job'[<<row.batch, row.cluster>>].pc = "done"
  <2>1. ASSUME NEW row \in rows PROVE job'[<<row.batch, row.cluster>>].pc = "done"
    BY <1>8, <1>9 DEF ReportsInv
  <2>2. ASSUME NEW row \in RowsOf(r, c) PROVE job'[<<row.batch, row.cluster>>].pc = "done"
    BY <1>2, <1>8
  <2>. QED
    BY <1>1, <2>1, <2>2
<1>11. ASSUME NEW q \in Active, ~overlapped PROVE \A k \in Reports : Holds(q, k)'
  <2>1. \A k : AddedTo(q, k)' = AddedTo(q, k)
    <3>1. ASSUME run[q].pc = "batch", run[q].batch # 0, run[q].cluster = c PROVE run[q].batch # r
      BY <1>1, <1>11, <3>1 DEF ReportsInv, Adding
    <3>2. \A row \in RowsOf(r, c) :
            ~(/\ run[q].pc = "batch" /\ run[q].batch # 0
              /\ row.cluster = run[q].cluster /\ row.batch = run[q].batch)
      BY <1>2, <3>1
    <3>. QED
      BY <1>1, <3>2 DEF AddedTo
  <2>2. \A k \in Reports : Holds(q, k)
    BY <1>11 DEF ReportsInv
  <2>. QED
    BY <1>1, <1>6, <2>1, <2>2 DEF Holds
<1>12. ASSUME NEW q \in Active, ~overlapped, run[q].pc = "batch" PROVE Adding(q)'
  <2>1. Adding(q) /\ Batches(q)' = Batches(q) /\ q \in Runs
    BY <1>1, <1>12 DEF ReportsInv, Batches, Active
  <2>2. run[q].batch \in 0..MaxRuns
    BY <2>1 DEF ReportsInv, RunShapes, Command
  <2>3. run[q].batch # 0 => job'[<<run[q].batch, run[q].cluster>>].pc = "done"
    <3>1. run[q].batch # 0 => run[q].batch \in Runs
      BY <2>2 DEF Runs, TrafficConstants
    <3>. QED
      BY <1>8, <2>1, <3>1 DEF Adding
  <2>4. ASSUME run[q].cluster = c
        PROVE  /\ r \notin Batches(q)
               /\ Overtaken(r, c) \/ \A n \in Batches(q) : r > n
    <3>1. run[q].batch # 0 => run[q].batch # r
      BY <1>1, <2>1, <2>4 DEF Adding
    <3>2. \A row \in run[q].new : row.batch # r /\ row.batch \in Nat
      BY <1>3, <1>9, <2>1, <2>4 DEF Adding, Runs, TrafficConstants
    <3>3. r \notin Batches(q)
      BY <1>5, <3>1, <3>2 DEF Batches
    <3>4. ~Overtaken(r, c) => ~(r < run[q].batch) /\ \A row \in run[q].new : ~(r < row.batch)
      BY <1>12, <2>1, <2>4 DEF Overtaken
    <3>5. run[q].batch \in Nat
      BY <2>2 DEF TrafficConstants
    <3>. QED
      BY <1>5, <3>1, <3>2, <3>3, <3>4, <3>5 DEF Batches
  <2>5. \A row \in rows' : row.cluster = run[q].cluster =>
          IF row.batch \in Batches(q) THEN row \notin belated' /\ (row \in run[q].new \/ row.batch = run[q].batch)
          ELSE row.batch > processed[run[q].cluster] /\ row \notin belated' =>
                 \A n \in Batches(q) : row.batch > n
    <3>1. SUFFICES ASSUME NEW row \in rows', row.cluster = run[q].cluster
                   PROVE  IF row.batch \in Batches(q)
                            THEN row \notin belated' /\ (row \in run[q].new \/ row.batch = run[q].batch)
                          ELSE row.batch > processed[run[q].cluster] /\ row \notin belated' =>
                                 \A n \in Batches(q) : row.batch > n
      OBVIOUS
    <3>2. CASE row \in rows
      BY <1>4, <2>1, <3>1, <3>2 DEF Adding
    <3>3. CASE row \in RowsOf(r, c)
      BY <1>1, <1>2, <2>4, <3>1, <3>3
    <3>. QED
      BY <1>1, <3>1, <3>2, <3>3
  <2>. QED
    BY <1>1, <2>1, <2>3, <2>5 DEF Adding
<1>13. Active' = Active /\ \A q \in Runs : run'[q] = run[q]
  BY <1>1 DEF Active
<1>. QED
  BY <1>1, <1>6, <1>10, <1>11, <1>12, <1>13 DEF ReportsInv, Active

LEMMA SumsPlus ==
  ASSUME NEW count \in Count, NEW S, IsFiniteSet(S), NEW row, row \notin S, Sums(count, S)
  PROVE  Sums(Plus(count, 1, Sso(row)), S \cup {row})
<1> SUFFICES ASSUME NEW i \in Ids
             PROVE  Plus(count, 1, Sso(row))[i]
                      = Cardinality({o \in S \cup {row} : i \in Sso(o)})
  BY DEF Sums
<1>1. PICK T : T = {o \in S : i \in Sso(o)}
  OBVIOUS
<1>2. T \in SUBSET S /\ row \notin T
  BY <1>1
<1>3. IsFiniteSet(T) /\ count[i] = Cardinality(T)
  BY <1>1, <1>2, FS_Subset DEF Sums
<1>4. CASE i \in Sso(row)
  <2>1. {o \in S \cup {row} : i \in Sso(o)} = T \cup {row}
    BY <1>1, <1>4
  <2>2. Cardinality(T \cup {row}) = Cardinality(T) + 1
    BY <1>2, <1>3, FS_AddElement
  <2>. QED
    BY <1>3, <1>4, <2>1, <2>2 DEF Plus
<1>5. CASE i \notin Sso(row)
  <2>1. {o \in S \cup {row} : i \in Sso(o)} = T
    BY <1>1, <1>5
  <2>2. Plus(count, 1, Sso(row))[i] = count[i]
    BY <1>5 DEF Plus, Count
  <2>. QED
    BY <1>3, <2>1, <2>2
<1>. QED
  BY <1>4, <1>5

(* Reports that share no dictionary count each row once in their status.    *)
LEMMA TimesOnce ==
  ASSUME RunShapes, NEW r \in Runs, NEW row, NEW k \in Reports,
         run[r].memory[k].of # None =>
           \A j \in Reports : run[r].memory[j].of = run[r].memory[k].of => j = k
  PROVE  Times(r, row, k) = IF k \in KeysOf(row) THEN 1 ELSE 0
<1>1. PICK m : m = InMemory(r, k)
  OBVIOUS
<1>2. m.of = run[r].memory[k].of
  BY <1>1, InMemoryIs
<1>3. PICK S : S = {j \in KeysOf(row) : IF m.of = None THEN j = k ELSE InMemory(r, j).of = m.of}
  OBVIOUS
<1>4. \A j \in KeysOf(row) : j \in Reports /\ InMemory(r, j).of = run[r].memory[j].of
  BY KeysFinite, InMemoryIs
<1>5. \A j \in KeysOf(row) : (IF m.of = None THEN j = k ELSE InMemory(r, j).of = m.of) <=> j = k
  BY <1>1, <1>2, <1>4
<1>6. S = IF k \in KeysOf(row) THEN {k} ELSE {}
  BY <1>3, <1>5
<1>7. Cardinality(S) = IF k \in KeysOf(row) THEN 1 ELSE 0
  BY <1>6, FS_Singleton, FS_EmptySet
<1>. QED
  BY <1>1, <1>3, <1>7 DEF Times

LEMMA RowAdded ==
  ASSUME TrafficConstants, TrafficShapes, ReportsInv, RunShapes',
         NEW r \in Runs, NEW row \in run[r].new, AddRow(r, row)
  PROVE  ReportsInv'
<1> DEFINE c == run[r].cluster
           b == run[r].batch
<1>1. /\ run[r].pc = "batch" /\ r \in Active /\ b \in {0, row.batch}
      /\ \A o \in run[r].new : row.batch <= o.batch
      /\ shared' = (shared \/ Cardinality({k \in KeysOf(row) :
                                             InMemory(r, k).data.status = Nothing}) > 1)
      /\ UNCHANGED <<rows, processed, report, job, belated, overlapped>>
  BY DEF AddRow, Active, FirstBatch
<1>2. RunShapes /\ run[r] \in Command /\ run \in [Runs -> Command]
  BY DEF ReportsInv, RunShapes
<1>3. row \in Row /\ row.batch \in Nat /\ row.batch # 0
  BY <1>2 DEF Command, Row, Runs, TrafficConstants
<1>4. PICK x : x = [run[r] EXCEPT !.new = run[r].new \ {row}, !.batch = row.batch,
                                  !.memory = [k \in Reports |-> Added(r, row, k)]]
  OBVIOUS
<1>5. /\ run' = [run EXCEPT ![r] = x] /\ x.pc = "batch" /\ x.new = run[r].new \ {row}
      /\ x.batch = row.batch /\ x.todo = run[r].todo /\ x.cluster = c
      /\ \A k \in Reports : x.memory[k] = Added(r, row, k)
  BY <1>1, <1>2, <1>4 DEF AddRow, Command
<1>6. run'[r] = x /\ \A q \in Runs \ {r} : run'[q] = run[q]
  BY <1>2, <1>5
<1>7. Active' = Active
  BY <1>1, <1>5, <1>6 DEF Active
<1>8. \A o \in rows : o.batch \in Nat /\ o.batch # 0 /\ o.cluster \in Clusters
  BY DEF TrafficShapes, Row, Runs, TrafficConstants
<1>9. \A k : ReportedRows(k)' = ReportedRows(k)
  BY <1>1 DEF ReportedRows
<1>10. /\ \A o \in rows : job'[<<o.batch, o.cluster>>].pc = "done"
       /\ \A q \in Runs : run'[q].pc # "batch" => run'[q].batch = 0 /\ run'[q].new = {}
  BY <1>1, <1>5, <1>6 DEF ReportsInv
<1>11. shared => shared'
  BY <1>1
<1>12. ASSUME ~overlapped PROVE Adding(r) /\ \A k \in Reports : Holds(r, k)
  BY <1>1, <1>12 DEF ReportsInv
<1>13. ASSUME ~overlapped
       PROVE  /\ row \in rows /\ row.cluster = c /\ row.batch > processed[c]
              /\ row.batch \in Batches(r) /\ c \in Clusters
  BY <1>12, <1>13 DEF Adding, Batches
<1> HIDE DEF c, b
<1>14. ASSUME ~overlapped, NEW k
       PROVE  AddedTo(r, k)' = IF k \in KeysOf(row) THEN AddedTo(r, k) \cup {row} ELSE AddedTo(r, k)
  <2>1. \A o \in rows : o \in AddedTo(r, k)' <=>
          k \in KeysOf(o) /\ o.cluster = c /\ o.batch = row.batch /\ (o = row \/ o \notin run[r].new)
    BY <1>1, <1>3, <1>5, <1>6 DEF AddedTo
  <2>2. \A o \in rows : o \in AddedTo(r, k) <=>
          /\ b # 0 /\ k \in KeysOf(o) /\ o.cluster = c /\ o.batch = b /\ o \notin run[r].new
    BY <1>1 DEF AddedTo, b, c
  <2>3. \A o \in rows : o.cluster = c /\ o.batch = row.batch => o \in run[r].new \/ o.batch = b
    BY <1>12, <1>13, <1>14 DEF Adding, c, b
  <2>4. \A o \in rows : o \in AddedTo(r, k)' <=>
          o \in AddedTo(r, k) \/ (o = row /\ k \in KeysOf(row))
    BY <1>1, <1>3, <1>13, <1>14, <2>1, <2>2, <2>3
  <2>5. AddedTo(r, k)' \subseteq rows /\ AddedTo(r, k) \subseteq rows
    BY <1>1 DEF AddedTo
  <2>. QED
    BY <1>13, <1>14, <2>4, <2>5
<1>15. ASSUME ~overlapped, NEW k
       PROVE  row \notin ReportedRows(k) \cup AddedTo(r, k) /\ IsFiniteSet(ReportedRows(k) \cup AddedTo(r, k))
  <2>1. processed[c] \in Nat
    BY <1>2, <1>13, <1>15 DEF RunShapes, TrafficConstants
  <2>2. row \notin ReportedRows(k) \cup AddedTo(r, k)
    BY <1>3, <1>13, <1>15, <2>1 DEF ReportedRows, AddedTo
  <2>3. ReportedRows(k) \cup AddedTo(r, k) \in SUBSET rows /\ IsFiniteSet(rows)
    BY <1>2 DEF ReportedRows, AddedTo, RunShapes
  <2>. QED
    BY <2>2, <2>3, FS_Subset
<1>16. ASSUME ~overlapped, NEW k \in Reports
       PROVE  /\ InMemory(r, k) \in Memory
              /\ Sums(InMemory(r, k).data.requests, ReportedRows(k) \cup AddedTo(r, k))
              /\ ~shared => InMemory(r, k).data.status = InMemory(r, k).data.requests
  <2>1. CASE run[r].memory[k].loaded
    <3>1. InMemory(r, k).data = run[r].memory[k].data /\ InMemory(r, k) \in Memory
      BY <1>2, <2>1, InMemoryIs
    <3>2. Holds(r, k)
      BY <1>12, <1>16
    <3>. QED
      BY <2>1, <3>1, <3>2 DEF Holds
  <2>2. CASE ~run[r].memory[k].loaded
    <3>1. AddedTo(r, k) = {}
      BY <1>12, <1>16, <2>2 DEF Holds
    <3>2. ReportedRows(k) \cup AddedTo(r, k) = ReportedRows(k)
      BY <3>1
    <3>3. InMemory(r, k).data = report[k] /\ InMemory(r, k) \in Memory
      BY <1>2, <2>2, InMemoryIs
    <3>. QED
      BY <1>16, <3>2, <3>3 DEF ReportsInv
  <2>. QED
    BY <2>1, <2>2
<1>17. ASSUME ~overlapped, NEW k \in Reports PROVE Holds(r, k)'
  <2>1. PICK m, a : m = InMemory(r, k) /\ a = Added(r, row, k)
    OBVIOUS
  <2>2. PICK mine \in BOOLEAN : mine <=> k \in KeysOf(row)
    OBVIOUS
  <2>3. /\ a \in Memory /\ (~mine /\ ~run[r].memory[k].loaded => a = run[r].memory[k])
        /\ mine \/ run[r].memory[k].loaded =>
             /\ a.loaded /\ (a.changed <=> m.changed \/ mine)
             /\ a.data.requests = IF mine THEN Plus(m.data.requests, 1, Sso(row))
                                  ELSE m.data.requests
             /\ a.data.status = Plus(m.data.status, Times(r, row, k), Sso(row))
             /\ a.of = IF m.data.status = Nothing /\ mine THEN row ELSE m.of
    <3>1. /\ a \in Memory
          /\ k \notin KeysOf(row) /\ ~run[r].memory[k].loaded => a = run[r].memory[k]
          /\ k \in KeysOf(row) \/ run[r].memory[k].loaded =>
               /\ a.loaded /\ (a.changed <=> m.changed \/ k \in KeysOf(row))
               /\ a.data.requests = IF k \in KeysOf(row) THEN Plus(m.data.requests, 1, Sso(row))
                                    ELSE m.data.requests
               /\ a.data.status = Plus(m.data.status, Times(r, row, k), Sso(row))
               /\ a.of = IF m.data.status = Nothing /\ k \in KeysOf(row) THEN row ELSE m.of
      BY <1>2, <1>3, <2>1, AddedIs
    <3>. QED
      BY <2>2, <3>1
  <2>4. m.of = run[r].memory[k].of /\ m.changed = run[r].memory[k].changed
    BY <1>2, <2>1, InMemoryIs
  <2>5. run'[r].memory[k] = a
    BY <1>5, <1>6, <2>1
  <2>6. Holds(r, k)
    BY <1>12, <1>17
  <2>7. ~a.loaded => ~mine /\ ~run[r].memory[k].loaded /\ a = run[r].memory[k]
    BY <2>3
  <2>8. a.loaded => Sums(a.data.requests, ReportedRows(k) \cup AddedTo(r, k)')
    <3>1. CASE mine
      <4>1. AddedTo(r, k)' = AddedTo(r, k) \cup {row}
        BY <1>14, <1>17, <2>2, <3>1
      <4>2. m.data.requests \in Count
        BY <1>16, <1>17, <2>1 DEF Memory, Report
      <4>3. PICK S : S = ReportedRows(k) \cup AddedTo(r, k)
        OBVIOUS
      <4>4. Sums(Plus(m.data.requests, 1, Sso(row)), S \cup {row})
        BY <1>15, <1>16, <1>17, <2>1, <4>2, <4>3, SumsPlus
      <4>5. ReportedRows(k) \cup AddedTo(r, k)' = S \cup {row}
        BY <4>1, <4>3
      <4>. QED
        BY <2>3, <3>1, <4>4, <4>5
    <3>2. CASE ~mine
      <4>1. AddedTo(r, k)' = AddedTo(r, k)
        BY <1>14, <1>17, <2>2, <3>2
      <4>2. a.loaded => run[r].memory[k].loaded
        BY <2>3, <3>2
      <4>. QED
        BY <1>16, <1>17, <2>1, <2>3, <3>2, <4>1, <4>2
    <3>. QED
      BY <3>1, <3>2
  <2>9. ~a.changed => AddedTo(r, k)' = {}
    <3>1. ~a.changed => ~mine /\ ~run[r].memory[k].changed
      BY <2>2, <2>3, <2>4
    <3>. QED
      BY <1>14, <1>17, <2>2, <2>6, <3>1 DEF Holds
  <2>10. ~a.loaded => ~a.changed /\ a.of = None
    BY <2>6, <2>7 DEF Holds
  <2>11. ASSUME ~shared', a.loaded PROVE a.data.status = a.data.requests
    <3>1. ~shared
      BY <1>11, <2>11
    <3>2. Times(r, row, k) = IF mine THEN 1 ELSE 0
      BY <1>2, <2>2, <2>6, <3>1, TimesOnce DEF Holds
    <3>3. m.data.status = m.data.requests /\ m.data.requests \in Count
      BY <1>16, <1>17, <2>1, <3>1 DEF Memory, Report
    <3>4. CASE mine \/ run[r].memory[k].loaded
      <4>1. ~mine => Plus(m.data.requests, 0, Sso(row)) = m.data.requests
        BY <3>3 DEF Plus, Count
      <4>. QED
        BY <2>2, <2>3, <3>2, <3>3, <3>4, <4>1
    <3>5. CASE ~mine /\ ~run[r].memory[k].loaded
      BY <2>3, <2>6, <2>11, <3>1, <3>5 DEF Holds
    <3>. QED
      BY <3>4, <3>5
  <2>12. ASSUME ~shared', a.of # None
         PROVE  /\ a.of \notin x.new /\ a.of.cluster \notin x.todo
                /\ \A j \in Reports : x.memory[j].of = a.of => j = k
    <3>1. ~shared
      BY <1>11, <2>12
    <3>2. \A j \in Reports : x.memory[j].of =
            IF InMemory(r, j).data.status = Nothing /\ j \in KeysOf(row) THEN row
            ELSE run[r].memory[j].of
      <4>1. SUFFICES ASSUME NEW j \in Reports
                     PROVE  Added(r, row, j).of =
                              IF InMemory(r, j).data.status = Nothing /\ j \in KeysOf(row) THEN row
                              ELSE run[r].memory[j].of
        BY <1>5
      <4>2. InMemory(r, j).of = run[r].memory[j].of
        BY <1>2, InMemoryIs
      <4>. QED
        BY <1>2, <1>3, <4>2, AddedIs
    <3>3. \A j \in Reports : run[r].memory[j].of # row
      <4>1. \A j \in Reports : run[r].memory[j].of # None => run[r].memory[j].of \notin run[r].new
        BY <1>12, <1>17, <3>1 DEF Holds
      <4>2. row # None
        BY <1>3 DEF TrafficConstants
      <4>. QED
        BY <4>1, <4>2
    <3>4. CASE m.data.status = Nothing /\ mine
      <4>1. a.of = row
        BY <2>3, <3>4
      <4>2. row \notin x.new /\ row.cluster \notin x.todo
        BY <1>5, <1>12, <1>13, <1>17 DEF Adding, c
      <4>3. ASSUME NEW j \in Reports, x.memory[j].of = row PROVE j = k
        <5>1. PICK S : S = {i \in KeysOf(row) : InMemory(r, i).data.status = Nothing}
          OBVIOUS
        <5>2. j \in S /\ k \in S
          BY <2>1, <2>2, <3>2, <3>3, <3>4, <4>3, <5>1
        <5>3. IsFiniteSet(S)
          <6>1. S \in SUBSET KeysOf(row)
            BY <5>1
          <6>. QED
            BY <6>1, KeysFinite, FS_Subset
        <5>4. ~(Cardinality(S) > 1)
          BY <1>1, <2>12, <5>1
        <5>5. SUFFICES ASSUME j # k PROVE FALSE
          OBVIOUS
        <5>6. {k} \cup {j} \in SUBSET S /\ IsFiniteSet({k}) /\ Cardinality({k}) = 1
          BY <5>2, FS_Singleton
        <5>7. Cardinality({k} \cup {j}) = 2
          <6>1. j \notin {k}
            BY <5>5
          <6>2. Cardinality({k} \cup {j}) = Cardinality({k}) + 1
            BY <5>6, <6>1, FS_AddElement
          <6>. QED
            BY <5>6, <6>2
        <5>8. Cardinality({k} \cup {j}) <= Cardinality(S) /\ Cardinality(S) \in Nat
          BY <5>3, <5>6, FS_Subset, FS_CardinalityType
        <5>. QED
          BY <5>4, <5>7, <5>8
      <4>. QED
        BY <4>1, <4>2, <4>3
    <3>5. CASE ~(m.data.status = Nothing /\ mine)
      <4>1. a.of = run[r].memory[k].of
        BY <2>3, <2>4, <3>5
      <4>2. /\ a.of \notin run[r].new /\ a.of.cluster \notin run[r].todo
            /\ \A j \in Reports : run[r].memory[j].of = a.of => j = k
        BY <2>6, <2>12, <3>1, <4>1 DEF Holds
      <4>3. a.of # row
        BY <3>3, <4>1
      <4>. QED
        BY <1>5, <3>2, <4>2, <4>3
    <3>. QED
      BY <3>4, <3>5
  <2>13. /\ a.loaded => Sums(a.data.requests, ReportedRows(k)' \cup AddedTo(r, k)')
         /\ ~shared' /\ a.loaded => a.data.status = a.data.requests
    BY <1>9, <2>8, <2>11
  <2>14. run'[r].new = x.new /\ run'[r].todo = x.todo
         /\ \A j \in Reports : run'[r].memory[j] = x.memory[j]
    BY <1>6
  <2>. QED
    BY <2>5, <2>9, <2>10, <2>12, <2>13, <2>14 DEF Holds
<1>18. ASSUME ~overlapped PROVE Adding(r)'
  <2>1. Batches(r)' = {o.batch : o \in run[r].new \ {row}} \cup {row.batch}
    BY <1>5, <1>6 DEF Batches
  <2>2. Batches(r)' \subseteq Batches(r) /\ Batches(r) \subseteq Batches(r)' \cup {0}
    BY <1>1, <1>13, <1>18, <2>1 DEF Batches, b
  <2>3. c \in Clusters /\ c \notin run[r].todo
    BY <1>12, <1>13, <1>18 DEF Adding, c
  <2>4. row.batch > processed[c] /\ job[<<row.batch, c>>].pc = "done"
    BY <1>13, <1>18 DEF ReportsInv
  <2>5. \A o \in run[r].new \ {row} :
          o \in rows /\ o.cluster = c /\ o.batch > processed[c] /\ o.batch >= row.batch
    <3>1. \A o \in run[r].new : o \in rows /\ o.cluster = c /\ o.batch > processed[c]
      BY <1>12, <1>18 DEF Adding, c
    <3>. QED
      BY <1>1, <1>3, <1>8, <3>1
  <2>6. ASSUME NEW o \in rows, o.cluster = c
        PROVE  IF o.batch \in Batches(r)'
                 THEN o \notin belated /\ (o \in run[r].new \ {row} \/ o.batch = row.batch)
               ELSE o.batch > processed[c] /\ o \notin belated =>
                      \A n \in Batches(r)' : o.batch > n
    <3>1. IF o.batch \in Batches(r) THEN o \notin belated /\ (o \in run[r].new \/ o.batch = b)
          ELSE o.batch > processed[c] /\ o \notin belated => \A n \in Batches(r) : o.batch > n
      BY <1>12, <1>18, <2>6 DEF Adding, c, b
    <3>2. o.batch \in Batches(r) <=> o.batch \in Batches(r)'
      BY <1>8, <2>2
    <3>. QED
      BY <1>1, <1>8, <2>2, <3>1, <3>2
  <2>. QED
    BY <1>1, <1>5, <1>6, <2>3, <2>4, <2>5, <2>6 DEF Adding
<1>19. ~overlapped => \A q \in Active : q = r
  BY <1>1 DEF ReportsInv
<1>20. ~overlapped => /\ \A q, o \in Active : q = o
                      /\ \A k \in Reports : /\ Sums(report[k].requests, ReportedRows(k))
                                            /\ ~shared => report[k].status = report[k].requests
  BY DEF ReportsInv
<1>. QED
  BY <1>1, <1>5, <1>6, <1>7, <1>9, <1>10, <1>11, <1>17, <1>18, <1>19, <1>20 DEF ReportsInv

(* The reports of a batch and its id are saved together.                    *)
LEMMA BatchCommitted ==
  ASSUME TrafficConstants, TrafficShapes, ReportsInv, RunShapes', NEW r \in Runs, CommitBatch(r)
  PROVE  ReportsInv'
<1> DEFINE c == run[r].cluster
           b == run[r].batch
<1>1. /\ run[r].pc = "batch" /\ r \in Active /\ b # 0 /\ \A o \in run[r].new : o.batch # b
      /\ report' = [k \in Reports |-> IF run[r].memory[k].changed THEN run[r].memory[k].data
                                      ELSE report[k]]
      /\ processed' = [processed EXCEPT ![c] = b]
      /\ UNCHANGED <<rows, job, belated, overlapped, shared>>
  BY DEF CommitBatch, Active, history
<1>2. RunShapes /\ run[r] \in Command /\ run \in [Runs -> Command]
  BY DEF ReportsInv, RunShapes
<1>3. PICK x : x = [run[r] EXCEPT !.batch = 0,
                      !.memory = [k \in Reports |-> [run[r].memory[k] EXCEPT !.changed = FALSE]]]
  OBVIOUS
<1>4. /\ run' = [run EXCEPT ![r] = x] /\ x.pc = "batch" /\ x.new = run[r].new /\ x.batch = 0
      /\ x.todo = run[r].todo /\ x.cluster = c
      /\ \A k \in Reports : x.memory[k] = [run[r].memory[k] EXCEPT !.changed = FALSE]
  BY <1>1, <1>2, <1>3 DEF CommitBatch, Command
<1>5. run'[r] = x /\ \A q \in Runs \ {r} : run'[q] = run[q]
  BY <1>2, <1>4
<1>6. Active' = Active
  BY <1>1, <1>4, <1>5 DEF Active
<1>7. \A o \in rows : o.batch \in Nat /\ o.batch # 0 /\ o.cluster \in Clusters
  BY DEF TrafficShapes, Row, Runs, TrafficConstants
<1>8. /\ \A o \in rows : job'[<<o.batch, o.cluster>>].pc = "done"
      /\ \A q \in Runs : run'[q].pc # "batch" => run'[q].batch = 0 /\ run'[q].new = {}
  BY <1>1, <1>4, <1>5 DEF ReportsInv
<1>9. ASSUME ~overlapped PROVE Adding(r) /\ \A k \in Reports : Holds(r, k)
  BY <1>1, <1>9 DEF ReportsInv
<1>10. b \in Nat /\ \A d \in Clusters : processed[d] \in Nat
  BY <1>2 DEF Command, RunShapes, TrafficConstants
<1>11. ASSUME ~overlapped
       PROVE  /\ c \in Clusters /\ b > processed[c] /\ processed'[c] = b
              /\ \A d \in Clusters \ {c} : processed'[d] = processed[d]
  BY <1>1, <1>2, <1>9, <1>11 DEF Adding, RunShapes
<1>12. ASSUME ~overlapped, NEW o \in rows, o.cluster = c
       PROVE  IF o.batch \in Batches(r) THEN o \notin belated /\ (o \in run[r].new \/ o.batch = b)
              ELSE o.batch > processed[c] /\ o \notin belated => \A n \in Batches(r) : o.batch > n
  BY <1>9, <1>12 DEF Adding
<1>13. b \in Batches(r)
  BY DEF Batches
<1>14. ASSUME ~overlapped
       PROVE  c \notin run[r].todo
              /\ \A o \in run[r].new : /\ o \in rows /\ o.cluster = c /\ o.batch > b
                                       /\ o.batch \in Batches(r)
  <2>1. /\ c \notin run[r].todo
        /\ \A o \in run[r].new : o \in rows /\ o.cluster = c /\ o.batch >= b
    BY <1>9, <1>14 DEF Adding
  <2>2. \A o \in run[r].new : o.batch > b
    BY <1>1, <1>7, <1>10, <2>1
  <2>. QED
    BY <2>1, <2>2 DEF Batches
<1> HIDE DEF c, b
<1>15. ASSUME ~overlapped, NEW k PROVE ReportedRows(k)' = ReportedRows(k) \cup AddedTo(r, k)
  <2>1. ASSUME NEW o \in rows
        PROVE  o \in ReportedRows(k)' <=> o \in ReportedRows(k) \cup AddedTo(r, k)
    <3>1. o \in ReportedRows(k) <=>
            k \in KeysOf(o) /\ o.batch <= processed[o.cluster] /\ o \notin belated
      BY DEF ReportedRows
    <3>2. o \in ReportedRows(k)' <=>
            k \in KeysOf(o) /\ o.batch <= processed'[o.cluster] /\ o \notin belated
      BY <1>1 DEF ReportedRows
    <3>3. o \in AddedTo(r, k) <=>
            k \in KeysOf(o) /\ o.cluster = c /\ o.batch = b /\ o \notin run[r].new
      BY <1>1 DEF AddedTo, b, c
    <3>4. CASE o.cluster # c
      BY <1>7, <1>11, <1>15, <3>1, <3>2, <3>3, <3>4
    <3>5. CASE o.cluster = c
      <4>1. o \in ReportedRows(k)' <=> k \in KeysOf(o) /\ o.batch <= b /\ o \notin belated
        BY <1>11, <1>15, <3>2, <3>5
      <4>2. CASE o.batch \in Batches(r)
        <5>1. o \notin belated /\ (o \in run[r].new \/ o.batch = b)
          BY <1>12, <1>15, <3>5, <4>2
        <5>2. o.batch <= b => o.batch = b /\ o \notin run[r].new
          BY <1>7, <1>10, <1>14, <1>15, <5>1
        <5>3. o.batch <= processed[c] => o.batch <= b
          BY <1>7, <1>10, <1>11, <1>15
        <5>4. o.batch = b => o.batch <= b
          BY <1>10
        <5>. QED
          BY <3>1, <3>3, <3>5, <4>1, <5>1, <5>2, <5>3, <5>4
      <4>3. CASE o.batch \notin Batches(r)
        <5>1. o.batch > processed[c] /\ o \notin belated => o.batch > b
          BY <1>12, <1>13, <1>15, <3>5, <4>3
        <5>2. o.batch # b
          BY <1>13, <4>3
        <5>3. (o.batch <= b /\ o \notin belated) <=> (o.batch <= processed[c] /\ o \notin belated)
          BY <1>7, <1>10, <1>11, <1>15, <5>1
        <5>. QED
          BY <3>1, <3>3, <3>5, <4>1, <5>2, <5>3
      <4>. QED
        BY <4>2, <4>3
    <3>. QED
      BY <3>4, <3>5
  <2>2. ReportedRows(k)' \subseteq rows /\ ReportedRows(k) \subseteq rows /\ AddedTo(r, k) \subseteq rows
    BY <1>1 DEF ReportedRows, AddedTo
  <2>. QED
    BY <2>1, <2>2
<1>16. \A k : AddedTo(r, k)' = {}
  BY <1>4, <1>5 DEF AddedTo
<1>17. ASSUME NEW k \in Reports
       PROVE  LET m == run[r].memory[k]
                  n == run'[r].memory[k]
              IN  n.loaded = m.loaded /\ n.data = m.data /\ n.of = m.of /\ ~n.changed /\ m \in Memory
  <2>1. run[r].memory[k] \in Memory
    BY <1>2 DEF Command
  <2>2. run'[r].memory[k] = [run[r].memory[k] EXCEPT !.changed = FALSE]
    BY <1>4, <1>5
  <2>. QED
    BY <2>1, <2>2 DEF Memory
<1>18. ASSUME ~overlapped, NEW k \in Reports PROVE Holds(r, k)'
  <2>1. Holds(r, k) /\ ReportedRows(k)' \cup AddedTo(r, k)' = ReportedRows(k) \cup AddedTo(r, k)
    BY <1>9, <1>15, <1>16, <1>18
  <2>2. run'[r].new = run[r].new /\ run'[r].todo = run[r].todo /\ shared' = shared
    BY <1>1, <1>4, <1>5
  <2>3. \A j \in Reports : run'[r].memory[j].of = run[r].memory[j].of
    BY <1>17
  <2>. QED
    BY <1>16, <1>17, <2>1, <2>2, <2>3 DEF Holds
<1>19. ASSUME ~overlapped, NEW k \in Reports
       PROVE  /\ Sums(report'[k].requests, ReportedRows(k)')
              /\ ~shared => report'[k].status = report'[k].requests
  <2>1. Holds(r, k)
    BY <1>9, <1>19
  <2>2. CASE run[r].memory[k].changed
    <3>1. run[r].memory[k].loaded /\ report'[k] = run[r].memory[k].data
      BY <1>1, <2>1, <2>2 DEF Holds
    <3>. QED
      BY <1>15, <1>19, <2>1, <3>1 DEF Holds
  <2>3. CASE ~run[r].memory[k].changed
    <3>1. AddedTo(r, k) = {} /\ report'[k] = report[k]
      BY <1>1, <2>1, <2>3 DEF Holds
    <3>2. ReportedRows(k)' = ReportedRows(k)
      BY <1>15, <1>19, <3>1
    <3>. QED
      BY <1>19, <3>1, <3>2 DEF ReportsInv
  <2>. QED
    BY <2>2, <2>3
<1>20. ASSUME ~overlapped PROVE Adding(r)'
  <2>1. Batches(r)' = {o.batch : o \in run[r].new} \cup {0}
    BY <1>4, <1>5 DEF Batches
  <2>2. \A o \in run[r].new : /\ o \in rows /\ o.cluster = c /\ o.batch > processed'[c]
                              /\ o.batch >= 0
    BY <1>7, <1>11, <1>14, <1>20
  <2>3. ASSUME NEW o \in rows, o.cluster = c
        PROVE  IF o.batch \in Batches(r)' THEN o \notin belated /\ o \in run[r].new
               ELSE o.batch > processed'[c] /\ o \notin belated =>
                      \A n \in Batches(r)' : o.batch > n
    <3>1. CASE o.batch \in Batches(r)'
      <4>1. o.batch \in Batches(r) /\ o.batch # b
        BY <1>7, <1>10, <1>14, <1>20, <2>1, <3>1
      <4>. QED
        BY <1>12, <1>20, <2>3, <3>1, <4>1
    <3>2. CASE o.batch \notin Batches(r)'
      <4>1. ASSUME o.batch > processed'[c], o \notin belated PROVE \A n \in Batches(r)' : o.batch > n
        <5>1. o.batch > b /\ o.batch > processed[c]
          BY <1>7, <1>10, <1>11, <1>20, <4>1
        <5>2. o.batch \notin Batches(r)
          BY <1>10, <2>1, <3>2, <5>1 DEF Batches, b
        <5>3. \A n \in Batches(r) : o.batch > n
          BY <1>12, <1>20, <2>3, <4>1, <5>1, <5>2
        <5>4. \A n \in Batches(r)' : n \in Batches(r) \/ n = 0
          BY <2>1 DEF Batches
        <5>. QED
          BY <1>7, <5>3, <5>4
      <4>. QED
        BY <3>2, <4>1
    <3>. QED
      BY <3>1, <3>2
  <2>. QED
    BY <1>1, <1>4, <1>5, <1>11, <1>14, <1>20, <2>2, <2>3 DEF Adding
<1>21. ~overlapped => \A q, o \in Active : q = o
  BY DEF ReportsInv
<1>22. run'[r].pc = "batch"
  BY <1>4, <1>5
<1>. QED
  BY <1>1, <1>6, <1>8, <1>18, <1>19, <1>20, <1>21, <1>22 DEF ReportsInv

LEMMA ReportsGoOn ==
  ASSUME TrafficConstants, CountInv, CountInv', ReportsInv, [Next]_vars PROVE ReportsInv'
<1>1. TrafficShapes /\ Belongs /\ TrafficShapes' /\ RunShapes
  BY DEF CountInv, ReportsInv
<1>2. RunShapes'
  BY <1>1, ShapesKept
<1>3. ASSUME UNCHANGED <<rows, processed, report, run, belated, overlapped, shared>>,
             \A r \in Runs, c \in Clusters : job[<<r, c>>].pc = "done" => job'[<<r, c>>].pc = "done"
      PROVE  ReportsInv'
  BY <1>1, <1>2, <1>3, RunsAside
<1>4. ASSUME Tick \/ UNCHANGED vars \/ \E i \in Ids :
               (\E c \in Clusters : Begin(i, c)) \/ Log(i) \/ RollOver(i) \/ Push(i) \/ PushFails(i)
      PROVE  ReportsInv'
  <2>1. UNCHANGED <<rows, processed, report, run, belated, overlapped, shared, job>>
    BY <1>4 DEF Tick, vars, history, Begin, Log, RollOver, Push, PushFails, Pushed
  <2>. QED
    BY <1>3, <2>1
<1>5. ASSUME NEW r \in Runs, NEW c \in Clusters,
             ReadList(r, c) \/ Trim(r, c) \/ SaveFails(r, c) \/ SaveCluster(r, c)
      PROVE  ReportsInv'
  <2>1. UNCHANGED <<rows, processed, report, run, belated, overlapped, shared>>
    BY <1>5 DEF ReadList, Trim, SaveFails, SaveCluster, history
  <2>2. job \in [Runs \X Clusters -> Job] /\ job[<<r, c>>].pc # "done"
    BY <1>1, <1>5 DEF TrafficShapes, ReadList, Trim, SaveFails, SaveCluster, JobAt
  <2>3. \A q \in Runs, d \in Clusters : <<q, d>> # <<r, c>> => job'[<<q, d>>] = job[<<q, d>>]
    BY <1>5, <2>2 DEF ReadList, Trim, SaveFails, SaveCluster
  <2>. QED
    BY <1>3, <2>1, <2>2, <2>3
<1>6. ASSUME NEW r \in Runs, NEW c \in Clusters, CommitRows(r, c) \/ ReadRows(r, c)
      PROVE  ReportsInv'
  BY <1>1, <1>2, <1>6, RowsJoin, RowsRead
<1>7. ASSUME NEW r \in Runs,
             \/ StartRun(r) \/ Populate(r) \/ CommitFails(r) \/ NextCluster(r)
             \/ \E c \in Clusters : Saved(r, c) \/ CallFails(r, c)
      PROVE  ReportsInv'
  BY <1>1, <1>2, <1>7, RunGoesOn
<1>8. ASSUME NEW r \in Runs, CommitBatch(r) \/ \E row \in run[r].new : AddRow(r, row)
      PROVE  ReportsInv'
  BY <1>1, <1>2, <1>8, BatchCommitted, RowAdded
<1>. QED
  BY <1>4, <1>5, <1>6, <1>7, <1>8 DEF Next

LEMMA TrafficBegins ==
  ASSUME TrafficConstants, Init PROVE CountInv /\ ReportsInv
BY TrafficInitial, ReportsInitial

LEMMA TrafficGoesOn ==
  ASSUME TrafficConstants, CountInv, ReportsInv, [Next]_vars PROVE CountInv' /\ ReportsInv'
BY CountingGoesOn, CountsAside, ReportsGoOn

LEMMA TrafficSafe ==
  ASSUME TrafficConstants, CountInv, ReportsInv
  PROVE  CountedOnce /\ CountedInItsInterval /\ TypeOK /\ ReportsAddUp
BY OnePlaceOnce, CountTyped DEF ReportsInv, ReportsAddUp, Sums

LEMMA TrafficHolds ==
  ASSUME TrafficConstants PROVE Spec => [](CountInv /\ ReportsInv)
<1>1. Init => CountInv /\ ReportsInv
  BY TrafficBegins
<1>2. CountInv /\ ReportsInv /\ [Next]_vars => (CountInv /\ ReportsInv)'
  BY TrafficGoesOn
<1>. QED
  BY <1>1, <1>2, PTL DEF Spec

-----------------------------------------------------------------------------
(* Every logged request is counted in exactly one place: in its worker, in  *)
(* a push, in the list in Redis, in a save under way or in one row, unless a *)
(* fault took it, two saves of its list overlapped, or it is not of the      *)
(* kinds that make a row and its interval made none; and in the interval it  *)
(* started in if it was alone in its worker (cache.py and monitorviews.py).  *)
THEOREM RequestsCountedOnce ==
  ASSUME TrafficConstants PROVE Spec => [](CountedOnce /\ CountedInItsInterval /\ TypeOK)
<1>1. CountInv /\ ReportsInv => CountedOnce /\ CountedInItsInterval /\ TypeOK
  BY TrafficSafe
<1>. QED
  BY <1>1, TrafficHolds, PTL

(* The reports add up the rows of the processed batches, each row once,      *)
(* whatever saves and commits fail and however late a save ends, as long as  *)
(* no two runs are in progress at once; and the status codes too unless two  *)
(* reports share a dictionary (_populate_reports of trafficdata.py).         *)
THEOREM ReportsAreSums ==
  ASSUME TrafficConstants PROVE Spec => []ReportsAddUp
<1>1. CountInv /\ ReportsInv => ReportsAddUp
  BY TrafficSafe
<1>. QED
  BY <1>1, TrafficHolds, PTL

=============================================================================
