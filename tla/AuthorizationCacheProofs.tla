----------------------- MODULE AuthorizationCacheProofs -----------------------
(***************************************************************************)
(* Proofs about AuthorizationCache, for any set of emails, groups, domains, *)
(* trees, authorization tables and requests and any bounds.                 *)
(***************************************************************************)
EXTENDS AuthorizationCache, TLAPS

LEMMA IdleType == Idle \in Request
BY DEF Idle, Request, PCs, Keys

(* The request record after its current table is done.                     *)
LEMMA AdvancedType ==
  ASSUME NEW q, WellFormed(q), q.todo # {}
  PROVE  WellFormed(Advanced(q)) /\ Advanced(q).pc \notin {"read", "set"}
<1>0. q \in Request
  BY DEF WellFormed
<1>1. CASE q.todo # {Table(q)}
  <2>1. Advanced(q) =
          [q EXCEPT !.pc = "check", !.todo = q.todo \ {Table(q)}, !.ts = 0, !.racy = FALSE]
    BY <1>1 DEF Advanced
  <2>2. q.todo \ {Table(q)} # {} /\ q.todo \ {Table(q)} \in SUBSET Models
    BY <1>1 DEF WellFormed, Table, Request, Models
  <2> DEFINE rest == q.todo \ {Table(q)}
  <2>3. /\ Advanced(q).pc = "check" /\ Advanced(q).todo = rest
        /\ Advanced(q).email = q.email /\ Advanced(q).after = q.after
    BY <2>1 DEF WellFormed, Request
  <2> HIDE DEF rest
  <2>4. Advanced(q) \in Request
    <3>1. \A s \in SUBSET Models :
            [q EXCEPT !.pc = "check", !.todo = s, !.ts = 0, !.racy = FALSE] \in Request
      BY <1>0 DEF Request, PCs
    <3> QED BY <2>1, <2>2, <3>1
  <2>5. Advanced(q).todo # {}
    BY <2>2, <2>3 DEF rest
  <2> QED BY <2>3, <2>4, <2>5 DEF WellFormed
<1>2. CASE q.todo = {Table(q)} /\ q.after = "idle"
  BY <1>2, IdleType DEF WellFormed, Advanced, Idle
<1>3. CASE q.todo = {Table(q)} /\ q.after # "idle"
  <2>1. Advanced(q) =
          [q EXCEPT !.pc = q.after, !.todo = {}, !.after = "idle",
                    !.ts = 0, !.racy = FALSE]
    BY <1>3 DEF Advanced
  <2>2. q.after \in {"groups", "lookup", "authorize"}
    BY <1>3 DEF WellFormed, Request
  <2>3. Advanced(q).pc = q.after /\ Advanced(q).todo = {} /\ Advanced(q).email = q.email
    BY <2>1 DEF WellFormed, Request
  <2>4. Advanced(q) \in Request
    <3>1. \A a \in {"groups", "lookup", "authorize"} :
            [q EXCEPT !.pc = a, !.todo = {}, !.after = "idle", !.ts = 0, !.racy = FALSE]
              \in Request
      BY <1>0 DEF Request, PCs
    <3> QED BY <2>1, <2>2, <3>1
  <2>5. q.email \in Emails
    BY <1>3 DEF WellFormed
  <2> QED BY <2>2, <2>3, <2>4, <2>5 DEF WellFormed
<1> QED BY <1>1, <1>2, <1>3

(***************************************************************************)
(* TypeOK, in two parts: the requests in hand, and the rest.                *)
(***************************************************************************)
RequestsOK ==
  /\ req \in [Requests -> Request]
  /\ DOMAIN rows = Requests
  /\ \A r \in Requests :
       /\ WellFormed(req[r])
       /\ req[r].pc = "set" => rows[r] \in Configs(Table(req[r]))

TablesOK ==
  /\ DOMAIN db = Models /\ DOMAIN txn = Models /\ DOMAIN cached = Models
  /\ \A m \in Models :
       /\ db[m] \in Configs(m)
       /\ txn[m] \in Configs(m) \cup {None}
       /\ cached[m] \in Configs(m) \cup {None}
  /\ lastMod \in [Models -> Nat] /\ cachedTs \in [Models -> Nat] /\ now \in Nat
  /\ emailMap \in [Emails -> Keys \cup {None}]
  /\ groupsMap \in [Keys -> Trees \cup {None}]
  /\ DOMAIN authMap = Keys \X Domains
  /\ checkTime \in {"unset", "waiting", "due"}
  /\ cpu \in Requests \cup {None}
  /\ changes \in 0..MaxChanges /\ failures \in 0..MaxFailures
  /\ racy \in [Models -> BOOLEAN] /\ lost \in [Models -> BOOLEAN]

LEMMA TypeParts == TypeOK <=> TablesOK /\ RequestsOK
BY DEF TypeOK, TablesOK, RequestsOK, WellFormed

(* A step of one request: it is enough to look at its own record.          *)
LEMMA OneRequest ==
  ASSUME RequestsOK, NEW r \in Requests, NEW q, WellFormed(q),
         req' = [req EXCEPT ![r] = q],
         DOMAIN rows' = Requests,
         \A s \in Requests \ {r} : rows'[s] = rows[s],
         q.pc = "set" => rows'[r] \in Configs(Table(q))
  PROVE  RequestsOK'
<1>1. q \in Request
  BY DEF WellFormed
<1>2. req' \in [Requests -> Request]
  BY <1>1 DEF RequestsOK
<1>3. ASSUME NEW s \in Requests
      PROVE  WellFormed(req'[s]) /\ (req'[s].pc = "set" => rows'[s] \in Configs(Table(req'[s])))
  <2>1. CASE s = r
    BY <2>1 DEF RequestsOK
  <2>2. CASE s # r
    BY <2>2 DEF RequestsOK
  <2> QED BY <2>1, <2>2
<1> QED BY <1>2, <1>3 DEF RequestsOK, WellFormed, Table, Configs

(* The records a request can move to.                                      *)
LEMMA Starts ==
  ASSUME NEW q, WellFormed(q), NEW ms \in SUBSET Models, ms # {}, NEW f \in BOOLEAN,
         NEW a \in {"idle", "groups", "lookup", "authorize"}, a = "idle" \/ q.email \in Emails
  PROVE  /\ WellFormed([q EXCEPT !.pc = "check", !.todo = ms, !.force = f, !.after = a])
         /\ [q EXCEPT !.pc = "check", !.todo = ms, !.force = f, !.after = a].pc = "check"
<1>1. q \in Request
  BY DEF WellFormed
<1> DEFINE z == [q EXCEPT !.pc = "check", !.todo = ms, !.force = f, !.after = a]
<1>2. z \in Request /\ z.pc = "check" /\ z.todo = ms /\ z.after = a /\ z.email = q.email
  BY <1>1 DEF Request, PCs
<1> QED BY <1>2 DEF WellFormed

LEMMA Moves ==
  ASSUME NEW q, WellFormed(q), q.todo = {},
         q.email \in Emails,
         NEW p \in {"groups", "refresh", "lookup", "find", "authorize"}
  PROVE  WellFormed([q EXCEPT !.pc = p]) /\ [q EXCEPT !.pc = p].pc = p
<1>1. q \in Request
  BY DEF WellFormed
<1> DEFINE z == [q EXCEPT !.pc = p]
<1>2. z \in Request /\ z.pc = p /\ z.todo = {} /\ z.email = q.email
  BY <1>1 DEF Request, PCs
<1> QED BY <1>2 DEF WellFormed

LEMMA Queries ==
  ASSUME NEW q, WellFormed(q), q.todo # {}, NEW t \in Nat
  PROVE  WellFormed([q EXCEPT !.pc = "read", !.ts = t]) /\ [q EXCEPT !.pc = "read", !.ts = t].pc = "read"
<1>1. q \in Request
  BY DEF WellFormed
<1> DEFINE z == [q EXCEPT !.pc = "read", !.ts = t]
<1>2. z \in Request /\ z.pc = "read" /\ z.todo = q.todo /\ z.email = q.email /\ z.after = q.after
  BY <1>1 DEF Request, PCs
<1> QED BY <1>2 DEF WellFormed, Table

LEMMA Receives ==
  ASSUME NEW q, WellFormed(q), q.todo # {}, NEW b \in BOOLEAN
  PROVE  /\ WellFormed([q EXCEPT !.pc = "set", !.racy = b])
         /\ [q EXCEPT !.pc = "set", !.racy = b].pc = "set"
         /\ Table([q EXCEPT !.pc = "set", !.racy = b]) = Table(q)
<1>1. q \in Request
  BY DEF WellFormed
<1> DEFINE z == [q EXCEPT !.pc = "set", !.racy = b]
<1>2. z \in Request /\ z.pc = "set" /\ z.todo = q.todo /\ z.email = q.email /\ z.after = q.after
  BY <1>1 DEF Request, PCs
<1> QED BY <1>2 DEF WellFormed, Table

FoundRecord(q, gs, t, p) == [q EXCEPT !.groups = gs, !.tree = t, !.pc = p]

LEMMA FindsGroups ==
  ASSUME NEW q, WellFormed(q), q.todo = {}, q.email \in Emails, NEW gs \in Keys, NEW t \in Trees \cup {None},
         NEW p \in {"refresh", "authorize"}
  PROVE  WellFormed(FoundRecord(q, gs, t, p)) /\ FoundRecord(q, gs, t, p).pc = p
<1>1. q \in Request
  BY DEF WellFormed
<1> DEFINE z == FoundRecord(q, gs, t, p)
<1>2. z \in Request /\ z.pc = p /\ z.todo = q.todo /\ z.email = q.email /\ z.after = q.after
  BY <1>1 DEF Request, PCs, FoundRecord
<1> QED BY <1>2 DEF WellFormed, Table

ComputedRecord(q, gs, t, k, p) == [q EXCEPT !.groups = gs, !.tree = t, !.key = k, !.pc = p]

LEMMA ComputesGroups ==
  ASSUME NEW q, WellFormed(q), q.todo = {}, q.email \in Emails, NEW gs \in Keys, NEW t \in Trees,
         NEW k \in Keys, NEW p \in {"refresh", "authorize"}
  PROVE  WellFormed(ComputedRecord(q, gs, t, k, p)) /\ ComputedRecord(q, gs, t, k, p).pc = p
<1>1. q \in Request
  BY DEF WellFormed
<1> DEFINE z == ComputedRecord(q, gs, t, k, p)
<1>2. z \in Request /\ z.pc = p /\ z.todo = q.todo /\ z.email = q.email /\ z.after = q.after
  BY <1>1 DEF Request, PCs, ComputedRecord
<1> QED BY <1>2 DEF WellFormed, Table

BeginRecord(e, d, k, p) == [Idle EXCEPT !.email = e, !.domain = d, !.key = k, !.pc = p]

LEMMA Begins ==
  ASSUME NEW e \in Emails, NEW d \in Domains, NEW k \in Keys \cup {None},
         NEW p \in {"groups", "refresh"}
  PROVE  /\ WellFormed(BeginRecord(e, d, k, p))
         /\ BeginRecord(e, d, k, p).pc = p
<1> DEFINE z == BeginRecord(e, d, k, p)
<1>1. z \in Request /\ z.pc = p /\ z.todo = {} /\ z.email = e
  BY IdleType DEF Request, PCs, BeginRecord, Idle
<1> QED BY <1>1 DEF WellFormed

(* A map after _enforce_maxsize: at most one entry less.                   *)
LEMMA TrimmedMap ==
  ASSUME NEW f, NEW k, NEW same, NEW size, NEW g \in Trimmed(f, k, same, size)
  PROVE  g = f \/ \E x \in same : g = [f EXCEPT ![x] = None]
BY DEF Trimmed

LEMMA TrimmedType ==
  ASSUME NEW S, NEW T, None \in T, NEW f \in [S -> T],
         NEW k, NEW same, NEW size, NEW g \in Trimmed(f, k, same, size)
  PROVE  g \in [S -> T]
BY TrimmedMap

LEMMA TypeInit == Init => TypeOK
<1> SUFFICES ASSUME Init PROVE TablesOK /\ RequestsOK
  BY TypeParts
<1>1. WellFormed(Idle) /\ Idle.pc = "idle"
  BY IdleType DEF WellFormed, Idle
<1>2. RequestsOK
  BY <1>1, IdleType DEF Init, RequestsOK
<1>3. \A m \in Models : db[m] \in Configs(m)
  BY DEF Init, Configs, Models
<1>4. TablesOK
  BY <1>3, CacheAssumption DEF Init, TablesOK
<1> QED BY <1>2, <1>4

LEMMA TypeNext == TypeOK /\ [Next]_vars => TypeOK'
<1> SUFFICES ASSUME TablesOK /\ RequestsOK, [Next]_vars PROVE (TablesOK /\ RequestsOK)'
  BY TypeParts DEF TypeOK, TablesOK, RequestsOK, WellFormed
<1>0. TablesOK /\ RequestsOK
  OBVIOUS
<1> USE CacheAssumption DEF tables, maps, loaded
<1>1. ASSUME NEW m \in Models, NEW v \in Configs(m), Save(m, v)
      PROVE  (TablesOK /\ RequestsOK)'
  BY <1>0, <1>1 DEF TablesOK, RequestsOK, Configs, Table, Save
<1>2. ASSUME NEW m \in Models, NEW v \in Configs(m), SaveUnannounced(m, v)
      PROVE  (TablesOK /\ RequestsOK)'
  BY <1>0, <1>2 DEF TablesOK, RequestsOK, Configs, Table, SaveUnannounced
<1>3. ASSUME NEW m \in Models, Commit(m)
      PROVE  (TablesOK /\ RequestsOK)'
  BY <1>0, <1>3 DEF TablesOK, RequestsOK, Configs, Table, Commit
<1>4. ASSUME NEW m \in Models, Rollback(m)
      PROVE  (TablesOK /\ RequestsOK)'
  BY <1>0, <1>4 DEF TablesOK, RequestsOK, Configs, Table, Rollback
<1>5. ASSUME CheckTimeArrives
      PROVE  (TablesOK /\ RequestsOK)'
  BY <1>0, <1>5 DEF TablesOK, RequestsOK, Configs, Table, CheckTimeArrives
<1>6. ASSUME NEW r \in Requests, Yield(r)
      PROVE  (TablesOK /\ RequestsOK)'
  BY <1>0, <1>6 DEF TablesOK, RequestsOK, Configs, Table, Yield
<1>7. ASSUME NEW r \in Requests, Resume(r)
      PROVE  (TablesOK /\ RequestsOK)'
  BY <1>0, <1>7 DEF TablesOK, RequestsOK, Configs, Table, Resume
<1>8. ASSUME NEW r \in Requests, Initialize(r)
      PROVE  (TablesOK /\ RequestsOK)'
  <2>1. TablesOK'
    BY <1>0, <1>8 DEF TablesOK, Initialize, StartRefresh, At, Free
  <2> DEFINE q == [req[r] EXCEPT !.pc = "check", !.todo = Models,
                               !.force = TRUE, !.after = "idle"]
  <2>3. WellFormed(q) /\ q.pc = "check"
    BY <1>0, Starts DEF RequestsOK, Models
  <2>4. req' = [req EXCEPT ![r] = q] /\ UNCHANGED rows
    BY <1>8 DEF Initialize, StartRefresh
  <2>2. RequestsOK'
    BY <1>0, <1>8, <2>3, <2>4, OneRequest DEF RequestsOK, Initialize, StartRefresh, At, Free
  <2> QED BY <2>1, <2>2
<1>9. ASSUME NEW r \in Requests, NEW m \in Models, AdminRefresh(r, m)
      PROVE  (TablesOK /\ RequestsOK)'
  <2>1. TablesOK'
    BY <1>0, <1>9 DEF TablesOK, AdminRefresh, StartRefresh, At, Free
  <2> DEFINE q == [req[r] EXCEPT !.pc = "check", !.todo = {m},
                               !.force = FALSE, !.after = "idle"]
  <2>5. {m} \in SUBSET Models /\ {m} # {}
    OBVIOUS
  <2>3. WellFormed(q) /\ q.pc = "check"
    BY <1>0, <2>5, Starts DEF RequestsOK, Models
  <2>4. req' = [req EXCEPT ![r] = q] /\ UNCHANGED rows
    BY <1>9 DEF AdminRefresh, StartRefresh
  <2>2. RequestsOK'
    BY <1>0, <1>9, <2>3, <2>4, OneRequest DEF RequestsOK, AdminRefresh, StartRefresh, At, Free
  <2> QED BY <2>1, <2>2
<1>10. ASSUME NEW r \in Requests, GroupsLoads(r)
      PROVE  (TablesOK /\ RequestsOK)'
  <2>1. TablesOK'
    BY <1>0, <1>10 DEF TablesOK, GroupsLoads, StartRefresh, At, Free
  <2> DEFINE q == [req[r] EXCEPT !.pc = "check", !.todo = {UG},
                               !.force = FALSE, !.after = "groups"]
  <2>5. req[r].email \in Emails
    BY <1>0, <1>10 DEF RequestsOK, WellFormed, GroupsLoads, At
  <2>3. WellFormed(q) /\ q.pc = "check"
    BY <1>0, <2>5, Starts DEF RequestsOK, Models
  <2>4. req' = [req EXCEPT ![r] = q] /\ UNCHANGED rows
    BY <1>10 DEF GroupsLoads, StartRefresh
  <2>2. RequestsOK'
    BY <1>0, <1>10, <2>3, <2>4, OneRequest DEF RequestsOK, GroupsLoads, StartRefresh, At, Free
  <2> QED BY <2>1, <2>2
<1>11. ASSUME NEW r \in Requests, RefreshRuns(r)
      PROVE  (TablesOK /\ RequestsOK)'
  <2>1. TablesOK'
    BY <1>0, <1>11 DEF TablesOK, RefreshRuns, StartRefresh, At, Free
  <2> DEFINE q == [req[r] EXCEPT !.pc = "check", !.todo = Models,
                               !.force = FALSE, !.after = "lookup"]
  <2>5. req[r].email \in Emails
    BY <1>0, <1>11 DEF RequestsOK, WellFormed, RefreshRuns, At
  <2>3. WellFormed(q) /\ q.pc = "check"
    BY <1>0, <2>5, Starts DEF RequestsOK, Models
  <2>4. req' = [req EXCEPT ![r] = q] /\ UNCHANGED rows
    BY <1>11 DEF RefreshRuns, StartRefresh
  <2>2. RequestsOK'
    BY <1>0, <1>11, <2>3, <2>4, OneRequest DEF RequestsOK, RefreshRuns, StartRefresh, At, Free
  <2> QED BY <2>1, <2>2
<1>12. ASSUME NEW r \in Requests, AuthorizeLoads(r)
      PROVE  (TablesOK /\ RequestsOK)'
  <2>1. TablesOK'
    BY <1>0, <1>12 DEF TablesOK, AuthorizeLoads, StartRefresh, At, Free
  <2> DEFINE q == [req[r] EXCEPT !.pc = "check", !.todo = {UGA},
                               !.force = FALSE, !.after = "authorize"]
  <2>5. req[r].email \in Emails
    BY <1>0, <1>12 DEF RequestsOK, WellFormed, AuthorizeLoads, At
  <2>3. WellFormed(q) /\ q.pc = "check"
    BY <1>0, <2>5, Starts DEF RequestsOK, Models
  <2>4. req' = [req EXCEPT ![r] = q] /\ UNCHANGED rows
    BY <1>12 DEF AuthorizeLoads, StartRefresh
  <2>2. RequestsOK'
    BY <1>0, <1>12, <2>3, <2>4, OneRequest DEF RequestsOK, AuthorizeLoads, StartRefresh, At, Free
  <2> QED BY <2>1, <2>2
<1>13. ASSUME NEW r \in Requests, CheckSkips(r)
      PROVE  (TablesOK /\ RequestsOK)'
  <2>1. TablesOK'
    BY <1>0, <1>13 DEF TablesOK, CheckSkips, At
  <2> DEFINE q == Advanced(req[r])
  <2>3. WellFormed(q) /\ q.pc # "set"
    BY <1>0, <1>13, AdvancedType DEF RequestsOK, WellFormed, CheckSkips, At
  <2>2. RequestsOK'
    BY <1>0, <1>13, <2>3, OneRequest DEF RequestsOK, CheckSkips, At
  <2> QED BY <2>1, <2>2
<1>14. ASSUME NEW r \in Requests, CheckFails(r)
      PROVE  (TablesOK /\ RequestsOK)'
  <2>1. TablesOK'
    BY <1>0, <1>14 DEF TablesOK, CheckFails, At
  <2> DEFINE q == Advanced(req[r])
  <2>3. WellFormed(q) /\ q.pc # "set"
    BY <1>0, <1>14, AdvancedType DEF RequestsOK, WellFormed, CheckFails, At
  <2>2. RequestsOK'
    BY <1>0, <1>14, <2>3, OneRequest DEF RequestsOK, CheckFails, At
  <2> QED BY <2>1, <2>2
<1>15. ASSUME NEW r \in Requests, SetTable(r)
      PROVE  (TablesOK /\ RequestsOK)'
  <2>1. TablesOK'
    BY <1>0, <1>15 DEF TablesOK, SetTable, At, RequestsOK, WellFormed, Request, Table, Models, UG, UGA
  <2> DEFINE q == Advanced(req[r])
  <2>3. WellFormed(q) /\ q.pc # "set"
    BY <1>0, <1>15, AdvancedType DEF RequestsOK, WellFormed, SetTable, At
  <2>2. RequestsOK'
    BY <1>0, <1>15, <2>3, OneRequest DEF RequestsOK, SetTable, At
  <2> QED BY <2>1, <2>2
<1>16. ASSUME NEW r \in Requests, ReadFails(r)
      PROVE  (TablesOK /\ RequestsOK)'
  <2>1. TablesOK'
    BY <1>0, <1>16 DEF TablesOK, ReadFails, Leave, Trimmed
  <2> DEFINE q == Idle
  <2>3. WellFormed(q) /\ q.pc = "idle"
    BY IdleType DEF WellFormed, Idle
  <2>2. RequestsOK'
    BY <1>0, <1>16, <2>3, OneRequest DEF RequestsOK, ReadFails, Leave
  <2> QED BY <2>1, <2>2
<1>17. ASSUME NEW r \in Requests, LookupHits(r)
      PROVE  (TablesOK /\ RequestsOK)'
  <2>1. TablesOK'
    BY <1>0, <1>17 DEF TablesOK, LookupHits, Leave, Trimmed
  <2> DEFINE q == Idle
  <2>3. WellFormed(q) /\ q.pc = "idle"
    BY IdleType DEF WellFormed, Idle
  <2>2. RequestsOK'
    BY <1>0, <1>17, <2>3, OneRequest DEF RequestsOK, LookupHits, Leave
  <2> QED BY <2>1, <2>2
<1>18. ASSUME NEW r \in Requests, ComputeAuthorizations(r)
      PROVE  (TablesOK /\ RequestsOK)'
  <2>1. TablesOK'
    BY <1>0, <1>18 DEF TablesOK, ComputeAuthorizations, Leave, Trimmed
  <2> DEFINE q == Idle
  <2>3. WellFormed(q) /\ q.pc = "idle"
    BY IdleType DEF WellFormed, Idle
  <2>2. RequestsOK'
    BY <1>0, <1>18, <2>3, OneRequest DEF RequestsOK, ComputeAuthorizations, Leave
  <2> QED BY <2>1, <2>2
<1>19. ASSUME NEW r \in Requests, RefreshSkips(r)
      PROVE  (TablesOK /\ RequestsOK)'
  <2>1. TablesOK'
    BY <1>0, <1>19 DEF TablesOK, RefreshSkips
  <2> DEFINE q == [req[r] EXCEPT !.pc = "lookup"]
  <2>3. WellFormed(q) /\ q.pc # "set"
    BY <1>0, <1>19, Moves DEF RequestsOK, WellFormed, RefreshSkips, At
  <2>2. RequestsOK'
    BY <1>0, <1>19, <2>3, OneRequest DEF RequestsOK, RefreshSkips
  <2> QED BY <2>1, <2>2
<1>20. ASSUME NEW r \in Requests, FindMisses(r)
      PROVE  (TablesOK /\ RequestsOK)'
  <2>1. TablesOK'
    BY <1>0, <1>20 DEF TablesOK, FindMisses
  <2> DEFINE q == [req[r] EXCEPT !.pc = "groups"]
  <2>3. WellFormed(q) /\ q.pc # "set"
    BY <1>0, <1>20, Moves DEF RequestsOK, WellFormed, FindMisses, At
  <2>2. RequestsOK'
    BY <1>0, <1>20, <2>3, OneRequest DEF RequestsOK, FindMisses
  <2> QED BY <2>1, <2>2
<1>21. ASSUME NEW r \in Requests, LookupMisses(r)
      PROVE  (TablesOK /\ RequestsOK)'
  <2>1. TablesOK'
    BY <1>0, <1>21 DEF TablesOK, LookupMisses
  <2> DEFINE q == [req[r] EXCEPT !.pc = IF req[r].groups = None THEN "find" ELSE "authorize"]
  <2>3. WellFormed(q) /\ q.pc # "set"
    BY <1>0, <1>21, Moves DEF RequestsOK, WellFormed, LookupMisses, At
  <2>2. RequestsOK'
    BY <1>0, <1>21, <2>3, OneRequest DEF RequestsOK, LookupMisses
  <2> QED BY <2>1, <2>2
<1>22. ASSUME NEW r \in Requests, CheckLoads(r)
      PROVE  (TablesOK /\ RequestsOK)'
  <2>1. TablesOK'
    BY <1>0, <1>22 DEF TablesOK, CheckLoads, Clear, EmptyAuthMap, EmptyEmailMaps
  <2> DEFINE q == [req[r] EXCEPT !.pc = "read", !.ts = now + 1]
  <2>3. req[r].todo # {} /\ now + 1 \in Nat
    BY <1>0, <1>22 DEF TablesOK, RequestsOK, WellFormed, CheckLoads, At
  <2>4. WellFormed(q) /\ q.pc = "read"
    BY <1>0, <2>3, Queries DEF RequestsOK
  <2>2. RequestsOK'
    BY <1>0, <1>22, <2>3, <2>4, OneRequest DEF RequestsOK, CheckLoads, Clear, EmptyAuthMap, EmptyEmailMaps
  <2> QED BY <2>1, <2>2
<1>23. ASSUME NEW r \in Requests, ReadTable(r)
      PROVE  (TablesOK /\ RequestsOK)'
  <2>1. TablesOK'
    BY <1>0, <1>23 DEF TablesOK, ReadTable
  <2> DEFINE q == [req[r] EXCEPT !.pc = "set", !.racy = Announced(Table(req[r]), req[r].ts)]
  <2>3. Announced(Table(req[r]), req[r].ts) \in BOOLEAN /\ Table(req[r]) \in Models
    BY DEF Announced, Table, Models
  <2>4. WellFormed(q) /\ q.pc = "set" /\ Table(q) = Table(req[r])
    <3>1. WellFormed(req[r]) /\ req[r].todo # {}
      BY <1>0, <1>23 DEF RequestsOK, WellFormed, ReadTable, At
    <3> QED BY <2>3, <3>1, Receives
  <2>5. rows' = [rows EXCEPT ![r] = db[Table(req[r])]] /\ db[Table(req[r])] \in Configs(Table(req[r]))
    BY <1>0, <1>23, <2>3 DEF ReadTable, TablesOK
  <2>6. req' = [req EXCEPT ![r] = q]
    BY <1>23 DEF ReadTable
  <2>2. RequestsOK'
    BY <1>0, <1>23, <2>4, <2>5, <2>6, OneRequest DEF RequestsOK, ReadTable
  <2> QED BY <2>1, <2>2
<1>24. ASSUME NEW r \in Requests, FindHits(r)
      PROVE  (TablesOK /\ RequestsOK)'
  <2>1. TablesOK'
    BY <1>0, <1>24 DEF TablesOK, FindHits
  <2> DEFINE q == FoundRecord(req[r], CachedKey(r), groupsMap[CachedKey(r)], "authorize")
  <2>3. req[r].todo = {} /\ req[r].email \in Emails
    BY <1>0, <1>24 DEF RequestsOK, WellFormed, FindHits, At
  <2>4. CachedKey(r) \in Keys /\ groupsMap[CachedKey(r)] \in Trees \cup {None}
    BY <1>0, <1>24, <2>3 DEF TablesOK, CachedGroups, CachedKey, FindHits
  <2>5. WellFormed(q) /\ q.pc = "authorize"
    BY <1>0, <2>3, <2>4, FindsGroups DEF RequestsOK
  <2>6. req' = [req EXCEPT ![r] = q] /\ UNCHANGED rows
    BY <1>24 DEF FindHits, FoundRecord
  <2>2. RequestsOK'
    BY <1>0, <1>24, <2>5, <2>6, OneRequest DEF RequestsOK, FindHits
  <2> QED BY <2>1, <2>2
<1>25. ASSUME NEW r \in Requests, ComputeGroups(r)
      PROVE  (TablesOK /\ RequestsOK)'
  <2> DEFINE e == req[r].email
             gs == MatchedGroups(cached[UG], e)
             k == IF req[r].key = None THEN gs ELSE req[r].key
             p == IF req[r].key = None THEN "refresh" ELSE "authorize"
             q == ComputedRecord(req[r], gs, cached[UG], k, p)
  <2>1. gs \in Keys /\ cached[UG] \in Trees
    BY <1>0, <1>25 DEF TablesOK, ComputeGroups, MatchedGroups, Keys, Tree, Configs, Models
  <2>2. req[r].todo = {} /\ e \in Emails /\ req[r].key \in Keys \cup {None}
    BY <1>0, <1>25 DEF RequestsOK, WellFormed, Request, ComputeGroups, At
  <2>3. k \in Keys /\ p \in {"refresh", "authorize"}
    BY <2>1, <2>2
  <2>4. req' = [req EXCEPT ![r] = q] /\ UNCHANGED rows
    BY <1>25 DEF ComputeGroups, ComputedRecord
  <2>5. TablesOK'
    <3> HIDE DEF gs, e
    <3>1. emailMap' \in [Emails -> Keys \cup {None}]
      <4> DEFINE f == [emailMap EXCEPT ![e] = gs]
                 T == Keys \cup {None}
      <4>1. f \in [Emails -> T] /\ None \in T
        BY <1>0, <2>1, <2>2 DEF TablesOK
      <4>2. emailMap' \in Trimmed(f, e, SameMap(e, gs), EmailGroupsSize)
        BY <1>25 DEF ComputeGroups, gs, e
      <4> HIDE DEF f
      <4> QED BY <4>1, <4>2, TrimmedType
    <3>2. groupsMap' \in [Keys -> Trees \cup {None}]
      BY <1>0, <1>25, <2>1 DEF TablesOK, ComputeGroups, gs, e
    <3> QED BY <1>0, <1>25, <3>1, <3>2 DEF TablesOK, ComputeGroups
  <2> HIDE DEF gs, k, p
  <2>6. WellFormed(q) /\ q.pc = p
    BY <1>0, <2>1, <2>2, <2>3, ComputesGroups DEF RequestsOK
  <2>7. RequestsOK'
    BY <1>0, <2>3, <2>4, <2>6, OneRequest DEF RequestsOK
  <2> QED BY <2>5, <2>7
<1>26. ASSUME NEW r \in Requests, NEW e \in Emails, NEW d \in Domains, Begin(r, e, d)
      PROVE  (TablesOK /\ RequestsOK)'
  <2> DEFINE p == IF emailMap[e] = None THEN "groups" ELSE "refresh"
             q == BeginRecord(e, d, emailMap[e], p)
  <2>1. TablesOK'
    BY <1>0, <1>26 DEF TablesOK, Begin, Free
  <2>2. emailMap[e] \in Keys \cup {None} /\ p \in {"groups", "refresh"}
    BY <1>0 DEF TablesOK
  <2>3. req' = [req EXCEPT ![r] = q] /\ UNCHANGED rows
    BY <1>26 DEF Begin, BeginRecord
  <2> HIDE DEF p
  <2>4. WellFormed(q) /\ q.pc = p
    BY <2>2, Begins
  <2>5. RequestsOK'
    BY <1>0, <2>2, <2>3, <2>4, OneRequest DEF RequestsOK
  <2> QED BY <2>1, <2>5
<1>27. ASSUME UNCHANGED vars
      PROVE  (TablesOK /\ RequestsOK)'
  BY <1>0, <1>27 DEF TablesOK, RequestsOK, Configs, Table, vars
<1> QED
  BY <1>1, <1>2, <1>3, <1>4, <1>5, <1>6, <1>7, <1>8, <1>9, <1>10, <1>11, <1>12, <1>13, <1>14, <1>15, <1>16, <1>17, <1>18, <1>19, <1>20, <1>21, <1>22, <1>23, <1>24, <1>25, <1>26, <1>27
  DEF Next, RequestStep, NewRequest

(***************************************************************************)
(* Every variable keeps its type in every reachable state.                  *)
(***************************************************************************)
THEOREM TypeCorrect == Spec => []TypeOK
BY TypeInit, TypeNext, PTL DEF Spec

-----------------------------------------------------------------------------
(* How one request moves when it does not touch a loaded table.            *)

Quiet(r) ==
  /\ UNCHANGED <<tables, now, loaded, lost>>
  /\ req' = [req EXCEPT ![r] = req'[r]]
  /\ req'[r].pc \notin {"read", "set"}
  /\ req'[r].ts = 0 \/ req'[r].ts = req[r].ts
  /\ cpu = r \/ Free(r)
  /\ cpu' = IF req'[r].pc = "idle" THEN None ELSE r

QuietStep(r) ==
  \/ Initialize(r) \/ NewRequest(r)
  \/ CheckSkips(r) \/ CheckFails(r) \/ ReadFails(r)
  \/ GroupsLoads(r) \/ ComputeGroups(r)
  \/ RefreshRuns(r) \/ RefreshSkips(r)
  \/ LookupHits(r) \/ LookupMisses(r)
  \/ FindHits(r) \/ FindMisses(r)
  \/ AuthorizeLoads(r) \/ ComputeAuthorizations(r)
  \/ \E m \in Models : AdminRefresh(r, m)

LEMMA AdvancedTs ==
  ASSUME NEW q, WellFormed(q)
  PROVE  Advanced(q).ts = 0
BY DEF WellFormed, Request, Advanced, Idle

LEMMA StartedRecord ==
  ASSUME req \in [Requests -> Request], NEW r \in Requests, NEW ms, NEW f, NEW a,
         StartRefresh(r, ms, f, a)
  PROVE  /\ req' = [req EXCEPT ![r] = req'[r]]
         /\ req'[r].pc = "check" /\ req'[r].ts = req[r].ts
BY DEF StartRefresh, Request

LEMMA QuietSteps ==
  ASSUME TypeOK, NEW r \in Requests, QuietStep(r)
  PROVE  Quiet(r)
<1>0. req \in [Requests -> Request] /\ WellFormed(req[r])
  BY DEF TypeOK
<1> USE DEF tables, loaded, Quiet
<1>1. CASE Initialize(r)
  <2>1. req' = [req EXCEPT ![r] = req'[r]] /\ req'[r].pc = "check" /\ req'[r].ts = req[r].ts
    BY <1>0, <1>1, StartedRecord DEF Initialize
  <2> QED BY <1>1, <2>1 DEF Initialize, At, Free
<1>2. CASE NewRequest(r)
  BY <1>0, <1>2 DEF NewRequest, Begin, Free, Idle, Request
<1>3. CASE CheckSkips(r)
  <2>1. req' = [req EXCEPT ![r] = Advanced(req[r])] /\ req[r].todo # {}
    BY <1>0, <1>3 DEF CheckSkips, At, WellFormed
  <2>2. req'[r].pc \notin {"read", "set"} /\ req'[r].ts = 0
    BY <1>0, <2>1, AdvancedType, AdvancedTs
  <2> QED BY <1>0, <1>3, <2>1, <2>2 DEF CheckSkips, At
<1>4. CASE CheckFails(r)
  <2>1. req' = [req EXCEPT ![r] = Advanced(req[r])] /\ req[r].todo # {}
    BY <1>0, <1>4 DEF CheckFails, At, WellFormed
  <2>2. req'[r].pc \notin {"read", "set"} /\ req'[r].ts = 0
    BY <1>0, <2>1, AdvancedType, AdvancedTs
  <2> QED BY <1>0, <1>4, <2>1, <2>2 DEF CheckFails, At
<1>5. CASE ReadFails(r)
  BY <1>0, <1>5 DEF ReadFails, Leave, At, Idle, Request
<1>6. CASE GroupsLoads(r)
  <2>1. req' = [req EXCEPT ![r] = req'[r]] /\ req'[r].pc = "check" /\ req'[r].ts = req[r].ts
    BY <1>0, <1>6, StartedRecord DEF GroupsLoads
  <2> QED BY <1>6, <2>1 DEF GroupsLoads, At, Free
<1>7. CASE ComputeGroups(r)
  BY <1>0, <1>7 DEF ComputeGroups, At, Request
<1>8. CASE RefreshRuns(r)
  <2>1. req' = [req EXCEPT ![r] = req'[r]] /\ req'[r].pc = "check" /\ req'[r].ts = req[r].ts
    BY <1>0, <1>8, StartedRecord DEF RefreshRuns
  <2> QED BY <1>8, <2>1 DEF RefreshRuns, At, Free
<1>9. CASE RefreshSkips(r)
  BY <1>0, <1>9 DEF RefreshSkips, At, Request
<1>10. CASE LookupHits(r)
  BY <1>0, <1>10 DEF LookupHits, Leave, At, Idle, Request
<1>11. CASE LookupMisses(r)
  BY <1>0, <1>11 DEF LookupMisses, At, Request
<1>12. CASE FindHits(r)
  BY <1>0, <1>12 DEF FindHits, At, Request
<1>13. CASE FindMisses(r)
  BY <1>0, <1>13 DEF FindMisses, At, Request
<1>14. CASE AuthorizeLoads(r)
  <2>1. req' = [req EXCEPT ![r] = req'[r]] /\ req'[r].pc = "check" /\ req'[r].ts = req[r].ts
    BY <1>0, <1>14, StartedRecord DEF AuthorizeLoads
  <2> QED BY <1>14, <2>1 DEF AuthorizeLoads, At, Free
<1>15. CASE ComputeAuthorizations(r)
  BY <1>0, <1>15 DEF ComputeAuthorizations, Leave, At, Idle, Request
<1>16. CASE \E m \in Models : AdminRefresh(r, m)
  <2>1. req' = [req EXCEPT ![r] = req'[r]] /\ req'[r].pc = "check" /\ req'[r].ts = req[r].ts
    BY <1>0, <1>16, StartedRecord DEF AdminRefresh
  <2> QED BY <1>16, <2>1 DEF AdminRefresh, Free
<1> QED BY <1>1, <1>2, <1>3, <1>4, <1>5, <1>6, <1>7, <1>8, <1>9, <1>10, <1>11, <1>12, <1>13, <1>14, <1>15, <1>16 DEF QuietStep

(* A step of the specification, by what it can change.                     *)
LEMMA StepCases ==
  ASSUME [Next]_vars
  PROVE  \/ \E m \in Models : \E v \in Configs(m) : Save(m, v) \/ SaveUnannounced(m, v)
         \/ \E m \in Models : Commit(m) \/ Rollback(m)
         \/ \E r \in Requests : QuietStep(r)
         \/ \E r \in Requests : CheckLoads(r) \/ ReadTable(r) \/ SetTable(r)
         \/ CheckTimeArrives
         \/ \E r \in Requests : Yield(r) \/ Resume(r)
         \/ UNCHANGED vars
BY DEF Next, RequestStep, QuietStep

-----------------------------------------------------------------------------
(***************************************************************************)
(* Freshness.  A copy v of table m that was stamped ts is, as long as no    *)
(* change was announced after ts, what is committed, unless the copy was    *)
(* read inside the window or an announcement was lost.  This holds of the   *)
(* loaded tables and of what a query returned but is not set yet.           *)
(***************************************************************************)
Fresh(m, v, ts, inWindow) ==
  inWindow \/ lost[m] \/ lastMod[m] > ts \/ (v = db[m] /\ txn[m] = None)

FreshInv ==
  /\ \A m \in Models : lastMod[m] <= now /\ cachedTs[m] <= now
  /\ \A m \in Models : cached[m] # None => Fresh(m, cached[m], cachedTs[m], racy[m])
  /\ \A r \in Requests :
       /\ req[r].ts <= now
       /\ req[r].pc = "set" => Fresh(Table(req[r]), rows[r], req[r].ts, req[r].racy)

LEMMA FreshInit == Init => FreshInv
BY DEF Init, FreshInv, Idle

(* A change of table m, announced or lost, keeps every copy accounted for. *)
LEMMA FreshTables ==
  ASSUME TypeOK, FreshInv,
         now' \in Nat, now' >= now,
         \A m \in Models :
           /\ lastMod'[m] \in Nat /\ lastMod'[m] <= now' /\ lastMod'[m] >= lastMod[m]
           /\ lost[m] => lost'[m]
           /\ \/ lastMod'[m] > now
              \/ lost'[m]
              \/ txn[m] # None
              \/ txn'[m] = None /\ db'[m] = db[m],
         UNCHANGED <<loaded, req>>
  PROVE  FreshInv'
<1>1. ASSUME NEW m \in Models, NEW v, NEW ts \in Nat, ts <= now, NEW b \in BOOLEAN,
             Fresh(m, v, ts, b)
      PROVE  Fresh(m, v, ts, b)'
  <2>1. lastMod[m] \in Nat /\ now \in Nat
    BY DEF TypeOK
  <2>2. CASE b \/ lost[m]
    BY <2>2 DEF Fresh
  <2>3. CASE lastMod[m] > ts
    BY <2>1, <2>3 DEF Fresh
  <2>4. CASE v = db[m] /\ txn[m] = None
    BY <1>1, <2>1, <2>4 DEF Fresh
  <2> QED BY <1>1, <2>2, <2>3, <2>4 DEF Fresh
<1>2. \A m \in Models :
        /\ cachedTs[m] \in Nat /\ cachedTs[m] <= now /\ racy[m] \in BOOLEAN
        /\ lastMod'[m] <= now' /\ cachedTs'[m] <= now'
  BY DEF TypeOK, FreshInv, loaded
<1>3. \A m \in Models : cached'[m] # None => Fresh(m, cached[m], cachedTs[m], racy[m])'
  BY <1>1, <1>2 DEF FreshInv, loaded
<1>4. ASSUME NEW r \in Requests
      PROVE  /\ req'[r].ts <= now'
             /\ req'[r].pc = "set" => Fresh(Table(req[r]), rows[r], req[r].ts, req[r].racy)'
  <2>1. req[r].ts \in Nat /\ req[r].ts <= now /\ req[r].racy \in BOOLEAN
        /\ Table(req[r]) \in Models
    BY DEF TypeOK, FreshInv, Request, Table, Models
  <2>2. req[r].pc = "set" => Fresh(Table(req[r]), rows[r], req[r].ts, req[r].racy)
    BY DEF FreshInv
  <2>3. req' = req /\ rows' = rows
    BY DEF loaded
  <2>4. req'[r].ts <= now'
    BY <2>1, <2>3 DEF TypeOK
  <2>5. req[r].pc = "set" => Fresh(Table(req[r]), rows[r], req[r].ts, req[r].racy)'
    BY <1>1, <2>1, <2>2, <2>3
  <2> QED BY <2>3, <2>4, <2>5
<1> QED BY <1>2, <1>3, <1>4 DEF FreshInv, loaded

LEMMA FreshNext == TypeOK /\ FreshInv /\ [Next]_vars => FreshInv'
<1> SUFFICES ASSUME TypeOK, FreshInv, [Next]_vars PROVE FreshInv'
  OBVIOUS
<1> USE DEF tables, maps, loaded
<1>0. now \in Nat /\ \A m \in Models : lastMod[m] \in Nat /\ lastMod[m] <= now
  BY DEF TypeOK, FreshInv
<1>1. ASSUME NEW m \in Models, NEW v \in Configs(m), Save(m, v) \/ SaveUnannounced(m, v)
      PROVE  FreshInv'
  BY <1>0, <1>1, FreshTables DEF Save, SaveUnannounced, TypeOK
<1>2. ASSUME NEW m \in Models, Commit(m) \/ Rollback(m)
      PROVE  FreshInv'
  BY <1>0, <1>2, FreshTables DEF Commit, Rollback, TypeOK
<1>3. ASSUME NEW r \in Requests, QuietStep(r)
      PROVE  FreshInv'
  <2>1. Quiet(r)
    BY <1>3, QuietSteps
  <2> QED BY <1>0, <2>1 DEF Quiet, FreshInv, Fresh, TypeOK, Table
<1>4. ASSUME NEW r \in Requests, CheckLoads(r)
      PROVE  FreshInv'
  <2>1. /\ req' = [req EXCEPT ![r] = req'[r]]
        /\ req'[r].pc = "read" /\ req'[r].ts = now + 1 /\ now' = now + 1
        /\ UNCHANGED <<tables, loaded, lost>>
    BY <1>4 DEF CheckLoads, TypeOK, Request
  <2>2. \A m \in Models : /\ lastMod'[m] <= now' /\ cachedTs'[m] <= now'
                          /\ cached'[m] # None => Fresh(m, cached[m], cachedTs[m], racy[m])'
    <3>1. \A m \in Models : lastMod[m] <= now + 1 /\ cachedTs[m] <= now + 1
      BY <1>0 DEF FreshInv, TypeOK
    <3> QED BY <2>1, <3>1 DEF FreshInv, Fresh
  <2>3. ASSUME NEW s \in Requests
        PROVE  /\ req'[s].ts <= now'
               /\ req'[s].pc = "set" => Fresh(Table(req[s]), rows[s], req[s].ts, req[s].racy)'
    <3>1. CASE s = r
      BY <1>0, <2>1, <3>1
    <3>2. CASE s # r
      <4>1. req'[s] = req[s]
        BY <2>1, <3>2 DEF TypeOK
      <4>2. req[s].ts <= now + 1
        BY <1>0 DEF FreshInv, TypeOK, Request
      <4> QED BY <2>1, <4>1, <4>2 DEF FreshInv, Fresh
    <3> QED BY <3>1, <3>2
  <2> QED BY <2>2, <2>3 DEF FreshInv
<1>5. ASSUME NEW r \in Requests, ReadTable(r)
      PROVE  FreshInv'
  <2> DEFINE m == Table(req[r])
  <2>1. /\ req' = [req EXCEPT ![r] = req'[r]]
        /\ req'[r].ts = req[r].ts /\ Table(req'[r]) = m
        /\ req'[r].racy = Announced(m, req[r].ts)
        /\ rows' = [rows EXCEPT ![r] = db[m]]
        /\ UNCHANGED <<tables, now, cached, cachedTs, racy, lost>>
    <3> DEFINE b == Announced(m, req[r].ts)
    <3>1. req' = [req EXCEPT ![r].pc = "set", ![r].racy = b]
      BY <1>5 DEF ReadTable
    <3>2. /\ rows' = [rows EXCEPT ![r] = db[m]]
          /\ UNCHANGED <<tables, now, cached, cachedTs, racy, lost>>
      BY <1>5 DEF ReadTable
    <3> HIDE DEF b
    <3>3. /\ req' = [req EXCEPT ![r] = req'[r]]
          /\ req'[r].ts = req[r].ts /\ req'[r].todo = req[r].todo /\ req'[r].racy = b
      BY <3>1 DEF TypeOK, Request
    <3> QED BY <3>2, <3>3 DEF Table, b
  <2>2. m \in Models /\ req[r].ts \in Nat
    BY DEF TypeOK, Request, Table, Models
  <2>3. Fresh(m, db[m], req[r].ts, Announced(m, req[r].ts))
    BY <1>0, <2>2 DEF Fresh, Announced
  <2>4. Fresh(Table(req[r]), rows[r], req[r].ts, req[r].racy)'
    BY <2>1, <2>3 DEF Fresh, TypeOK
  <2>5. ASSUME NEW s \in Requests
        PROVE  /\ req'[s].ts <= now'
               /\ req'[s].pc = "set" => Fresh(Table(req[s]), rows[s], req[s].ts, req[s].racy)'
    BY <2>1, <2>4 DEF FreshInv, Fresh, TypeOK
  <2>6. \A k \in Models : /\ lastMod'[k] <= now' /\ cachedTs'[k] <= now'
                          /\ cached'[k] # None => Fresh(k, cached[k], cachedTs[k], racy[k])'
    BY <2>1 DEF FreshInv, Fresh
  <2> QED BY <2>5, <2>6 DEF FreshInv
<1>6. ASSUME NEW r \in Requests, SetTable(r)
      PROVE  FreshInv'
  <2> DEFINE m == Table(req[r])
  <2>1. /\ req' = [req EXCEPT ![r] = Advanced(req[r])]
        /\ cached' = [cached EXCEPT ![m] = rows[r]]
        /\ cachedTs' = [cachedTs EXCEPT ![m] = req[r].ts]
        /\ racy' = [racy EXCEPT ![m] = req[r].racy]
        /\ rows' = [rows EXCEPT ![r] = None]
        /\ UNCHANGED <<tables, now, lost>>
        /\ req[r].pc = "set"
    BY <1>6 DEF SetTable, At
  <2>2. m \in Models /\ req[r].ts \in Nat /\ req[r].ts <= now
        /\ WellFormed(req[r]) /\ req[r].todo # {}
    BY <2>1 DEF TypeOK, FreshInv, Request, Table, Models, WellFormed
  <2>3. Advanced(req[r]).pc # "set" /\ Advanced(req[r]).ts = 0
    BY <2>2, AdvancedType, AdvancedTs
  <2>4. Fresh(m, rows[r], req[r].ts, req[r].racy)
    BY <2>1 DEF FreshInv
  <2>5. ASSUME NEW k \in Models
        PROVE  /\ lastMod'[k] <= now' /\ cachedTs'[k] <= now'
               /\ cached'[k] # None => Fresh(k, cached[k], cachedTs[k], racy[k])'
    <3>1. CASE k = m
      BY <1>0, <2>1, <2>2, <2>4, <3>1 DEF Fresh, TypeOK
    <3>2. CASE k # m
      BY <2>1, <2>2, <3>2 DEF FreshInv, Fresh, TypeOK
    <3> QED BY <3>1, <3>2
  <2>6. ASSUME NEW s \in Requests
        PROVE  /\ req'[s].ts <= now'
               /\ req'[s].pc = "set" => Fresh(Table(req[s]), rows[s], req[s].ts, req[s].racy)'
    <3>1. CASE s = r
      BY <1>0, <2>1, <2>3, <3>1 DEF TypeOK
    <3>2. CASE s # r
      <4>1. req'[s] = req[s] /\ rows'[s] = rows[s]
        BY <2>1, <3>2 DEF TypeOK
      <4> QED BY <2>1, <4>1 DEF FreshInv, Fresh
    <3> QED BY <3>1, <3>2
  <2> QED BY <2>5, <2>6 DEF FreshInv
<1>7. CASE CheckTimeArrives
  BY <1>7 DEF CheckTimeArrives, FreshInv, Fresh
<1>8. ASSUME NEW r \in Requests, Yield(r) \/ Resume(r)
      PROVE  FreshInv'
  BY <1>8 DEF Yield, Resume, FreshInv, Fresh
<1>9. CASE UNCHANGED vars
  BY <1>9 DEF vars, FreshInv, Fresh
<1> QED BY <1>1, <1>2, <1>3, <1>4, <1>5, <1>6, <1>7, <1>8, <1>9, StepCases

(***************************************************************************)
(* A worker of any kind, with any number of requests in hand: a loaded      *)
(* table that is_changed reports unchanged is stale only if it was read     *)
(* while an announced change was not committed, or Redis lost a change.     *)
(***************************************************************************)
THEOREM StaleOnlyThroughWindowHolds == Spec => []StaleOnlyThroughWindow
<1>1. TypeOK /\ FreshInv => StaleOnlyThroughWindow
  BY DEF TypeOK, FreshInv, Fresh, StaleOnlyThroughWindow, IsChanged
<1> QED BY <1>1, TypeInit, TypeNext, FreshInit, FreshNext, PTL DEF Spec

-----------------------------------------------------------------------------
(***************************************************************************)
(* The email maps of a sync worker.  Only the request that has the cpu is   *)
(* in hand; while it reads the tree anew the maps are empty, and otherwise  *)
(* they were computed from the tree that is loaded.                         *)
(***************************************************************************)
OneInHand == \A r \in Requests : req[r].pc # "idle" => cpu = r

MapsFollowTree ==
  /\ \A e \in Emails : emailMap[e] # None =>
       /\ cached[UG] # None
       /\ emailMap[e] = MatchedGroups(cached[UG], e)
       /\ groupsMap[emailMap[e]] = cached[UG]
  /\ \A k \in Keys : groupsMap[k] # None => groupsMap[k] = cached[UG]

EmptyWhileReading ==
  \A r \in Requests :
    (req[r].pc \in {"read", "set"} /\ Table(req[r]) = UG) =>
      /\ \A e \in Emails : emailMap[e] = None
      /\ \A k \in Keys : groupsMap[k] = None

EmailInv == OneInHand /\ MapsFollowTree /\ EmptyWhileReading

LEMMA EmailInit == Init => EmailInv
BY DEF Init, EmailInv, OneInHand, MapsFollowTree, EmptyWhileReading, Idle

LEMMA OneInHandNext ==
  ASSUME TypeOK, OneInHand, [Next]_vars, ~Cooperative
  PROVE  OneInHand'
<1> USE CacheAssumption DEF tables, maps, loaded
<1>1. ASSUME NEW r \in Requests, QuietStep(r)
      PROVE  OneInHand'
  <2>1. Quiet(r)
    BY <1>1, QuietSteps
  <2>2. \A s \in Requests \ {r} : req[s].pc = "idle"
    BY <2>1 DEF Quiet, Free, OneInHand
  <2> QED BY <2>1, <2>2 DEF Quiet, OneInHand, TypeOK
<1>2. ASSUME NEW r \in Requests, CheckLoads(r) \/ ReadTable(r)
      PROVE  OneInHand'
  BY <1>2 DEF CheckLoads, ReadTable, At, OneInHand, TypeOK
<1>3. ASSUME NEW r \in Requests, SetTable(r)
      PROVE  OneInHand'
  <2>1. \A s \in Requests \ {r} : req[s].pc = "idle"
    BY <1>3 DEF SetTable, At, OneInHand
  <2> QED BY <1>3, <2>1 DEF SetTable, OneInHand, TypeOK
<1>4. ASSUME NEW m \in Models,
             \/ \E v \in Configs(m) : Save(m, v) \/ SaveUnannounced(m, v)
             \/ Commit(m) \/ Rollback(m)
      PROVE  OneInHand'
  BY <1>4 DEF Save, SaveUnannounced, Commit, Rollback, OneInHand
<1>5. ASSUME NEW r \in Requests, Yield(r) \/ Resume(r)
      PROVE  OneInHand'
  BY <1>5 DEF Yield, Resume, OneInHand
<1>6. CASE CheckTimeArrives \/ UNCHANGED vars
  BY <1>6 DEF CheckTimeArrives, vars, OneInHand
<1> QED BY <1>1, <1>2, <1>3, <1>4, <1>5, <1>6, StepCases

(* A step that leaves the maps and the tree alone and starts no query.     *)
LEMMA EmailFrame ==
  ASSUME MapsFollowTree, EmptyWhileReading,
         UNCHANGED <<emailMap, groupsMap>>, cached'[UG] = cached[UG],
         \A r \in Requests :
           (req'[r].pc \in {"read", "set"} /\ Table(req'[r]) = UG) =>
             (req[r].pc \in {"read", "set"} /\ Table(req[r]) = UG)
  PROVE  MapsFollowTree' /\ EmptyWhileReading'
BY DEF MapsFollowTree, EmptyWhileReading

LEMMA EmailNext ==
  ASSUME TypeOK, EmailInv, [Next]_vars, ~Cooperative
  PROVE  MapsFollowTree' /\ EmptyWhileReading'
<1> USE CacheAssumption DEF tables, maps, loaded
<1>0. OneInHand /\ MapsFollowTree /\ EmptyWhileReading
  BY DEF EmailInv
<1>1. ASSUME NEW r \in Requests, QuietStep(r), ~ComputeGroups(r)
      PROVE  MapsFollowTree' /\ EmptyWhileReading'
  <2>1. Quiet(r)
    BY <1>1, QuietSteps
  <2>2. UNCHANGED <<emailMap, groupsMap>>
    BY <1>1 DEF QuietStep, Initialize, NewRequest, Begin, CheckSkips, CheckFails, ReadFails,
                GroupsLoads, RefreshRuns, RefreshSkips, LookupHits, LookupMisses, FindHits,
                FindMisses, AuthorizeLoads, ComputeAuthorizations, AdminRefresh
  <2>3. \A s \in Requests \ {r} : req'[s] = req[s]
    BY <2>1 DEF Quiet, TypeOK
  <2> QED BY <1>0, <2>1, <2>2, <2>3, EmailFrame DEF Quiet
<1>2. ASSUME NEW r \in Requests, ComputeGroups(r)
      PROVE  MapsFollowTree' /\ EmptyWhileReading'
  <2> DEFINE e == req[r].email
             gs == MatchedGroups(cached[UG], e)
             f == [emailMap EXCEPT ![e] = gs]
  <2>1. e \in Emails /\ cached[UG] \in Trees
    BY <1>2 DEF TypeOK, WellFormed, ComputeGroups, At, Configs, Models
  <2>2. gs \in Keys
    BY <2>1 DEF MatchedGroups, Keys, Tree
  <2>3. groupsMap' = [groupsMap EXCEPT ![gs] = IF @ = None THEN cached[UG] ELSE @]
        /\ cached' = cached /\ cached[UG] # None
    BY <1>2 DEF ComputeGroups
  <2>4. emailMap' = f \/ \E x \in SameMap(e, gs) : emailMap' = [f EXCEPT ![x] = None]
    <3>1. emailMap' \in Trimmed(f, e, SameMap(e, gs), EmailGroupsSize)
      BY <1>2 DEF ComputeGroups
    <3> HIDE DEF f, gs, e
    <3> QED BY <3>1, TrimmedMap
  <2>5. \A k \in Keys : groupsMap'[k] # None => groupsMap'[k] = cached'[UG]
    BY <1>0, <2>2, <2>3 DEF MapsFollowTree, TypeOK
  <2>6. groupsMap'[gs] = cached[UG] /\ \A k \in Keys : groupsMap[k] # None => groupsMap'[k] = cached[UG]
    BY <1>0, <2>2, <2>3 DEF MapsFollowTree, TypeOK
  <2>7. ASSUME NEW a \in Emails, emailMap'[a] # None
        PROVE  emailMap'[a] = MatchedGroups(cached[UG], a) /\ groupsMap'[emailMap'[a]] = cached[UG]
    <3>1. emailMap'[a] = f[a]
      <4> HIDE DEF gs, e
      <4> QED BY <2>1, <2>4, <2>7 DEF TypeOK
    <3>2. CASE a = e
      BY <2>1, <2>6, <3>1, <3>2 DEF TypeOK
    <3>3. CASE a # e
      <4>1. emailMap'[a] = emailMap[a]
        BY <3>1, <3>3 DEF TypeOK
      <4>2. emailMap[a] \in Keys /\ groupsMap[emailMap[a]] = cached[UG]
            /\ emailMap[a] = MatchedGroups(cached[UG], a)
        BY <1>0, <2>7, <4>1 DEF TypeOK, MapsFollowTree
      <4> QED BY <2>3, <2>6, <4>1, <4>2
    <3> QED BY <3>2, <3>3
  <2>8. MapsFollowTree'
    BY <2>3, <2>5, <2>7 DEF MapsFollowTree
  <2>9. EmptyWhileReading'
    <3>1. Quiet(r)
      BY <1>2, QuietSteps DEF QuietStep
    <3>2. \A s \in Requests : req'[s].pc \notin {"read", "set"}
      BY <1>0, <1>2, <3>1 DEF Quiet, OneInHand, ComputeGroups, At, TypeOK
    <3> QED BY <3>2 DEF EmptyWhileReading
  <2> QED BY <2>8, <2>9
<1>3. ASSUME NEW r \in Requests, CheckLoads(r)
      PROVE  MapsFollowTree' /\ EmptyWhileReading'
  <2>1. cached' = cached /\ \A s \in Requests \ {r} : req'[s] = req[s] /\ req[s].pc = "idle"
    BY <1>0, <1>3 DEF CheckLoads, OneInHand, At, TypeOK
  <2>2. Table(req'[r]) = Table(req[r])
    BY <1>3 DEF CheckLoads, TypeOK, Table, Request
  <2>3. CASE Table(req[r]) = UG
    BY <1>3, <2>3 DEF CheckLoads, Clear, EmptyEmailMaps, MapsFollowTree, EmptyWhileReading
  <2>4. CASE Table(req[r]) # UG
    <3>1. UNCHANGED <<emailMap, groupsMap>>
      BY <1>3, <2>4 DEF CheckLoads, Clear
    <3>2. \A s \in Requests : ~(req'[s].pc \in {"read", "set"} /\ Table(req'[s]) = UG)
      BY <2>1, <2>2, <2>4
    <3> QED BY <1>0, <2>1, <3>1, <3>2, EmailFrame
  <2> QED BY <2>3, <2>4
<1>4. ASSUME NEW r \in Requests, ReadTable(r)
      PROVE  MapsFollowTree' /\ EmptyWhileReading'
  <2>1. \A s \in Requests \ {r} : req'[s] = req[s]
    BY <1>4 DEF ReadTable, TypeOK
  <2>2. Table(req'[r]) = Table(req[r]) /\ req[r].pc = "read"
    BY <1>4 DEF ReadTable, TypeOK, Table, Request, At
  <2>3. UNCHANGED <<emailMap, groupsMap, cached>>
    BY <1>4 DEF ReadTable
  <2> QED BY <1>0, <2>1, <2>2, <2>3, EmailFrame
<1>5. ASSUME NEW r \in Requests, SetTable(r)
      PROVE  MapsFollowTree' /\ EmptyWhileReading'
  <2>1. req[r].pc = "set" /\ req' = [req EXCEPT ![r] = Advanced(req[r])]
        /\ cached' = [cached EXCEPT ![Table(req[r])] = rows[r]]
        /\ UNCHANGED <<emailMap, groupsMap>>
    BY <1>5 DEF SetTable, At
  <2>2. Advanced(req[r]).pc \notin {"read", "set"}
    BY <2>1, AdvancedType DEF TypeOK, WellFormed
  <2>3. \A s \in Requests : req'[s].pc \notin {"read", "set"}
    BY <1>0, <1>5, <2>1, <2>2 DEF OneInHand, SetTable, At, TypeOK
  <2>4. CASE Table(req[r]) = UG
    BY <1>0, <2>1, <2>3, <2>4 DEF MapsFollowTree, EmptyWhileReading
  <2>5. CASE Table(req[r]) # UG
    BY <1>0, <2>1, <2>3, <2>5, EmailFrame DEF TypeOK
  <2> QED BY <2>4, <2>5
<1>6. ASSUME NEW m \in Models,
             \/ \E v \in Configs(m) : Save(m, v) \/ SaveUnannounced(m, v)
             \/ Commit(m) \/ Rollback(m)
      PROVE  MapsFollowTree' /\ EmptyWhileReading'
  <2>1. UNCHANGED <<loaded, maps, req>>
    BY <1>6 DEF Save, SaveUnannounced, Commit, Rollback
  <2> QED BY <1>0, <2>1, EmailFrame
<1>7. ASSUME NEW r \in Requests, Yield(r) \/ Resume(r)
      PROVE  MapsFollowTree' /\ EmptyWhileReading'
  BY <1>0, <1>7, EmailFrame DEF Yield, Resume
<1>8. CASE CheckTimeArrives \/ UNCHANGED vars
  BY <1>0, <1>8, EmailFrame DEF CheckTimeArrives, vars
<1> QED BY <1>1, <1>2, <1>3, <1>4, <1>5, <1>6, <1>7, <1>8, StepCases

(***************************************************************************)
(* In a sync worker the groups cached for an email are always those of the  *)
(* loaded tree.  (A gevent worker breaks this: AuthorizationCacheGeventStale*)
(* shows how.)                                                              *)
(***************************************************************************)
THEOREM EmailGroupsCurrentHolds ==
  ASSUME ~Cooperative
  PROVE  Spec => []EmailGroupsCurrent
<1>1. TypeOK /\ EmailInv /\ [Next]_vars => EmailInv'
  BY OneInHandNext, EmailNext DEF EmailInv
<1>2. EmailInv => EmailGroupsCurrent
  BY DEF EmailInv, MapsFollowTree, EmailGroupsCurrent
<1> QED BY <1>1, <1>2, TypeInit, TypeNext, EmailInit, PTL DEF Spec

-----------------------------------------------------------------------------
(***************************************************************************)
(* Misfiled authorizations.  While no entry is misfiled a request may hold  *)
(* a key of an earlier tree; while one is, the request in hand has not      *)
(* reloaded a table, and what it holds was computed from the loaded tree.   *)
(***************************************************************************)
OnTrack(q) ==
  /\ q.key # None => cached[UG] # None /\ q.key = MatchedGroups(cached[UG], q.email)
  /\ q.groups # None => q.key # None /\ q.groups = q.key /\ q.tree = cached[UG]

(* A request has its key before it looks for authorizations, and its groups *)
(* before it computes them.                                                 *)
HasKey(q) ==
  /\ q.pc \in {"refresh", "lookup", "find", "authorize"} => q.key # None
  /\ q.todo # {} /\ q.after \in {"lookup", "authorize"} => q.key # None
  /\ q.pc = "authorize" \/ (q.todo # {} /\ q.after = "authorize") => q.groups # None
  /\ q.pc = "idle" => q.key = None /\ q.groups = None

AuthMapEmpty == \A x \in Keys \X Domains : authMap[x] = None

FiledInv ==
  /\ AtMostOneMisfiled
  /\ \A r \in Requests : HasKey(req[r])
  /\ \A r \in Requests : req[r].pc # "idle" => Misfiled = {} \/ OnTrack(req[r])
  /\ \A r \in Requests : req[r].pc \in {"read", "set"} => AuthMapEmpty

LEMMA FiledInit == Init => FiledInv
<1> SUFFICES ASSUME Init PROVE FiledInv
  OBVIOUS
<1>1. AuthMapEmpty /\ Misfiled = {}
  BY DEF Init, AuthMapEmpty, Misfiled
<1>2. \A r \in Requests : HasKey(req[r]) /\ req[r].pc = "idle"
  BY DEF Init, HasKey, Idle
<1> QED BY <1>1, <1>2 DEF FiledInv, AtMostOneMisfiled

(* What a request holds that is still what it held, or nothing.            *)
Carries(p, q) ==
  \/ p.key = None /\ p.groups = None
  \/ p.key = q.key /\ p.groups = q.groups /\ p.tree = q.tree /\ p.email = q.email

LEMMA AdvancedCarries ==
  ASSUME NEW q, WellFormed(q), q.todo # {}, HasKey(q)
  PROVE  Carries(Advanced(q), q) /\ HasKey(Advanced(q))
<1>0. q \in Request
  BY DEF WellFormed
<1>1. CASE q.todo # {Table(q)}
  <2> DEFINE rest == q.todo \ {Table(q)}
  <2>1. Advanced(q) = [q EXCEPT !.pc = "check", !.todo = rest, !.ts = 0, !.racy = FALSE]
    BY <1>1 DEF Advanced
  <2> HIDE DEF rest
  <2>2. LET p == Advanced(q) IN
          /\ p.pc = "check" /\ p.todo = rest /\ p.after = q.after
          /\ p.key = q.key /\ p.groups = q.groups /\ p.tree = q.tree /\ p.email = q.email
    BY <1>0, <2>1 DEF Request
  <2> QED BY <2>2 DEF Carries, HasKey
<1>2. CASE q.todo = {Table(q)} /\ q.after = "idle"
  BY <1>2 DEF Advanced, Idle, Carries, HasKey
<1>3. CASE q.todo = {Table(q)} /\ q.after # "idle"
  <2>1. Advanced(q) = [q EXCEPT !.pc = q.after, !.todo = {}, !.after = "idle",
                                !.ts = 0, !.racy = FALSE]
    BY <1>3 DEF Advanced
  <2>2. LET p == Advanced(q) IN
          /\ p.pc = q.after /\ p.todo = {} /\ q.after \in {"groups", "lookup", "authorize"}
          /\ p.key = q.key /\ p.groups = q.groups /\ p.tree = q.tree /\ p.email = q.email
    BY <1>0, <1>3, <2>1 DEF Request
  <2> QED BY <1>3, <2>2 DEF Carries, HasKey
<1> QED BY <1>1, <1>2, <1>3

LEMMA StartCarries ==
  ASSUME req \in [Requests -> Request], NEW r \in Requests, NEW ms, NEW f, NEW a,
         StartRefresh(r, ms, f, a), HasKey(req[r]),
         a \in {"lookup", "authorize"} => req[r].key # None,
         a = "authorize" => req[r].groups # None
  PROVE  Carries(req'[r], req[r]) /\ HasKey(req'[r])
<1>1. LET p == req'[r] IN
        /\ p.pc = "check" /\ p.todo = ms /\ p.after = a
        /\ p.key = req[r].key /\ p.groups = req[r].groups
        /\ p.tree = req[r].tree /\ p.email = req[r].email
  BY DEF StartRefresh, Request
<1> QED BY <1>1 DEF Carries, HasKey

LEMMA GoesOnCarries ==
  ASSUME req \in [Requests -> Request], NEW r \in Requests, HasKey(req[r]), WellFormed(req[r]),
         \/ RefreshSkips(r) \/ LookupHits(r) \/ LookupMisses(r) \/ FindMisses(r) \/ ReadFails(r)
         \/ CheckLoads(r) \/ ReadTable(r)
  PROVE  Carries(req'[r], req[r]) /\ HasKey(req'[r])
<1>1. CASE LookupHits(r) \/ ReadFails(r)
  <2>1. req'[r].pc = "idle" /\ req'[r].todo = {} /\ req'[r].key = None /\ req'[r].groups = None
    BY <1>1 DEF LookupHits, ReadFails, Leave, Idle
  <2> QED BY <2>1 DEF Carries, HasKey
<1>2. CASE RefreshSkips(r) \/ LookupMisses(r) \/ FindMisses(r)
  <2>1. LET p == req'[r] IN
          /\ p.todo = req[r].todo /\ p.after = req[r].after
          /\ p.key = req[r].key /\ p.groups = req[r].groups
          /\ p.tree = req[r].tree /\ p.email = req[r].email
    BY <1>2 DEF RefreshSkips, LookupMisses, FindMisses, Request
  <2>2. req[r].key # None
    BY <1>2 DEF RefreshSkips, LookupMisses, FindMisses, HasKey, At
  <2>3. req'[r].pc \in {"lookup", "find", "groups"} \/ (req'[r].pc = "authorize" /\ req[r].groups # None)
    BY <1>2 DEF RefreshSkips, LookupMisses, FindMisses, Request
  <2> QED BY <2>1, <2>2, <2>3 DEF Carries, HasKey
<1>3. CASE CheckLoads(r) \/ ReadTable(r)
  <2>1. LET p == req'[r] IN
          /\ p.todo = req[r].todo /\ p.after = req[r].after /\ p.pc \in {"read", "set"}
          /\ p.key = req[r].key /\ p.groups = req[r].groups
          /\ p.tree = req[r].tree /\ p.email = req[r].email
    BY <1>3 DEF CheckLoads, ReadTable, Request
  <2> QED BY <2>1 DEF Carries, HasKey
<1> QED BY <1>1, <1>2, <1>3

CarryingQuietly(r) ==
  \/ Initialize(r) \/ (\E m \in Models : AdminRefresh(r, m))
  \/ CheckSkips(r) \/ CheckFails(r) \/ ReadFails(r)
  \/ GroupsLoads(r) \/ RefreshRuns(r) \/ RefreshSkips(r)
  \/ LookupHits(r) \/ LookupMisses(r) \/ FindMisses(r) \/ AuthorizeLoads(r)

CarryingStep(r) == CarryingQuietly(r) \/ CheckLoads(r) \/ ReadTable(r) \/ SetTable(r)

LEMMA StepCarries ==
  ASSUME TypeOK, NEW r \in Requests, HasKey(req[r]), CarryingStep(r)
  PROVE  Carries(req'[r], req[r]) /\ HasKey(req'[r])
<1>0. req \in [Requests -> Request] /\ WellFormed(req[r])
  BY DEF TypeOK
<1>1. CASE CheckSkips(r) \/ CheckFails(r) \/ SetTable(r)
  <2>1. req'[r] = Advanced(req[r]) /\ req[r].todo # {}
    BY <1>0, <1>1 DEF CheckSkips, CheckFails, SetTable, At, WellFormed
  <2> QED BY <1>0, <2>1, AdvancedCarries
<1>2. CASE \/ Initialize(r) \/ (\E m \in Models : AdminRefresh(r, m)) \/ GroupsLoads(r)
  BY <1>0, <1>2, StartCarries DEF Initialize, AdminRefresh, GroupsLoads
<1>3. CASE RefreshRuns(r)
  <2>1. req[r].key # None /\ StartRefresh(r, Models, FALSE, "lookup")
    BY <1>3 DEF RefreshRuns, At, HasKey
  <2> QED BY <1>0, <2>1, StartCarries
<1>4. CASE AuthorizeLoads(r)
  <2>1. req[r].key # None /\ req[r].groups # None /\ StartRefresh(r, {UGA}, FALSE, "authorize")
    BY <1>4 DEF AuthorizeLoads, At, HasKey
  <2> QED BY <1>0, <2>1, StartCarries
<1>5. CASE \/ RefreshSkips(r) \/ LookupHits(r) \/ LookupMisses(r) \/ FindMisses(r) \/ ReadFails(r)
           \/ CheckLoads(r) \/ ReadTable(r)
  BY <1>0, <1>5, GoesOnCarries
<1> QED BY <1>1, <1>2, <1>3, <1>4, <1>5 DEF CarryingStep, CarryingQuietly

LEMMA FewerMisfiled ==
  ASSUME cached' = cached, \A x \in Keys \X Domains : authMap'[x] \in {authMap[x], None}
  PROVE  Misfiled' \subseteq Misfiled
BY DEF Misfiled

LEMMA CarriedOnTrack ==
  ASSUME NEW r \in Requests, Carries(req'[r], req[r]), OnTrack(req[r]), cached' = cached
  PROVE  OnTrack(req[r])'
BY DEF Carries, OnTrack

(* A step of the request in hand.                                          *)
LEMMA InHandFiled ==
  ASSUME FiledInv, NEW r \in Requests,
         \A s \in Requests \ {r} : req[s].pc = "idle" /\ req'[s] = req[s],
         HasKey(req'[r]), AtMostOneMisfiled',
         req'[r].pc # "idle" => Misfiled' = {} \/ OnTrack(req[r])',
         req'[r].pc \in {"read", "set"} => AuthMapEmpty'
  PROVE  FiledInv'
<1>1. \A s \in Requests : HasKey(req'[s])
  BY DEF FiledInv
<1>2. \A s \in Requests : req'[s].pc # "idle" => s = r
  OBVIOUS
<1>3. (\A s \in Requests : HasKey(req[s]))'
  BY <1>1 DEF HasKey
<1> QED BY <1>2, <1>3 DEF FiledInv

LEMMA LoadStepsFiled ==
  ASSUME TypeOK, OneInHand, FiledInv, NEW r \in Requests,
         CheckLoads(r) \/ ReadTable(r) \/ SetTable(r)
  PROVE  FiledInv'
<1>0. /\ \A s \in Requests \ {r} : req[s].pc = "idle" /\ req'[s] = req[s]
      /\ req[r].pc # "idle"
  BY DEF CheckLoads, ReadTable, SetTable, At, OneInHand, TypeOK
<1>1. HasKey(req'[r])
  BY StepCarries DEF FiledInv, CarryingStep
<1>2. AuthMapEmpty'
  <2>1. CASE CheckLoads(r)
    BY <2>1 DEF CheckLoads, Clear, EmptyAuthMap, AuthMapEmpty
  <2>2. CASE ReadTable(r) \/ SetTable(r)
    BY <2>2 DEF ReadTable, SetTable, At, FiledInv, AuthMapEmpty, maps
  <2> QED BY <2>1, <2>2
<1>3. Misfiled' = {}
  BY <1>2 DEF AuthMapEmpty, Misfiled
<1>4. AtMostOneMisfiled'
  BY <1>3 DEF AtMostOneMisfiled
<1> QED BY <1>0, <1>1, <1>2, <1>3, <1>4, InHandFiled

LEMMA CarryStepsFiled ==
  ASSUME TypeOK, OneInHand, FiledInv, NEW r \in Requests, CarryingQuietly(r)
  PROVE  FiledInv'
<1>0. Quiet(r)
  BY QuietSteps DEF QuietStep, CarryingQuietly
<1>1. \A s \in Requests \ {r} : req[s].pc = "idle" /\ req'[s] = req[s]
  BY <1>0, CacheAssumption DEF Quiet, Free, OneInHand, TypeOK
<1>2. Carries(req'[r], req[r]) /\ HasKey(req'[r])
  BY StepCarries DEF FiledInv, CarryingStep
<1>3. cached' = cached /\ req'[r].pc \notin {"read", "set"}
  BY <1>0 DEF Quiet, loaded
<1>4. authMap' = authMap
  BY DEF CarryingQuietly, Initialize, AdminRefresh, CheckSkips, CheckFails, ReadFails,
     GroupsLoads, RefreshRuns, RefreshSkips, LookupHits, LookupMisses, FindMisses, AuthorizeLoads, maps
<1>5. Misfiled' = Misfiled
  BY <1>3, <1>4 DEF Misfiled
<1>6. Misfiled = {} \/ OnTrack(req[r])'
  <2>1. CASE req[r].pc = "idle"
    <3>1. req'[r].key = None /\ req'[r].groups = None
      BY <1>2, <2>1 DEF Carries, FiledInv, HasKey
    <3> QED BY <3>1 DEF OnTrack
  <2>2. CASE req[r].pc # "idle"
    BY <1>2, <1>3, <2>2, CarriedOnTrack DEF FiledInv
  <2> QED BY <2>1, <2>2
<1> QED BY <1>1, <1>2, <1>3, <1>5, <1>6, InHandFiled DEF FiledInv, AtMostOneMisfiled

LEMMA BeginFiled ==
  ASSUME TypeOK, OneInHand, MapsFollowTree, FiledInv, NEW r \in Requests, NewRequest(r)
  PROVE  FiledInv'
<1>1. PICK e \in Emails, d \in Domains : Begin(r, e, d)
  BY DEF NewRequest
<1>2. /\ \A s \in Requests \ {r} : req[s].pc = "idle" /\ req'[s] = req[s]
      /\ UNCHANGED <<cached, authMap>>
  BY <1>1, CacheAssumption DEF Begin, Free, OneInHand, TypeOK, loaded, maps
<1>3. LET p == req'[r] IN
        /\ p.email = e /\ p.key = emailMap[e] /\ p.groups = None /\ p.todo = {}
        /\ p.pc = IF emailMap[e] = None THEN "groups" ELSE "refresh"
  BY <1>1 DEF Begin, Idle, TypeOK
<1>4. HasKey(req'[r])
  BY <1>3 DEF HasKey
<1>5. OnTrack(req[r])'
  BY <1>2, <1>3 DEF OnTrack, MapsFollowTree
<1>6. Misfiled' = Misfiled
  BY <1>2 DEF Misfiled
<1> QED BY <1>2, <1>3, <1>4, <1>5, <1>6, InHandFiled DEF FiledInv, AtMostOneMisfiled

LEMMA GroupStepsFiled ==
  ASSUME TypeOK, OneInHand, MapsFollowTree, FiledInv, NEW r \in Requests,
         ComputeGroups(r) \/ FindHits(r)
  PROVE  FiledInv'
<1> DEFINE q == req[r]
<1>0. Quiet(r)
  BY QuietSteps DEF QuietStep
<1>1. /\ \A s \in Requests \ {r} : req[s].pc = "idle" /\ req'[s] = req[s]
      /\ q.pc \in {"groups", "find"} /\ cached' = cached /\ req'[r].pc \notin {"read", "set"}
  BY <1>0 DEF ComputeGroups, FindHits, Quiet, At, OneInHand, TypeOK, loaded
<1>2. authMap' = authMap
  BY DEF ComputeGroups, FindHits, maps
<1>3. Misfiled' = Misfiled /\ (Misfiled = {} \/ OnTrack(q))
  BY <1>1, <1>2 DEF Misfiled, FiledInv
<1>4. q.todo = {} /\ q.email \in Emails /\ (cached[UG] # None => cached[UG] \in Trees)
  BY <1>1 DEF TypeOK, WellFormed, Request, Configs, Models
<1>5. CASE ComputeGroups(r)
  <2> DEFINE gs == MatchedGroups(cached[UG], q.email)
  <2>1. gs \in Keys /\ gs # None
    BY <1>4, <1>5, CacheAssumption DEF ComputeGroups, MatchedGroups, Keys, Tree
  <2>2. LET p == req'[r] IN
          /\ p.groups = gs /\ p.tree = cached[UG] /\ p.todo = {} /\ p.email = q.email
          /\ p.key = (IF q.key = None THEN gs ELSE q.key) /\ p.pc \in {"refresh", "authorize"}
    BY <1>4, <1>5 DEF ComputeGroups, TypeOK, Request
  <2> HIDE DEF gs
  <2>3. HasKey(req'[r])
    BY <2>1, <2>2 DEF HasKey
  <2>4. OnTrack(q) => OnTrack(req[r])'
    BY <1>1, <1>5, <2>1, <2>2 DEF OnTrack, ComputeGroups, gs
  <2> QED BY <1>1, <1>3, <2>3, <2>4, InHandFiled DEF FiledInv, AtMostOneMisfiled
<1>6. CASE FindHits(r)
  <2>1. LET p == req'[r] IN
          /\ p.groups = emailMap[q.email] /\ p.tree = groupsMap[emailMap[q.email]]
          /\ p.todo = {} /\ p.email = q.email /\ p.key = q.key /\ p.pc = "authorize"
    BY <1>4, <1>6 DEF FindHits, CachedKey, TypeOK, Request
  <2>2. emailMap[q.email] # None /\ q.key # None
    BY <1>6 DEF FindHits, CachedGroups, CachedKey, FiledInv, HasKey, At
  <2>3. HasKey(req'[r])
    BY <2>1, <2>2 DEF HasKey
  <2>4. OnTrack(q) => OnTrack(req[r])'
    BY <1>1, <1>4, <2>1, <2>2 DEF OnTrack, MapsFollowTree
  <2> QED BY <1>1, <1>3, <2>3, <2>4, InHandFiled DEF FiledInv, AtMostOneMisfiled
<1> QED BY <1>5, <1>6

(***************************************************************************)
(* The one step that files authorizations.                                  *)
(***************************************************************************)
LEMMA ComputeFiled ==
  ASSUME TypeOK, OneInHand, FiledInv, NEW r \in Requests, ComputeAuthorizations(r)
  PROVE  FiledInv'
<1> DEFINE q == req[r]
           x == <<q.key, q.domain>>
           found == FindAuthorizations(q.tree, cached[UGA], q.groups, q.domain)
           f == [authMap EXCEPT ![x] = found]
<1>1. /\ \A s \in Requests \ {r} : req[s].pc = "idle" /\ req'[s] = req[s]
      /\ q.pc = "authorize" /\ cached' = cached /\ req'[r] = Idle
  BY DEF ComputeAuthorizations, Leave, At, OneInHand, TypeOK, loaded
<1>2. HasKey(req'[r]) /\ req'[r].pc = "idle"
  BY <1>1 DEF HasKey, Idle
<1>3. /\ \A y \in (Keys \X Domains) \ {x} : authMap'[y] \in {authMap[y], None}
      /\ x \in Keys \X Domains => authMap'[x] \in {found, None}
  <2>1. authMap' \in Trimmed(f, x, DOMAIN authMap, AuthMapSize)
    BY DEF ComputeAuthorizations
  <2> HIDE DEF x, found
  <2>2. /\ DOMAIN f = Keys \X Domains
        /\ \A y \in (Keys \X Domains) \ {x} : f[y] = authMap[y]
        /\ x \in Keys \X Domains => f[x] = found
    BY DEF TypeOK
  <2> HIDE DEF f
  <2>3. authMap' = f \/ \E y \in DOMAIN authMap : authMap' = [f EXCEPT ![y] = None]
    BY <2>1, TrimmedMap
  <2> QED BY <2>2, <2>3
<1>4. Misfiled' \subseteq Misfiled \cup {x}
  <2> HIDE DEF x
  <2> QED BY <1>1, <1>3 DEF Misfiled
<1>5. CASE Misfiled = {}
  BY <1>1, <1>2, <1>4, <1>5, InHandFiled DEF AtMostOneMisfiled
<1>6. CASE OnTrack(q)
  <2>1. /\ q.groups = q.key /\ q.tree = cached[UG] /\ cached[UG] # None
        /\ q.key \in Keys /\ cached[UGA] # None
    BY <1>1, <1>6 DEF OnTrack, FiledInv, HasKey, TypeOK, Request, ComputeAuthorizations
  <2>3. found = FindAuthorizations(cached[UG], cached[UGA], x[1], x[2])
    BY <2>1
  <2>4. x \notin Misfiled'
    <3> HIDE DEF x, found
    <3> QED BY <1>1, <1>3, <2>1, <2>3 DEF Misfiled
  <2>5. Misfiled' \subseteq Misfiled
    BY <1>4, <2>4
  <2> QED BY <1>1, <1>2, <2>5, InHandFiled DEF FiledInv, AtMostOneMisfiled
<1> QED BY <1>1, <1>5, <1>6 DEF FiledInv

LEMMA FiledNext ==
  ASSUME TypeOK, EmailInv, FiledInv, [Next]_vars, ~Cooperative
  PROVE  FiledInv'
<1>0. OneInHand /\ MapsFollowTree
  BY DEF EmailInv
<1>1. ASSUME NEW r \in Requests, QuietStep(r) PROVE FiledInv'
  BY <1>0, <1>1, CarryStepsFiled, BeginFiled, GroupStepsFiled, ComputeFiled DEF QuietStep, CarryingQuietly
<1>2. ASSUME NEW r \in Requests, CheckLoads(r) \/ ReadTable(r) \/ SetTable(r) PROVE FiledInv'
  BY <1>0, <1>2, LoadStepsFiled
<1>3. CASE UNCHANGED <<cached, authMap, req>>
  <2>1. Misfiled' = Misfiled
    BY <1>3 DEF Misfiled
  <2> QED BY <1>3, <2>1 DEF FiledInv, AtMostOneMisfiled, HasKey, OnTrack, AuthMapEmpty
<1>4. ASSUME NEW m \in Models,
             \/ \E v \in Configs(m) : Save(m, v) \/ SaveUnannounced(m, v)
             \/ Commit(m) \/ Rollback(m)
      PROVE  FiledInv'
  BY <1>3, <1>4 DEF Save, SaveUnannounced, Commit, Rollback, loaded, maps
<1>5. ASSUME NEW r \in Requests, Yield(r) \/ Resume(r) PROVE FiledInv'
  BY <1>3, <1>5 DEF Yield, Resume, loaded, maps
<1>6. CASE CheckTimeArrives \/ UNCHANGED vars
  BY <1>3, <1>6 DEF CheckTimeArrives, vars, loaded, maps
<1> QED BY <1>1, <1>2, <1>4, <1>5, <1>6, StepCases

(***************************************************************************)
(* In a sync worker at most one entry of the authorization map is ever      *)
(* wrong: the one that was filed by the request that reloaded the tree      *)
(* between reading its key and computing its authorizations (can_access).   *)
(***************************************************************************)
THEOREM AtMostOneMisfiledHolds ==
  ASSUME ~Cooperative
  PROVE  Spec => []AtMostOneMisfiled
<1>1. TypeOK /\ EmailInv /\ [Next]_vars => EmailInv'
  BY OneInHandNext, EmailNext DEF EmailInv
<1>2. FiledInv => AtMostOneMisfiled
  BY DEF FiledInv
<1>3. TypeOK /\ EmailInv /\ FiledInv /\ [Next]_vars => FiledInv'
  BY FiledNext
<1> QED BY <1>1, <1>2, <1>3, TypeInit, TypeNext, EmailInit, FiledInit, PTL DEF Spec

=============================================================================
