------------------------------ MODULE UserCache ------------------------------
(***************************************************************************)
(* One user's record on its way from the database to the answer of          *)
(* '/sso/auth': each cluster caches the record in Redis (patch.py and the   *)
(* listeners of models.py), and each worker keeps the last answers it made  *)
(* from it (cache.py, views.py).  The record is changed by the user's       *)
(* profile page, by a sign-in and by an administrator.                      *)
(*                                                                         *)
(* Each step is one call of Redis, of the database or of another cluster.   *)
(* A record is the time it was modified, which stands for the names an      *)
(* answer shows, and is_staff.  The user is active and is not deleted.      *)
(***************************************************************************)
EXTENDS Naturals, FiniteSets

CONSTANTS
  Clusters,
  Workers,       \* sync workers: one request at a time
  Home,          \* the cluster of each worker
  None,
  MaxSaves,      \* bound: requests that change the record
  MaxFailures    \* bound: calls of Redis or of a cluster that fail

ASSUME UserCacheAssumption ==
  /\ Home \in [Workers -> Clusters]
  /\ IsFiniteSet(Clusters)
  /\ None \notin Workers
  /\ MaxSaves \in Nat /\ MaxFailures \in Nat

Record == [modified : Nat, staff : BOOLEAN]

Answers == [name : Nat, stamp : Nat, expired : BOOLEAN, late : BOOLEAN]

ASSUME NoRecord == None \notin Record \cup Answers

VARIABLES
  db,         \* the committed row
  txn,        \* the row an administrator's open transaction will commit
  owner,      \* the worker of that transaction, which locks the row
  cached,     \* the user in each cluster's user cache, or None
  answers,    \* _staff_auth_map and _auth_map of each worker
  req,        \* the request of each worker
  now,        \* the clock, which ticks when a record is modified
  saves, failures,
  raced,      \* history: clusters that missed a change by a race, a sign-in
              \*   elsewhere, a lost call, a partial save, a rollback or a
              \*   failure of Redis after the save
  undone      \* history: the modification times that were rolled back

row    == <<db, txn, owner>>
counts == <<saves, failures>>
past   == <<raced, undone>>
vars   == <<row, cached, answers, req, now, counts, past>>

Kinds == {"auth", "profile", "signin", "admin"}

Idle == [pc |-> "idle", kind |-> "auth", user |-> None, todo |-> {}, shown |-> None]

Init ==
  /\ db = [modified |-> 0, staff |-> FALSE]
  /\ txn = None /\ owner = None
  /\ cached = [c \in Clusters |-> None]
  /\ answers = [w \in Workers |-> [s \in BOOLEAN |-> None]]
  /\ req = [w \in Workers |-> Idle]
  /\ now = 0
  /\ saves = 0 /\ failures = 0
  /\ raced = {} /\ undone = {}

At(w, pc) == req[w].pc = pc

Here(w) == Home[w]

GoTo(w, pc) == req' = [req EXCEPT ![w].pc = pc]

Leave(w) == req' = [req EXCEPT ![w] = Idle]

Fail == failures < MaxFailures /\ failures' = failures + 1

-----------------------------------------------------------------------------
(* Requests with a session load their user first; a sign-in and an          *)
(* administrator's page read the row they will save.                        *)
Begin(w, kind) ==
  /\ At(w, "idle")
  /\ kind # "auth" => saves < MaxSaves
  /\ saves' = IF kind = "auth" THEN saves ELSE saves + 1
  /\ req' = [req EXCEPT ![w] =
               [Idle EXCEPT !.kind = kind,
                            !.pc = IF kind \in {"auth", "profile"} THEN "get" ELSE "readRow"]]
  /\ UNCHANGED <<row, cached, answers, now, failures, past>>

(* The request has its user.                                               *)
Loaded(w, u) ==
  req' = [req EXCEPT ![w].user = u,
                     ![w].pc = IF req[w].kind = "auth" THEN "answer" ELSE "write"]

GetHits(w) ==
  /\ At(w, "get") /\ cached[Here(w)] # None
  /\ Loaded(w, cached[Here(w)])
  /\ UNCHANGED <<row, cached, answers, now, counts, past>>

GetMisses(w) ==
  /\ At(w, "get") /\ cached[Here(w)] = None
  /\ GoTo(w, "read")
  /\ UNCHANGED <<row, cached, answers, now, counts, past>>

(* load_user goes on without the cache.                                    *)
GetFails(w) ==
  /\ At(w, "get") /\ Fail
  /\ GoTo(w, "read")
  /\ UNCHANGED <<row, cached, answers, now, saves, past>>

(* A cluster that reads the row while a change of it is not committed may   *)
(* cache the old row after the change announced itself.                     *)
ReadUser(w) ==
  /\ At(w, "read")
  /\ req' = [req EXCEPT ![w].user = db, ![w].pc = "set"]
  /\ raced' = IF txn = None THEN raced ELSE raced \cup {Here(w)}
  /\ UNCHANGED <<row, cached, answers, now, counts, undone>>

SetUser(w) ==
  /\ At(w, "set")
  /\ cached' = [cached EXCEPT ![Here(w)] = req[w].user]
  /\ Loaded(w, req[w].user)
  /\ UNCHANGED <<row, answers, now, counts, past>>

SetFails(w) ==
  /\ At(w, "set") /\ Fail
  /\ Loaded(w, req[w].user)
  /\ UNCHANGED <<row, cached, answers, now, saves, past>>

ReadRow(w) ==
  /\ At(w, "readRow")
  /\ req' = [req EXCEPT ![w].user = db, ![w].pc = "write"]
  /\ UNCHANGED <<row, cached, answers, now, counts, past>>

(* Redis drops an entry when its timeout is over.                          *)
Expire(c) ==
  /\ cached[c] # None
  /\ cached' = [cached EXCEPT ![c] = None]
  /\ UNCHANGED <<row, answers, req, now, counts, past>>

-----------------------------------------------------------------------------
(* Saving.  What is written are the columns of update_fields, what is       *)
(* cached is the instance.                                                  *)

(* Clusters where a request holds a copy of the record while it changes.   *)
Holding(w) ==
  {Here(v) : v \in {x \in Workers \ {w} : req[x].pc \notin {"idle", "get", "read", "readRow"}}}

(* save(update_fields=["first_name","last_name","modified"]), after         *)
(* clean(), which makes a member of the DBCA group staff: cached, not saved.*)
WriteProfile(w, dbca) ==
  LET inst == [modified |-> now + 1, staff |-> req[w].user.staff \/ dbca] IN
  /\ At(w, "write") /\ req[w].kind = "profile"
  /\ txn = None
  /\ now' = now + 1
  /\ db' = [db EXCEPT !.modified = now']
  /\ req' = [req EXCEPT ![w].user = inst, ![w].pc = "postGet"]
  /\ raced' = raced \cup Holding(w) \cup (IF inst = db' THEN {} ELSE {Here(w)})
  /\ UNCHANGED <<txn, owner, cached, answers, counts, undone>>

(* auth_local saves is_staff, but not modified, and tells no other cluster.*)
WriteSignin(w, staff) ==
  LET inst == [req[w].user EXCEPT !.staff = staff] IN
  /\ At(w, "write") /\ req[w].kind = "signin"
  /\ txn = None
  /\ db' = [db EXCEPT !.staff = staff]
  /\ req' = [req EXCEPT ![w].user = inst, ![w].pc = "postGet"]
  /\ raced' = raced \cup Holding(w) \cup (Clusters \ {Here(w)})
                    \cup (IF inst = db' THEN {} ELSE {Here(w)})
  /\ UNCHANGED <<txn, owner, cached, answers, now, counts, undone>>

(* An admin page saves every column inside a transaction.                  *)
WriteAdmin(w, staff) ==
  /\ At(w, "write") /\ req[w].kind = "admin"
  /\ txn = None
  /\ now' = now + 1
  /\ txn' = [modified |-> now', staff |-> staff]
  /\ owner' = w
  /\ req' = [req EXCEPT ![w].user = txn', ![w].pc = "postGet"]
  /\ raced' = raced \cup Holding(w)
  /\ UNCHANGED <<db, cached, answers, counts, undone>>

(* post_save_user replaces the user only if it is cached.                  *)
AfterPost(w) ==
  [req EXCEPT ![w].pc = IF req[w].kind = "signin" THEN "store" ELSE "notify",
              ![w].todo = IF req[w].kind = "signin" THEN {} ELSE Clusters \ {Here(w)}]

PostGetMisses(w) ==
  /\ At(w, "postGet") /\ cached[Here(w)] = None
  /\ req' = AfterPost(w)
  /\ UNCHANGED <<row, cached, answers, now, counts, past>>

PostGetHits(w) ==
  /\ At(w, "postGet") /\ cached[Here(w)] # None
  /\ GoTo(w, "postSet")
  /\ UNCHANGED <<row, cached, answers, now, counts, past>>

PostSetSkipped(w) ==
  /\ At(w, "postSet")
  /\ req' = AfterPost(w)
  /\ UNCHANGED <<row, cached, answers, now, counts, past>>

PostSet(w) ==
  /\ At(w, "postSet")
  /\ cached' = [cached EXCEPT ![Here(w)] = req[w].user]
  /\ req' = AfterPost(w)
  /\ UNCHANGED <<row, answers, now, counts, past>>

(* post_save_user does not guard its calls of Redis.  A profile or sign-in   *)
(* row is committed by then: the request fails, its own cluster keeps the   *)
(* old user and no cluster is told.  (An administrator's page rolls back.)  *)
PostFails(w) ==
  /\ At(w, "postGet") \/ At(w, "postSet")
  /\ req[w].kind # "admin"
  /\ Fail
  /\ raced' = Clusters
  /\ Leave(w)
  /\ UNCHANGED <<row, cached, answers, now, saves, undone>>

(* The sign-in caches the user in any case.  (login has saved last_login    *)
(* before, which replaces a cached user by the same instance.)              *)
StoreUser(w) ==
  /\ At(w, "store")
  /\ cached' = [cached EXCEPT ![Here(w)] = req[w].user]
  /\ Leave(w)
  /\ UNCHANGED <<row, answers, now, counts, past>>

StoreFails(w) ==
  /\ At(w, "store") /\ Fail
  /\ Leave(w)
  /\ UNCHANGED <<row, cached, answers, now, saves, past>>

(* cache.user_changed: one call to each other cluster, which deletes its   *)
(* entry; a call that fails is logged.                                     *)
Notify(w, c) ==
  /\ At(w, "notify") /\ c \in req[w].todo
  /\ cached' = [cached EXCEPT ![c] = None]
  /\ req' = [req EXCEPT ![w].todo = @ \ {c}]
  /\ UNCHANGED <<row, answers, now, counts, past>>

NotifyFails(w, c) ==
  /\ At(w, "notify") /\ c \in req[w].todo
  /\ Fail
  /\ req' = [req EXCEPT ![w].todo = @ \ {c}]
  /\ raced' = raced \cup {c}
  /\ UNCHANGED <<row, cached, answers, now, saves, undone>>

Notified(w) == At(w, "notify") /\ req[w].todo = {}

ProfileDoneForAll(w) ==
  /\ Notified(w)
  /\ Leave(w)
  /\ UNCHANGED <<row, cached, answers, now, counts, past>>

ProfileDone(w) ==
  /\ Notified(w) /\ req[w].kind = "profile"
  /\ Leave(w)
  /\ UNCHANGED <<row, cached, answers, now, counts, past>>

Commit(w) ==
  /\ Notified(w) /\ owner = w
  /\ db' = txn /\ txn' = None /\ owner' = None
  /\ raced' = raced \cup Holding(w)
  /\ Leave(w)
  /\ UNCHANGED <<cached, answers, now, counts, undone>>

(* An exception after the save, of Redis or of the page, rolls it back.    *)
Rollback(w) ==
  /\ owner = w /\ Fail
  /\ txn' = None /\ owner' = None
  /\ raced' = raced \cup {Here(w)}
  /\ undone' = undone \cup {txn.modified}
  /\ Leave(w)
  /\ UNCHANGED <<db, cached, answers, now, saves>>

-----------------------------------------------------------------------------
(* _auth: the answer.                                                      *)

(* get_auth: an answer is used until it expires, if it was made after the   *)
(* user was modified.                                                       *)
FreshWhileNotExpired(a, u) == a # None /\ ~a.expired

FreshForever(a, u) == a # None /\ a.stamp >= u.modified

Fresh(a, u) == a # None /\ ~a.expired /\ a.stamp >= u.modified

AnswerCached(w) ==
  LET u == req[w].user
      a == answers[w][u.staff]
  IN
  /\ At(w, "answer") /\ Fresh(a, u)
  /\ req' = [req EXCEPT ![w].pc = "respond", ![w].shown = a]
  /\ UNCHANGED <<row, cached, answers, now, counts, past>>

(* _populate_response and set_auth, which may be due to clean the answers   *)
(* of users who are no staff.  A request whose session has just moved makes *)
(* an answer although a cached one is fresh.  "late": the row had changed   *)
(* since the user was loaded, or before.                                    *)
AnswerMade(w) ==
  LET u == req[w].user
      a == [name |-> u.modified, stamp |-> now, expired |-> FALSE,
            late |-> u.modified < db.modified \/ txn # None]
  IN
  /\ At(w, "answer")
  /\ \/ answers' = [answers EXCEPT ![w][u.staff] = a]
     \/ answers' = [answers EXCEPT ![w] = [s \in BOOLEAN |->
                      CASE ~s -> None [] s /\ u.staff -> a [] OTHER -> @[s]]]
  /\ req' = [req EXCEPT ![w].pc = "respond", ![w].shown = a]
  /\ UNCHANGED <<row, cached, now, counts, past>>

Respond(w) ==
  /\ At(w, "respond")
  /\ Leave(w)
  /\ UNCHANGED <<row, cached, answers, now, counts, past>>

AnswerExpires(w, s) ==
  /\ answers[w][s] # None /\ ~answers[w][s].expired
  /\ answers' = [answers EXCEPT ![w][s].expired = TRUE]
  /\ UNCHANGED <<row, cached, req, now, counts, past>>

-----------------------------------------------------------------------------
Step(w) ==
  \/ GetHits(w) \/ GetMisses(w) \/ ReadUser(w) \/ SetUser(w) \/ ReadRow(w)
  \/ \E staff \in BOOLEAN :
       WriteProfile(w, staff) \/ WriteSignin(w, staff) \/ WriteAdmin(w, staff)
  \/ PostGetMisses(w) \/ PostGetHits(w) \/ PostSet(w) \/ StoreUser(w)
  \/ \E c \in Clusters : Notify(w, c)
  \/ ProfileDone(w) \/ Commit(w)
  \/ AnswerCached(w) \/ AnswerMade(w) \/ Respond(w)

Failure(w) ==
  \/ GetFails(w) \/ SetFails(w) \/ Rollback(w)
  \/ PostFails(w) \/ StoreFails(w)
  \/ \E c \in Clusters : NotifyFails(w, c)

Next ==
  \/ \E w \in Workers : Step(w) \/ Failure(w) \/ \E kind \in Kinds : Begin(w, kind)
  \/ \E c \in Clusters : Expire(c)
  \/ \E w \in Workers, s \in BOOLEAN : AnswerExpires(w, s)

Spec == Init /\ [][Next]_vars

(* Requests are carried out, and timeouts pass.                            *)
Fairness ==
  /\ \A w \in Workers : WF_vars(Step(w))
  /\ \A c \in Clusters : WF_vars(Expire(c))
  /\ \A w \in Workers, s \in BOOLEAN : WF_vars(AnswerExpires(w, s))

FairSpec == Spec /\ Fairness

-----------------------------------------------------------------------------
PCs == {"idle", "get", "read", "set", "readRow", "write", "postGet", "postSet",
        "store", "notify", "answer", "respond"}

(* No answer is stamped, and no record modified, in the future; a           *)
(* transaction belongs to a request that still works on it.                 *)
TypeOK ==
  /\ now \in 0..MaxSaves
  /\ db \in Record /\ db.modified <= now
  /\ txn \in Record \cup {None} /\ owner \in Workers \cup {None}
  /\ txn # None <=> owner # None
  /\ owner # None => req[owner].kind = "admin" /\ req[owner].pc \in {"postGet", "postSet", "notify"}
  /\ cached \in [Clusters -> Record \cup {None}]
  /\ answers \in [Workers -> [BOOLEAN -> Answers \cup {None}]]
  /\ \A w \in Workers, s \in BOOLEAN : answers[w][s] # None => answers[w][s].stamp <= now
  /\ req \in [Workers ->
                [pc : PCs, kind : Kinds, user : Record \cup {None},
                 todo : SUBSET Clusters, shown : Answers \cup {None}]]
  /\ saves \in 0..MaxSaves /\ failures \in 0..MaxFailures
  /\ raced \subseteq Clusters /\ undone \subseteq 0..now

(***************************************************************************)
(* Between requests, the cached user of a cluster is the one in the         *)
(* database, unless the cluster missed a change: a request there had a copy *)
(* in hand when the record changed or read it before the commit, a request  *)
(* there saved fewer columns than it cached, a sign-in happened in another  *)
(* cluster, a call of user_changed was lost, a transaction was rolled back, *)
(* or Redis failed in post_save_user when the row was already committed.    *)
(***************************************************************************)
CachedUserCurrent ==
  (\A w \in Workers : At(w, "idle")) =>
    \A c \in Clusters \ raced : cached[c] \in {None, db}

(***************************************************************************)
(* get_auth compares the time an answer was made with the time the user was *)
(* modified: an answer made from the record of its moment is never shown to *)
(* a request that loaded a later one, in whichever of the two maps it is.   *)
(* Only a record that was rolled back, and that a cache still held, may be  *)
(* later than the answer: the answer was made from the database after it.   *)
(***************************************************************************)
OutdatedOnlyIfLate ==
  \A w \in Workers :
    At(w, "respond") =>
      \/ req[w].shown.name >= req[w].user.modified
      \/ req[w].shown.late
      \/ req[w].user.modified \in undone

(***************************************************************************)
(* Whatever races, lost calls and rollbacks left behind is gone when the    *)
(* timeouts have passed: once the record does not change any more, users    *)
(* are cached and shown as the record says, for ever.                       *)
(***************************************************************************)
Current ==
  /\ \A c \in Clusters : cached[c] \in {None, db}
  /\ \A w \in Workers : At(w, "respond") => req[w].shown.name = db.modified

EventuallyCurrent == <>[]Current

=============================================================================
