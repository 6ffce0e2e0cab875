--------------------------- MODULE UserCacheProofs ---------------------------
(***************************************************************************)
(* Proofs about UserCache for any clusters and workers, workers of one      *)
(* cluster included, and any bounds.                                       *)
(***************************************************************************)
EXTENDS UserCache, FiniteSetTheorems, TLAPS

-----------------------------------------------------------------------------
(* The inductive invariant, in the parts the theorems need.                *)

(* What a request has in hand at each of its steps.                        *)
Carrying == {"set", "write", "postGet", "postSet", "store", "notify", "answer", "respond"}

RequestOK(q) ==
  /\ q.pc \in {"get", "read", "set"} => q.kind \in {"auth", "profile"}
  /\ q.pc = "readRow" => q.kind \in {"signin", "admin"}
  /\ q.pc \in {"answer", "respond"} => q.kind = "auth"
  /\ q.pc \in {"write", "postGet", "postSet"} => q.kind # "auth"
  /\ q.pc = "store" => q.kind = "signin"
  /\ q.pc = "notify" => q.kind \in {"profile", "admin"}
  /\ q.pc \in Carrying => q.user # None
  /\ q.pc = "respond" => q.shown # None /\ q.user.modified <= q.shown.stamp

RequestsOK == \A w \in Workers : RequestOK(req[w])

(* The requests that have begun a change and have not written it.          *)
Changing(q) == q.kind # "auth" /\ q.pc \in {"get", "read", "set", "readRow", "write"}

Unwritten == {w \in Workers : Changing(req[w])}

SavesInv == IsFiniteSet(Unwritten) /\ now + Cardinality(Unwritten) <= saves

(* An administrator who has saved and not left owns the transaction.       *)
Saved(q) == q.kind = "admin" /\ q.pc \in {"postGet", "postSet", "notify"}

OwnerInv ==
  /\ txn # None <=> owner # None
  /\ \A w \in Workers : Saved(req[w]) <=> owner = w
  /\ owner # None => req[owner].user = txn /\ txn.modified = now

(* A copy that its request may still cache.                                *)
Copying(q) == q.pc \in {"set", "postGet", "postSet", "store"}

Written(w) == IF owner = w THEN txn ELSE db

CopyOK(w, q) == q.user = Written(w) /\ owner \in {None, w}

CopiesInv ==
  \A w \in Workers : Copying(req[w]) /\ Here(w) \notin raced => CopyOK(w, req[w])

(* A change that is written, which the request q of w has still to carry to *)
(* the cluster c.                                                          *)
Owes(w, q, c) ==
  \/ /\ q.kind = "profile"
     /\ q.pc \in {"postGet", "postSet"} \/ (q.pc = "notify" /\ c \in q.todo)
  \/ q.kind = "signin" /\ q.pc \in {"postGet", "postSet"} /\ c = Here(w)

HasTold(q, c) == q.pc = "notify" /\ c \notin q.todo

Told(c) == owner # None /\ HasTold(req[owner], c)

(* The cluster has been told of the open transaction, or its user is the    *)
(* committed one, or somebody will replace or delete it.                   *)
CacheOK(c) ==
  IF Told(c)
  THEN cached[c] = None \/ (c = Here(owner) /\ cached[c] = txn)
  ELSE cached[c] \in {None, db} \/ \E w \in Workers : Owes(w, req[w], c)

CachedInv == \A c \in Clusters \ raced : CacheOK(c)

(* The times of the copies of the record that are about, and the answers.  *)
Held ==
  {u \in {cached[c] : c \in Clusters} \cup {req[w].user : w \in Workers} \cup {db, txn} : u # None}

Times == {u.modified : u \in Held}

Made ==
  {a \in {answers[w][s] : w \in Workers, s \in BOOLEAN} \cup {req[w].shown : w \in Workers} :
     a # None}

HeldInv ==
  \A m \in Times :
    /\ m <= now
    /\ m <= db.modified \/ m \in undone \/ (txn # None /\ m = txn.modified)

MadeInv ==
  \A a \in Made :
    /\ a.stamp <= now
    /\ ~a.late => \A m \in Times : a.name < m /\ m <= a.stamp => m \in undone

-----------------------------------------------------------------------------
(* What TypeOK says, without the bound on the clock.                       *)
Request ==
  [pc : PCs, kind : Kinds, user : Record \cup {None}, todo : SUBSET Clusters,
   shown : Answers \cup {None}]

Shapes ==
  /\ now \in Nat /\ saves \in 0..MaxSaves /\ failures \in 0..MaxFailures
  /\ db \in Record /\ txn \in Record \cup {None} /\ owner \in Workers \cup {None}
  /\ cached \in [Clusters -> Record \cup {None}]
  /\ answers \in [Workers -> [BOOLEAN -> Answers \cup {None}]]
  /\ req \in [Workers -> Request]
  /\ raced \subseteq Clusters /\ undone \in SUBSET Nat

(* One request changes.                                                    *)
Becomes(w, q) == req' = [req EXCEPT ![w] = q]

With(q, pc, user, todo, shown) ==
  [pc |-> pc, kind |-> q.kind, user |-> user, todo |-> todo, shown |-> shown]

LEMMA BecomesOK ==
  ASSUME req \in [Workers -> Request], NEW w \in Workers, NEW q \in Request, Becomes(w, q)
  PROVE  /\ req' \in [Workers -> Request]
         /\ req'[w] = q
         /\ \A v \in Workers \ {w} : req'[v] = req[v]
BY DEF Becomes

LEMMA WithOK ==
  ASSUME NEW q \in Request, NEW pc \in PCs, NEW user \in Record \cup {None},
         NEW todo \in SUBSET Clusters, NEW shown \in Answers \cup {None}
  PROVE  With(q, pc, user, todo, shown) \in Request
BY DEF With, Request

LEMMA IdleOK ==
  /\ Idle \in Request
  /\ \A k \in Kinds, pc \in PCs : [Idle EXCEPT !.kind = k, !.pc = pc] \in Request
<1>1. Idle \in Request
  BY DEF Idle, Request, PCs, Kinds
<1>2. ASSUME NEW k \in Kinds, NEW pc \in PCs PROVE [Idle EXCEPT !.kind = k, !.pc = pc] \in Request
  BY <1>1 DEF Request
<1>. QED
  BY <1>1, <1>2

-----------------------------------------------------------------------------
(* What each step does to the requests.                                    *)
Went(w, q) ==
  /\ req' \in [Workers -> Request]
  /\ req'[w] = q
  /\ \A v \in Workers \ {w} : req'[v] = req[v]

Going(w, pc, user) == With(req[w], pc, user, req[w].todo, req[w].shown)

AfterLoad(w) == IF req[w].kind = "auth" THEN "answer" ELSE "write"

AfterSave(w) ==
  With(req[w], IF req[w].kind = "signin" THEN "store" ELSE "notify", req[w].user,
       IF req[w].kind = "signin" THEN {} ELSE Clusters \ {Here(w)}, req[w].shown)

Telling(w, todo) == With(req[w], "notify", req[w].user, todo, req[w].shown)

Showing(w, a) == With(req[w], "respond", req[w].user, req[w].todo, a)

NewAnswer(u) ==
  [name |-> u.modified, stamp |-> now, expired |-> FALSE,
   late |-> u.modified < db.modified \/ txn # None]

LEMMA GoingOK ==
  ASSUME Shapes, NEW w \in Workers, NEW pc \in PCs, NEW user \in Record \cup {None}
  PROVE  Going(w, pc, user) \in Request
<1>1. req[w] \in Request
  BY DEF Shapes
<1>2. req[w].todo \in SUBSET Clusters /\ req[w].shown \in Answers \cup {None}
  BY <1>1 DEF Request
<1>. QED
  BY <1>1, <1>2, WithOK DEF Going

LEMMA Moves ==
  ASSUME req \in [Workers -> Request], NEW w \in Workers, NEW p,
         req' = [req EXCEPT ![w].pc = p]
  PROVE  Becomes(w, Going(w, p, req[w].user))
<1>1. [req[w] EXCEPT !.pc = p] = Going(w, p, req[w].user)
  <2>1. req[w] \in Request
    OBVIOUS
  <2>. QED
    BY <2>1 DEF With, Request, Going
<1>. QED
  BY <1>1 DEF Becomes

LEMMA Takes ==
  ASSUME req \in [Workers -> Request], NEW w \in Workers, NEW p, NEW u,
         req' = [req EXCEPT ![w].user = u, ![w].pc = p]
  PROVE  Becomes(w, Going(w, p, u))
<1>1. [req[w] EXCEPT !.user = u] = With(req[w], req[w].pc, u, req[w].todo, req[w].shown)
  <2>1. req[w] \in Request
    OBVIOUS
  <2>. QED
    BY <2>1 DEF With, Request
<1>2. [With(req[w], req[w].pc, u, req[w].todo, req[w].shown) EXCEPT !.pc = p] = Going(w, p, u)
  BY DEF With, Going
<1>3. req' = [req EXCEPT ![w] = [[req[w] EXCEPT !.user = u] EXCEPT !.pc = p]]
  OBVIOUS
<1>. QED
  BY <1>1, <1>2, <1>3 DEF Becomes

LEMMA Saves ==
  ASSUME req \in [Workers -> Request], NEW w \in Workers, NEW p, NEW t,
         req' = [req EXCEPT ![w].pc = p, ![w].todo = t]
  PROVE  Becomes(w, With(req[w], p, req[w].user, t, req[w].shown))
<1>1. [req[w] EXCEPT !.pc = p] = With(req[w], p, req[w].user, req[w].todo, req[w].shown)
  <2>1. req[w] \in Request
    OBVIOUS
  <2>. QED
    BY <2>1 DEF With, Request
<1>2. [With(req[w], p, req[w].user, req[w].todo, req[w].shown) EXCEPT !.todo = t] = With(req[w], p, req[w].user, t, req[w].shown)
  BY DEF With
<1>3. req' = [req EXCEPT ![w] = [[req[w] EXCEPT !.pc = p] EXCEPT !.todo = t]]
  OBVIOUS
<1>. QED
  BY <1>1, <1>2, <1>3 DEF Becomes

LEMMA Tells ==
  ASSUME req \in [Workers -> Request], NEW w \in Workers, NEW t, At(w, "notify"),
         req' = [req EXCEPT ![w].todo = t]
  PROVE  Becomes(w, Telling(w, t))
<1>1. [req[w] EXCEPT !.todo = t] = Telling(w, t)
  <2>1. req[w] \in Request
    OBVIOUS
  <2>. QED
    BY <2>1 DEF With, Request, Telling, At
<1>. QED
  BY <1>1 DEF Becomes

LEMMA Shows ==
  ASSUME req \in [Workers -> Request], NEW w \in Workers, NEW a,
         req' = [req EXCEPT ![w].pc = "respond", ![w].shown = a]
  PROVE  Becomes(w, Showing(w, a))
<1>1. [req[w] EXCEPT !.pc = "respond"] = With(req[w], "respond", req[w].user, req[w].todo, req[w].shown)
  <2>1. req[w] \in Request
    OBVIOUS
  <2>. QED
    BY <2>1 DEF With, Request
<1>2. [With(req[w], "respond", req[w].user, req[w].todo, req[w].shown) EXCEPT !.shown = a] = Showing(w, a)
  BY DEF With, Showing
<1>3. req' = [req EXCEPT ![w] = [[req[w] EXCEPT !.pc = "respond"] EXCEPT !.shown = a]]
  OBVIOUS
<1>. QED
  BY <1>1, <1>2, <1>3 DEF Becomes

LEMMA Effects ==
  ASSUME Shapes, RequestsOK, NEW w \in Workers
  PROVE
    /\ GetHits(w) => Went(w, Going(w, AfterLoad(w), cached[Here(w)]))
    /\ GetMisses(w) => Went(w, Going(w, "read", req[w].user))
    /\ ReadUser(w) => Went(w, Going(w, "set", db))
    /\ SetUser(w) => Went(w, Going(w, AfterLoad(w), req[w].user))
    /\ ReadRow(w) => Went(w, Going(w, "write", db))
    /\ \A s \in BOOLEAN : WriteProfile(w, s) => Went(w, Going(w, "postGet", [modified |-> now + 1, staff |-> req[w].user.staff \/ s]))
    /\ \A s \in BOOLEAN : WriteSignin(w, s) => Went(w, Going(w, "postGet", [req[w].user EXCEPT !.staff = s]))
    /\ \A s \in BOOLEAN : WriteAdmin(w, s) => Went(w, Going(w, "postGet", [modified |-> now + 1, staff |-> s]))
    /\ PostGetMisses(w) => Went(w, AfterSave(w))
    /\ PostGetHits(w) => Went(w, Going(w, "postSet", req[w].user))
    /\ PostSet(w) => Went(w, AfterSave(w))
    /\ StoreUser(w) => Went(w, Idle)
    /\ \A c \in Clusters : Notify(w, c) => Went(w, Telling(w, req[w].todo \ {c}))
    /\ ProfileDone(w) => Went(w, Idle)
    /\ Commit(w) => Went(w, Idle)
    /\ AnswerCached(w) => Went(w, Showing(w, answers[w][req[w].user.staff]))
    /\ AnswerMade(w) => Went(w, Showing(w, NewAnswer(req[w].user)))
    /\ Respond(w) => Went(w, Idle)
    /\ GetFails(w) => Went(w, Going(w, "read", req[w].user))
    /\ SetFails(w) => Went(w, Going(w, AfterLoad(w), req[w].user))
    /\ Rollback(w) => Went(w, Idle)
    /\ \A c \in Clusters : NotifyFails(w, c) => Went(w, Telling(w, req[w].todo \ {c}))
    /\ PostFails(w) => Went(w, Idle)
    /\ StoreFails(w) => Went(w, Idle)
    /\ \A k \in Kinds : Begin(w, k) => Went(w, [Idle EXCEPT !.kind = k, !.pc = IF k \in {"auth", "profile"} THEN "get" ELSE "readRow"])
<1>. USE UserCacheAssumption, NoRecord
<1>0. /\ req \in [Workers -> Request] /\ req[w] \in Request /\ RequestOK(req[w])
      /\ req[w].user \in Record \cup {None} /\ req[w].todo \in SUBSET Clusters
      /\ req[w].shown \in Answers \cup {None} /\ req[w].kind \in Kinds /\ Here(w) \in Clusters
  BY DEF Shapes, RequestsOK, Request, Here
<1>a. ASSUME NEW q \in Request, Becomes(w, q) PROVE Went(w, q)
  BY <1>0, <1>a, BecomesOK DEF Went
<1>1. ASSUME GetHits(w) PROVE Went(w, Going(w, AfterLoad(w), cached[Here(w)]))
  <2>1. Becomes(w, Going(w, AfterLoad(w), cached[Here(w)]))
    BY <1>0, <1>1, Takes DEF GetHits, AfterLoad, Loaded
  <2>2. Going(w, AfterLoad(w), cached[Here(w)]) \in Request
    BY <1>0, <1>1, GoingOK DEF GetHits, AfterLoad, Shapes, PCs, RequestOK, Carrying, At, Record
  <2>. QED
    BY <2>1, <2>2, <1>a
<1>2. ASSUME GetMisses(w) PROVE Went(w, Going(w, "read", req[w].user))
  <2>1. Becomes(w, Going(w, "read", req[w].user))
    BY <1>0, <1>2, Moves DEF GetMisses, GoTo
  <2>2. Going(w, "read", req[w].user) \in Request
    BY <1>0, <1>2, GoingOK DEF GetMisses, AfterLoad, Shapes, PCs, RequestOK, Carrying, At, Record
  <2>. QED
    BY <2>1, <2>2, <1>a
<1>3. ASSUME ReadUser(w) PROVE Went(w, Going(w, "set", db))
  <2>1. Becomes(w, Going(w, "set", db))
    BY <1>0, <1>3, Takes DEF ReadUser, AfterLoad
  <2>2. Going(w, "set", db) \in Request
    BY <1>0, <1>3, GoingOK DEF ReadUser, AfterLoad, Shapes, PCs, RequestOK, Carrying, At, Record
  <2>. QED
    BY <2>1, <2>2, <1>a
<1>4. ASSUME SetUser(w) PROVE Went(w, Going(w, AfterLoad(w), req[w].user))
  <2>1. Becomes(w, Going(w, AfterLoad(w), req[w].user))
    BY <1>0, <1>4, Takes DEF SetUser, AfterLoad, Loaded
  <2>2. Going(w, AfterLoad(w), req[w].user) \in Request
    BY <1>0, <1>4, GoingOK DEF SetUser, AfterLoad, Shapes, PCs, RequestOK, Carrying, At, Record
  <2>. QED
    BY <2>1, <2>2, <1>a
<1>5. ASSUME ReadRow(w) PROVE Went(w, Going(w, "write", db))
  <2>1. Becomes(w, Going(w, "write", db))
    BY <1>0, <1>5, Takes DEF ReadRow, AfterLoad
  <2>2. Going(w, "write", db) \in Request
    BY <1>0, <1>5, GoingOK DEF ReadRow, AfterLoad, Shapes, PCs, RequestOK, Carrying, At, Record
  <2>. QED
    BY <2>1, <2>2, <1>a
<1>6. ASSUME NEW s \in BOOLEAN, WriteProfile(w, s) PROVE Went(w, Going(w, "postGet", [modified |-> now + 1, staff |-> req[w].user.staff \/ s]))
  <2>1. Becomes(w, Going(w, "postGet", [modified |-> now + 1, staff |-> req[w].user.staff \/ s]))
    BY <1>0, <1>6, Takes DEF WriteProfile, AfterLoad
  <2>2. Going(w, "postGet", [modified |-> now + 1, staff |-> req[w].user.staff \/ s]) \in Request
    BY <1>0, <1>6, GoingOK DEF WriteProfile, AfterLoad, Shapes, PCs, RequestOK, Carrying, At, Record
  <2>. QED
    BY <2>1, <2>2, <1>a
<1>7. ASSUME NEW s \in BOOLEAN, WriteSignin(w, s) PROVE Went(w, Going(w, "postGet", [req[w].user EXCEPT !.staff = s]))
  <2>1. Becomes(w, Going(w, "postGet", [req[w].user EXCEPT !.staff = s]))
    BY <1>0, <1>7, Takes DEF WriteSignin, AfterLoad
  <2>2. Going(w, "postGet", [req[w].user EXCEPT !.staff = s]) \in Request
    BY <1>0, <1>7, GoingOK DEF WriteSignin, AfterLoad, Shapes, PCs, RequestOK, Carrying, At, Record
  <2>. QED
    BY <2>1, <2>2, <1>a
<1>8. ASSUME NEW s \in BOOLEAN, WriteAdmin(w, s) PROVE Went(w, Going(w, "postGet", [modified |-> now + 1, staff |-> s]))
  <2>1. Becomes(w, Going(w, "postGet", [modified |-> now + 1, staff |-> s]))
    BY <1>0, <1>8, Takes DEF WriteAdmin, AfterLoad
  <2>2. Going(w, "postGet", [modified |-> now + 1, staff |-> s]) \in Request
    BY <1>0, <1>8, GoingOK DEF WriteAdmin, AfterLoad, Shapes, PCs, RequestOK, Carrying, At, Record
  <2>. QED
    BY <2>1, <2>2, <1>a
<1>9. ASSUME PostGetMisses(w) PROVE Went(w, AfterSave(w))
  <2>1. Becomes(w, AfterSave(w))
    BY <1>0, <1>9, Saves DEF PostGetMisses, AfterPost, AfterSave
  <2>2. AfterSave(w) \in Request
    BY <1>0, <1>9, WithOK DEF PostGetMisses, AfterSave, Telling, Showing, NewAnswer, Shapes, PCs, RequestOK, Carrying, At, Record, Answers, Fresh
  <2>. QED
    BY <2>1, <2>2, <1>a
<1>10. ASSUME PostGetHits(w) PROVE Went(w, Going(w, "postSet", req[w].user))
  <2>1. Becomes(w, Going(w, "postSet", req[w].user))
    BY <1>0, <1>10, Moves DEF PostGetHits, GoTo
  <2>2. Going(w, "postSet", req[w].user) \in Request
    BY <1>0, <1>10, GoingOK DEF PostGetHits, AfterLoad, Shapes, PCs, RequestOK, Carrying, At, Record
  <2>. QED
    BY <2>1, <2>2, <1>a
<1>11. ASSUME PostSet(w) PROVE Went(w, AfterSave(w))
  <2>1. Becomes(w, AfterSave(w))
    BY <1>0, <1>11, Saves DEF PostSet, AfterPost, AfterSave
  <2>2. AfterSave(w) \in Request
    BY <1>0, <1>11, WithOK DEF PostSet, AfterSave, Telling, Showing, NewAnswer, Shapes, PCs, RequestOK, Carrying, At, Record, Answers, Fresh
  <2>. QED
    BY <2>1, <2>2, <1>a
<1>12. ASSUME StoreUser(w) PROVE Went(w, Idle)
  <2>1. Becomes(w, Idle)
    BY <1>12 DEF StoreUser, Leave, Idle, Becomes
  <2>2. Idle \in Request
    BY IdleOK DEF PCs
  <2>. QED
    BY <2>1, <2>2, <1>a
<1>13. ASSUME NEW c \in Clusters, Notify(w, c) PROVE Went(w, Telling(w, req[w].todo \ {c}))
  <2>1. Becomes(w, Telling(w, req[w].todo \ {c}))
    BY <1>0, <1>13, Tells DEF Notify, At
  <2>2. Telling(w, req[w].todo \ {c}) \in Request
    BY <1>0, <1>13, WithOK DEF Notify, AfterSave, Telling, Showing, NewAnswer, Shapes, PCs, RequestOK, Carrying, At, Record, Answers, Fresh
  <2>. QED
    BY <2>1, <2>2, <1>a
<1>14. ASSUME ProfileDone(w) PROVE Went(w, Idle)
  <2>1. Becomes(w, Idle)
    BY <1>14 DEF ProfileDone, Notified, Leave, Idle, Becomes
  <2>2. Idle \in Request
    BY IdleOK DEF PCs
  <2>. QED
    BY <2>1, <2>2, <1>a
<1>15. ASSUME Commit(w) PROVE Went(w, Idle)
  <2>1. Becomes(w, Idle)
    BY <1>15 DEF Commit, Notified, Leave, Idle, Becomes
  <2>2. Idle \in Request
    BY IdleOK DEF PCs
  <2>. QED
    BY <2>1, <2>2, <1>a
<1>16. ASSUME AnswerCached(w) PROVE Went(w, Showing(w, answers[w][req[w].user.staff]))
  <2>1. Becomes(w, Showing(w, answers[w][req[w].user.staff]))
    BY <1>0, <1>16, Shows DEF AnswerCached, NewAnswer
  <2>2. Showing(w, answers[w][req[w].user.staff]) \in Request
    BY <1>0, <1>16, WithOK DEF AnswerCached, AfterSave, Telling, Showing, NewAnswer, Shapes, PCs, RequestOK, Carrying, At, Record, Answers, Fresh
  <2>. QED
    BY <2>1, <2>2, <1>a
<1>17. ASSUME AnswerMade(w) PROVE Went(w, Showing(w, NewAnswer(req[w].user)))
  <2>1. Becomes(w, Showing(w, NewAnswer(req[w].user)))
    BY <1>0, <1>17, Shows DEF AnswerMade, NewAnswer
  <2>2. Showing(w, NewAnswer(req[w].user)) \in Request
    BY <1>0, <1>17, WithOK DEF AnswerMade, AfterSave, Telling, Showing, NewAnswer, Shapes, PCs, RequestOK, Carrying, At, Record, Answers, Fresh
  <2>. QED
    BY <2>1, <2>2, <1>a
<1>18. ASSUME Respond(w) PROVE Went(w, Idle)
  <2>1. Becomes(w, Idle)
    BY <1>18 DEF Respond, Leave, Idle, Becomes
  <2>2. Idle \in Request
    BY IdleOK DEF PCs
  <2>. QED
    BY <2>1, <2>2, <1>a
<1>19. ASSUME GetFails(w) PROVE Went(w, Going(w, "read", req[w].user))
  <2>1. Becomes(w, Going(w, "read", req[w].user))
    BY <1>0, <1>19, Moves DEF GetFails, GoTo
  <2>2. Going(w, "read", req[w].user) \in Request
    BY <1>0, <1>19, GoingOK DEF GetFails, AfterLoad, Shapes, PCs, RequestOK, Carrying, At, Record
  <2>. QED
    BY <2>1, <2>2, <1>a
<1>20. ASSUME SetFails(w) PROVE Went(w, Going(w, AfterLoad(w), req[w].user))
  <2>1. Becomes(w, Going(w, AfterLoad(w), req[w].user))
    BY <1>0, <1>20, Takes DEF SetFails, AfterLoad, Loaded
  <2>2. Going(w, AfterLoad(w), req[w].user) \in Request
    BY <1>0, <1>20, GoingOK DEF SetFails, AfterLoad, Shapes, PCs, RequestOK, Carrying, At, Record
  <2>. QED
    BY <2>1, <2>2, <1>a
<1>21. ASSUME Rollback(w) PROVE Went(w, Idle)
  <2>1. Becomes(w, Idle)
    BY <1>21 DEF Rollback, Leave, Idle, Fail, Becomes
  <2>2. Idle \in Request
    BY IdleOK DEF PCs
  <2>. QED
    BY <2>1, <2>2, <1>a
<1>22. ASSUME NEW c \in Clusters, NotifyFails(w, c) PROVE Went(w, Telling(w, req[w].todo \ {c}))
  <2>1. Becomes(w, Telling(w, req[w].todo \ {c}))
    BY <1>0, <1>22, Tells DEF NotifyFails, At
  <2>2. Telling(w, req[w].todo \ {c}) \in Request
    BY <1>0, <1>22, WithOK DEF NotifyFails, AfterSave, Telling, Showing, NewAnswer, Shapes, PCs, RequestOK, Carrying, At, Record, Answers, Fresh
  <2>. QED
    BY <2>1, <2>2, <1>a
<1>23. ASSUME NEW k \in Kinds, Begin(w, k) PROVE Went(w, [Idle EXCEPT !.kind = k, !.pc = IF k \in {"auth", "profile"} THEN "get" ELSE "readRow"])
  <2>1. Becomes(w, [Idle EXCEPT !.kind = k, !.pc = IF k \in {"auth", "profile"} THEN "get" ELSE "readRow"])
    BY <1>23 DEF Begin, Idle, Becomes
  <2>2. [Idle EXCEPT !.kind = k, !.pc = IF k \in {"auth", "profile"} THEN "get" ELSE "readRow"] \in Request
    BY IdleOK DEF PCs
  <2>. QED
    BY <2>1, <2>2, <1>a
<1>24. ASSUME PostFails(w) PROVE Went(w, Idle)
  <2>1. Becomes(w, Idle)
    BY <1>24 DEF PostFails, Leave, Idle, Becomes
  <2>2. Idle \in Request
    BY IdleOK DEF PCs
  <2>. QED
    BY <2>1, <2>2, <1>a
<1>25. ASSUME StoreFails(w) PROVE Went(w, Idle)
  <2>1. Becomes(w, Idle)
    BY <1>25 DEF StoreFails, Leave, Idle, Becomes
  <2>2. Idle \in Request
    BY IdleOK DEF PCs
  <2>. QED
    BY <2>1, <2>2, <1>a
<1>. QED
  BY <1>1, <1>2, <1>3, <1>4, <1>5, <1>6, <1>7, <1>8, <1>9, <1>10, <1>11, <1>12, <1>13, <1>14, <1>15, <1>16, <1>17, <1>18, <1>19, <1>20, <1>21, <1>22, <1>23, <1>24, <1>25

-----------------------------------------------------------------------------
LEMMA ShapesStep == ASSUME Shapes, RequestsOK, OwnerInv, [Next]_vars PROVE Shapes'
<1>. USE UserCacheAssumption, NoRecord
<1>0. \A w \in Workers : req[w] \in Request /\ Home[w] \in Clusters
  BY DEF Shapes
<1>1. ASSUME NEW w \in Workers, GetHits(w) PROVE Shapes'
  <2>1. req' \in [Workers -> Request]
    BY <1>1, Effects DEF Went
  <2>. QED
    BY <1>0, <1>1, <2>1 DEF GetHits, Shapes, row, counts, past
<1>2. ASSUME NEW w \in Workers, GetMisses(w) PROVE Shapes'
  <2>1. req' \in [Workers -> Request]
    BY <1>2, Effects DEF Went
  <2>. QED
    BY <1>0, <1>2, <2>1 DEF GetMisses, Shapes, row, counts, past
<1>3. ASSUME NEW w \in Workers, ReadUser(w) PROVE Shapes'
  <2>1. req' \in [Workers -> Request]
    BY <1>3, Effects DEF Went
  <2>. QED
    BY <1>0, <1>3, <2>1 DEF ReadUser, Shapes, row, counts, past, Here
<1>4. ASSUME NEW w \in Workers, SetUser(w) PROVE Shapes'
  <2>1. req' \in [Workers -> Request]
    BY <1>4, Effects DEF Went
  <2>2. cached' \in [Clusters -> Record \cup {None}]
    BY <1>0, <1>4 DEF SetUser, Shapes, Request, Here
  <2>. QED
    BY <1>0, <1>4, <2>1, <2>2 DEF SetUser, Shapes, row, counts, past
<1>5. ASSUME NEW w \in Workers, ReadRow(w) PROVE Shapes'
  <2>1. req' \in [Workers -> Request]
    BY <1>5, Effects DEF Went
  <2>. QED
    BY <1>0, <1>5, <2>1 DEF ReadRow, Shapes, row, counts, past
<1>6. ASSUME NEW w \in Workers, NEW s \in BOOLEAN, WriteProfile(w, s) PROVE Shapes'
  <2>1. req' \in [Workers -> Request]
    BY <1>6, Effects DEF Went
  <2>. QED
    BY <1>0, <1>6, <2>1 DEF WriteProfile, Shapes, row, counts, past, Record, Holding, Here
<1>7. ASSUME NEW w \in Workers, NEW s \in BOOLEAN, WriteSignin(w, s) PROVE Shapes'
  <2>1. req' \in [Workers -> Request]
    BY <1>7, Effects DEF Went
  <2>. QED
    BY <1>0, <1>7, <2>1 DEF WriteSignin, Shapes, row, counts, past, Record, Holding, Here
<1>8. ASSUME NEW w \in Workers, NEW s \in BOOLEAN, WriteAdmin(w, s) PROVE Shapes'
  <2>1. req' \in [Workers -> Request]
    BY <1>8, Effects DEF Went
  <2>. QED
    BY <1>0, <1>8, <2>1 DEF WriteAdmin, Shapes, row, counts, past, Record, Holding, Here
<1>9. ASSUME NEW w \in Workers, PostGetMisses(w) PROVE Shapes'
  <2>1. req' \in [Workers -> Request]
    BY <1>9, Effects DEF Went
  <2>. QED
    BY <1>0, <1>9, <2>1 DEF PostGetMisses, Shapes, row, counts, past
<1>10. ASSUME NEW w \in Workers, PostGetHits(w) PROVE Shapes'
  <2>1. req' \in [Workers -> Request]
    BY <1>10, Effects DEF Went
  <2>. QED
    BY <1>0, <1>10, <2>1 DEF PostGetHits, Shapes, row, counts, past
<1>11. ASSUME NEW w \in Workers, PostSet(w) PROVE Shapes'
  <2>1. req' \in [Workers -> Request]
    BY <1>11, Effects DEF Went
  <2>2. cached' \in [Clusters -> Record \cup {None}]
    BY <1>0, <1>11 DEF PostSet, Shapes, Request, Here
  <2>. QED
    BY <1>0, <1>11, <2>1, <2>2 DEF PostSet, Shapes, row, counts, past
<1>12. ASSUME NEW w \in Workers, StoreUser(w) PROVE Shapes'
  <2>1. req' \in [Workers -> Request]
    BY <1>12, Effects DEF Went
  <2>2. cached' \in [Clusters -> Record \cup {None}]
    BY <1>0, <1>12 DEF StoreUser, Shapes, Request, Here
  <2>. QED
    BY <1>0, <1>12, <2>1, <2>2 DEF StoreUser, Shapes, row, counts, past
<1>13. ASSUME NEW w \in Workers, NEW c \in Clusters, Notify(w, c) PROVE Shapes'
  <2>1. req' \in [Workers -> Request]
    BY <1>13, Effects DEF Went
  <2>. QED
    BY <1>0, <1>13, <2>1 DEF Notify, Shapes, row, counts, past
<1>14. ASSUME NEW w \in Workers, ProfileDone(w) PROVE Shapes'
  <2>1. req' \in [Workers -> Request]
    BY <1>14, Effects DEF Went
  <2>. QED
    BY <1>0, <1>14, <2>1 DEF ProfileDone, Shapes, row, counts, past
<1>15. ASSUME NEW w \in Workers, Commit(w) PROVE Shapes'
  <2>1. req' \in [Workers -> Request]
    BY <1>15, Effects DEF Went
  <2>2. raced' \subseteq Clusters
    BY <1>0, <1>15 DEF Commit, Shapes, Holding, Here
  <2>. QED
    BY <1>0, <1>15, <2>1, <2>2 DEF Commit, Shapes, row, counts, past, OwnerInv
<1>16. ASSUME NEW w \in Workers, AnswerCached(w) PROVE Shapes'
  <2>1. req' \in [Workers -> Request]
    BY <1>16, Effects DEF Went
  <2>. QED
    BY <1>0, <1>16, <2>1 DEF AnswerCached, Shapes, row, counts, past
<1>17. ASSUME NEW w \in Workers, AnswerMade(w) PROVE Shapes'
  <2>1. req' \in [Workers -> Request]
    BY <1>17, Effects DEF Went
  <2>2. req[w].user \in Record
    BY <1>0, <1>17 DEF AnswerMade, At, RequestsOK, RequestOK, Carrying, Request
  <2>3. NewAnswer(req[w].user) \in Answers
    BY <2>2 DEF NewAnswer, Shapes, Answers, Record
  <2>4. answers' \in [Workers -> [BOOLEAN -> Answers \cup {None}]]
    <3>. DEFINE a == NewAnswer(req[w].user)
                kept == [z \in BOOLEAN |-> CASE ~z -> None [] z /\ req[w].user.staff -> a
                                             [] OTHER -> answers[w][z]]
    <3>1. answers[w] \in [BOOLEAN -> Answers \cup {None}] /\ req[w].user.staff \in BOOLEAN
      BY <2>2 DEF Shapes, Record
    <3>. HIDE DEF a
    <3>2. kept \in [BOOLEAN -> Answers \cup {None}]
      BY <2>3, <3>1 DEF a
    <3>3. [answers[w] EXCEPT ![req[w].user.staff] = a] \in [BOOLEAN -> Answers \cup {None}]
      BY <2>3, <3>1 DEF a
    <3>4. \/ answers' = [answers EXCEPT ![w] = [answers[w] EXCEPT ![req[w].user.staff] = a]]
          \/ answers' = [answers EXCEPT ![w] = kept]
      BY <1>17 DEF AnswerMade, NewAnswer, a
    <3>. QED
      BY <3>2, <3>3, <3>4 DEF Shapes
  <2>. QED
    BY <1>0, <1>17, <2>1, <2>4 DEF AnswerMade, Shapes, row, counts, past
<1>18. ASSUME NEW w \in Workers, Respond(w) PROVE Shapes'
  <2>1. req' \in [Workers -> Request]
    BY <1>18, Effects DEF Went
  <2>. QED
    BY <1>0, <1>18, <2>1 DEF Respond, Shapes, row, counts, past
<1>19. ASSUME NEW w \in Workers, GetFails(w) PROVE Shapes'
  <2>1. req' \in [Workers -> Request]
    BY <1>19, Effects DEF Went
  <2>. QED
    BY <1>0, <1>19, <2>1 DEF GetFails, Fail, Shapes, row, counts, past
<1>20. ASSUME NEW w \in Workers, SetFails(w) PROVE Shapes'
  <2>1. req' \in [Workers -> Request]
    BY <1>20, Effects DEF Went
  <2>. QED
    BY <1>0, <1>20, <2>1 DEF SetFails, Fail, Shapes, row, counts, past
<1>21. ASSUME NEW w \in Workers, Rollback(w) PROVE Shapes'
  <2>1. req' \in [Workers -> Request]
    BY <1>21, Effects DEF Went
  <2>2. raced' \subseteq Clusters
    BY <1>0, <1>21 DEF Rollback, Shapes, Holding, Here
  <2>3. undone' \in SUBSET Nat
    BY <1>21 DEF Rollback, OwnerInv, Shapes, Record
  <2>. QED
    BY <1>0, <1>21, <2>1, <2>2, <2>3 DEF Rollback, Fail, Shapes, row, counts, past
<1>22. ASSUME NEW w \in Workers, NEW c \in Clusters, NotifyFails(w, c) PROVE Shapes'
  <2>1. req' \in [Workers -> Request]
    BY <1>22, Effects DEF Went
  <2>. QED
    BY <1>0, <1>22, <2>1 DEF NotifyFails, Fail, Shapes, row, counts, past
<1>23. ASSUME NEW w \in Workers, NEW k \in Kinds, Begin(w, k) PROVE Shapes'
  <2>1. req' \in [Workers -> Request]
    BY <1>23, Effects DEF Went
  <2>. QED
    BY <1>0, <1>23, <2>1 DEF Begin, Shapes, row, counts, past
<1>24. ASSUME NEW c \in Clusters, Expire(c) PROVE Shapes'
  BY <1>24 DEF Expire, Shapes, row, counts, past
<1>25. ASSUME NEW w \in Workers, NEW s \in BOOLEAN, AnswerExpires(w, s) PROVE Shapes'
  <2>1. answers[w] \in [BOOLEAN -> Answers \cup {None}] /\ answers[w][s] \in Answers
    BY <1>25 DEF AnswerExpires, Shapes
  <2>2. [answers[w][s] EXCEPT !.expired = TRUE] \in Answers
    BY <2>1 DEF Answers
  <2>3. answers' = [answers EXCEPT ![w] = [answers[w] EXCEPT ![s] = [answers[w][s] EXCEPT !.expired = TRUE]]]
    BY <1>25 DEF AnswerExpires
  <2>4. answers' \in [Workers -> [BOOLEAN -> Answers \cup {None}]]
    BY <2>1, <2>2, <2>3 DEF Shapes
  <2>. QED
    BY <1>25, <2>4 DEF AnswerExpires, Shapes, row, counts, past
<1>26. CASE UNCHANGED vars
  BY <1>26 DEF Shapes, vars, row, counts, past
<1>27. ASSUME NEW w \in Workers, PostFails(w) PROVE Shapes'
  <2>1. req' \in [Workers -> Request]
    BY <1>27, Effects DEF Went
  <2>. QED
    BY <1>0, <1>27, <2>1 DEF PostFails, Fail, Shapes, row, counts, past
<1>28. ASSUME NEW w \in Workers, StoreFails(w) PROVE Shapes'
  <2>1. req' \in [Workers -> Request]
    BY <1>28, Effects DEF Went
  <2>. QED
    BY <1>0, <1>28, <2>1 DEF StoreFails, Fail, Shapes, row, counts, past
<1>. QED
  BY <1>1, <1>2, <1>3, <1>4, <1>5, <1>6, <1>7, <1>8, <1>9, <1>10, <1>11, <1>12, <1>13, <1>14, <1>15, <1>16, <1>17, <1>18, <1>19, <1>20, <1>21, <1>22, <1>23, <1>24, <1>25, <1>26, <1>27, <1>28 DEF Next, Step, Failure

LEMMA OneRequest ==
  ASSUME RequestsOK, NEW w \in Workers, NEW q, Went(w, q), RequestOK(q)
  PROVE  RequestsOK'
BY DEF RequestsOK, Went

LEMMA RequestsStep ==
  ASSUME Shapes, RequestsOK, HeldInv, [Next]_vars
  PROVE  RequestsOK'
<1>. USE UserCacheAssumption, NoRecord
<1>0. ASSUME NEW w \in Workers PROVE RequestOK(req[w]) /\ req[w].kind \in Kinds
  BY DEF RequestsOK, Shapes, Request
<1>1. ASSUME NEW w \in Workers, GetHits(w) PROVE RequestsOK'
  <2>1. Went(w, Going(w, AfterLoad(w), cached[Here(w)]))
    BY <1>1, Effects
  <2>4. RequestOK(Going(w, AfterLoad(w), cached[Here(w)]))
    BY <1>0, <1>1 DEF GetHits, With, Going, AfterLoad, RequestOK, At, Carrying, Kinds
  <2>. QED
    BY <2>1, <2>4, OneRequest
<1>2. ASSUME NEW w \in Workers, GetMisses(w) PROVE RequestsOK'
  <2>1. Went(w, Going(w, "read", req[w].user))
    BY <1>2, Effects
  <2>4. RequestOK(Going(w, "read", req[w].user))
    BY <1>0, <1>2 DEF GetMisses, With, Going, RequestOK, At, Carrying, Kinds
  <2>. QED
    BY <2>1, <2>4, OneRequest
<1>3. ASSUME NEW w \in Workers, ReadUser(w) PROVE RequestsOK'
  <2>1. Went(w, Going(w, "set", db))
    BY <1>3, Effects
  <2>4. RequestOK(Going(w, "set", db))
    BY <1>0, <1>3 DEF ReadUser, With, Going, RequestOK, At, Carrying, Kinds, Shapes
  <2>. QED
    BY <2>1, <2>4, OneRequest
<1>4. ASSUME NEW w \in Workers, SetUser(w) PROVE RequestsOK'
  <2>1. Went(w, Going(w, AfterLoad(w), req[w].user))
    BY <1>4, Effects
  <2>4. RequestOK(Going(w, AfterLoad(w), req[w].user))
    BY <1>0, <1>4 DEF SetUser, With, Going, AfterLoad, RequestOK, At, Carrying, Kinds
  <2>. QED
    BY <2>1, <2>4, OneRequest
<1>5. ASSUME NEW w \in Workers, ReadRow(w) PROVE RequestsOK'
  <2>1. Went(w, Going(w, "write", db))
    BY <1>5, Effects
  <2>4. RequestOK(Going(w, "write", db))
    BY <1>0, <1>5 DEF ReadRow, With, Going, RequestOK, At, Carrying, Kinds, Shapes
  <2>. QED
    BY <2>1, <2>4, OneRequest
<1>6. ASSUME NEW w \in Workers, NEW s \in BOOLEAN, WriteProfile(w, s) PROVE RequestsOK'
  <2>1. Went(w, Going(w, "postGet", [modified |-> now + 1, staff |-> req[w].user.staff \/ s]))
    BY <1>6, Effects
  <2>2. req[w].user \in Record
    BY <1>0, <1>6 DEF WriteProfile, At, RequestOK, Carrying, Shapes, Request
  <2>3. [modified |-> now + 1, staff |-> req[w].user.staff \/ s] # None
    BY <2>2 DEF Record, Shapes
  <2>4. RequestOK(Going(w, "postGet", [modified |-> now + 1, staff |-> req[w].user.staff \/ s]))
    BY <1>0, <1>6, <2>3 DEF WriteProfile, With, Going, RequestOK, At, Carrying, Kinds
  <2>. QED
    BY <2>1, <2>4, OneRequest
<1>7. ASSUME NEW w \in Workers, NEW s \in BOOLEAN, WriteSignin(w, s) PROVE RequestsOK'
  <2>1. Went(w, Going(w, "postGet", [req[w].user EXCEPT !.staff = s]))
    BY <1>7, Effects
  <2>2. req[w].user \in Record
    BY <1>0, <1>7 DEF WriteSignin, At, RequestOK, Carrying, Shapes, Request
  <2>3. [req[w].user EXCEPT !.staff = s] # None
    BY <2>2 DEF Record, Shapes
  <2>4. RequestOK(Going(w, "postGet", [req[w].user EXCEPT !.staff = s]))
    BY <1>0, <1>7, <2>3 DEF WriteSignin, With, Going, RequestOK, At, Carrying, Kinds
  <2>. QED
    BY <2>1, <2>4, OneRequest
<1>8. ASSUME NEW w \in Workers, NEW s \in BOOLEAN, WriteAdmin(w, s) PROVE RequestsOK'
  <2>1. Went(w, Going(w, "postGet", [modified |-> now + 1, staff |-> s]))
    BY <1>8, Effects
  <2>2. req[w].user \in Record
    BY <1>0, <1>8 DEF WriteAdmin, At, RequestOK, Carrying, Shapes, Request
  <2>3. [modified |-> now + 1, staff |-> s] # None
    BY <2>2 DEF Record, Shapes
  <2>4. RequestOK(Going(w, "postGet", [modified |-> now + 1, staff |-> s]))
    BY <1>0, <1>8, <2>3 DEF WriteAdmin, With, Going, RequestOK, At, Carrying, Kinds
  <2>. QED
    BY <2>1, <2>4, OneRequest
<1>9. ASSUME NEW w \in Workers, PostGetMisses(w) PROVE RequestsOK'
  <2>1. Went(w, AfterSave(w))
    BY <1>9, Effects
  <2>4. RequestOK(AfterSave(w))
    BY <1>0, <1>9 DEF PostGetMisses, With, AfterSave, RequestOK, At, Carrying, Kinds
  <2>. QED
    BY <2>1, <2>4, OneRequest
<1>10. ASSUME NEW w \in Workers, PostGetHits(w) PROVE RequestsOK'
  <2>1. Went(w, Going(w, "postSet", req[w].user))
    BY <1>10, Effects
  <2>4. RequestOK(Going(w, "postSet", req[w].user))
    BY <1>0, <1>10 DEF PostGetHits, With, Going, RequestOK, At, Carrying, Kinds
  <2>. QED
    BY <2>1, <2>4, OneRequest
<1>11. ASSUME NEW w \in Workers, PostSet(w) PROVE RequestsOK'
  <2>1. Went(w, AfterSave(w))
    BY <1>11, Effects
  <2>4. RequestOK(AfterSave(w))
    BY <1>0, <1>11 DEF PostSet, With, AfterSave, RequestOK, At, Carrying, Kinds
  <2>. QED
    BY <2>1, <2>4, OneRequest
<1>12. ASSUME NEW w \in Workers, StoreUser(w) PROVE RequestsOK'
  <2>1. Went(w, Idle)
    BY <1>12, Effects
  <2>4. RequestOK(Idle)
    BY <1>0, <1>12 DEF StoreUser, Idle, RequestOK, At, Carrying, Kinds
  <2>. QED
    BY <2>1, <2>4, OneRequest
<1>13. ASSUME NEW w \in Workers, NEW c \in Clusters, Notify(w, c) PROVE RequestsOK'
  <2>1. Went(w, Telling(w, req[w].todo \ {c}))
    BY <1>13, Effects
  <2>4. RequestOK(Telling(w, req[w].todo \ {c}))
    BY <1>0, <1>13 DEF Notify, With, Telling, RequestOK, At, Carrying, Kinds
  <2>. QED
    BY <2>1, <2>4, OneRequest
<1>14. ASSUME NEW w \in Workers, ProfileDone(w) PROVE RequestsOK'
  <2>1. Went(w, Idle)
    BY <1>14, Effects
  <2>4. RequestOK(Idle)
    BY <1>0, <1>14 DEF ProfileDone, Idle, RequestOK, At, Carrying, Kinds
  <2>. QED
    BY <2>1, <2>4, OneRequest
<1>15. ASSUME NEW w \in Workers, Commit(w) PROVE RequestsOK'
  <2>1. Went(w, Idle)
    BY <1>15, Effects
  <2>4. RequestOK(Idle)
    BY <1>0, <1>15 DEF Commit, Idle, RequestOK, At, Carrying, Kinds
  <2>. QED
    BY <2>1, <2>4, OneRequest
<1>16. ASSUME NEW w \in Workers, AnswerCached(w) PROVE RequestsOK'
  <2>1. Went(w, Showing(w, answers[w][req[w].user.staff]))
    BY <1>16, Effects
  <2>4. RequestOK(Showing(w, answers[w][req[w].user.staff]))
    BY <1>0, <1>16 DEF AnswerCached, With, Showing, RequestOK, At, Carrying, Kinds, Fresh
  <2>. QED
    BY <2>1, <2>4, OneRequest
<1>17. ASSUME NEW w \in Workers, AnswerMade(w) PROVE RequestsOK'
  <2>1. Went(w, Showing(w, NewAnswer(req[w].user)))
    BY <1>17, Effects
  <2>2. req[w].user.modified <= now
    BY <1>0, <1>17 DEF AnswerMade, At, HeldInv, Times, Held, RequestOK, Carrying
  <2>3. NewAnswer(req[w].user) # None
    <3>1. req[w].user \in Record
      BY <1>0, <1>17 DEF AnswerMade, At, RequestOK, Carrying, Shapes, Request
    <3>2. NewAnswer(req[w].user) \in Answers
      BY <3>1 DEF NewAnswer, Shapes, Answers, Record
    <3>. QED
      BY <3>2
  <2>4. RequestOK(Showing(w, NewAnswer(req[w].user)))
    BY <1>0, <1>17, <2>2, <2>3 DEF AnswerMade, With, Showing, NewAnswer, RequestOK, At, Carrying, Kinds
  <2>. QED
    BY <2>1, <2>4, OneRequest
<1>18. ASSUME NEW w \in Workers, Respond(w) PROVE RequestsOK'
  <2>1. Went(w, Idle)
    BY <1>18, Effects
  <2>4. RequestOK(Idle)
    BY <1>0, <1>18 DEF Respond, Idle, RequestOK, At, Carrying, Kinds
  <2>. QED
    BY <2>1, <2>4, OneRequest
<1>19. ASSUME NEW w \in Workers, GetFails(w) PROVE RequestsOK'
  <2>1. Went(w, Going(w, "read", req[w].user))
    BY <1>19, Effects
  <2>4. RequestOK(Going(w, "read", req[w].user))
    BY <1>0, <1>19 DEF GetFails, With, Going, RequestOK, At, Carrying, Kinds
  <2>. QED
    BY <2>1, <2>4, OneRequest
<1>20. ASSUME NEW w \in Workers, SetFails(w) PROVE RequestsOK'
  <2>1. Went(w, Going(w, AfterLoad(w), req[w].user))
    BY <1>20, Effects
  <2>4. RequestOK(Going(w, AfterLoad(w), req[w].user))
    BY <1>0, <1>20 DEF SetFails, With, Going, AfterLoad, RequestOK, At, Carrying, Kinds
  <2>. QED
    BY <2>1, <2>4, OneRequest
<1>21. ASSUME NEW w \in Workers, Rollback(w) PROVE RequestsOK'
  <2>1. Went(w, Idle)
    BY <1>21, Effects
  <2>4. RequestOK(Idle)
    BY <1>0, <1>21 DEF Rollback, Idle, RequestOK, At, Carrying, Kinds
  <2>. QED
    BY <2>1, <2>4, OneRequest
<1>22. ASSUME NEW w \in Workers, NEW c \in Clusters, NotifyFails(w, c) PROVE RequestsOK'
  <2>1. Went(w, Telling(w, req[w].todo \ {c}))
    BY <1>22, Effects
  <2>4. RequestOK(Telling(w, req[w].todo \ {c}))
    BY <1>0, <1>22 DEF NotifyFails, With, Telling, RequestOK, At, Carrying, Kinds
  <2>. QED
    BY <2>1, <2>4, OneRequest
<1>23. ASSUME NEW w \in Workers, NEW k \in Kinds, Begin(w, k) PROVE RequestsOK'
  <2>1. Went(w, [Idle EXCEPT !.kind = k, !.pc = IF k \in {"auth", "profile"} THEN "get" ELSE "readRow"])
    BY <1>23, Effects
  <2>4. RequestOK([Idle EXCEPT !.kind = k, !.pc = IF k \in {"auth", "profile"} THEN "get" ELSE "readRow"])
    BY <1>0, <1>23 DEF Begin, Idle, RequestOK, At, Carrying, Kinds, Kinds
  <2>. QED
    BY <2>1, <2>4, OneRequest
<1>24. ASSUME NEW c \in Clusters, Expire(c) PROVE RequestsOK'
  BY <1>24 DEF Expire, RequestsOK
<1>25. ASSUME NEW w \in Workers, NEW s \in BOOLEAN, AnswerExpires(w, s) PROVE RequestsOK'
  BY <1>25 DEF AnswerExpires, RequestsOK
<1>26. CASE UNCHANGED vars
  BY <1>26 DEF RequestsOK, vars
<1>27. ASSUME NEW w \in Workers, PostFails(w) PROVE RequestsOK'
  <2>1. Went(w, Idle)
    BY <1>27, Effects
  <2>4. RequestOK(Idle)
    BY <1>0, <1>27 DEF PostFails, Idle, RequestOK, At, Carrying, Kinds
  <2>. QED
    BY <2>1, <2>4, OneRequest
<1>28. ASSUME NEW w \in Workers, StoreFails(w) PROVE RequestsOK'
  <2>1. Went(w, Idle)
    BY <1>28, Effects
  <2>4. RequestOK(Idle)
    BY <1>0, <1>28 DEF StoreFails, Idle, RequestOK, At, Carrying, Kinds
  <2>. QED
    BY <2>1, <2>4, OneRequest
<1>. QED
  BY <1>1, <1>2, <1>3, <1>4, <1>5, <1>6, <1>7, <1>8, <1>9, <1>10, <1>11, <1>12, <1>13, <1>14, <1>15, <1>16, <1>17, <1>18, <1>19, <1>20, <1>21, <1>22, <1>23, <1>24, <1>25, <1>26, <1>27, <1>28 DEF Next, Step, Failure

LEMMA OwnerFrame ==
  ASSUME OwnerInv, Shapes, NEW w \in Workers, NEW q, Went(w, q),
         UNCHANGED <<txn, owner>>, owner = None \/ UNCHANGED now,
         Saved(q) <=> Saved(req[w]), Saved(q) => q.user = req[w].user
  PROVE  OwnerInv'
<1>1. \A v \in Workers : Saved(req'[v]) <=> owner = v
  BY DEF OwnerInv, Went
<1>2. ASSUME owner # None PROVE req'[owner].user = txn /\ UNCHANGED now
  <2>1. owner \in Workers
    BY <1>2 DEF Shapes
  <2>2. CASE owner = w
    BY <1>2, <2>2 DEF OwnerInv, Went
  <2>3. CASE owner # w
    BY <1>2, <2>1, <2>3 DEF OwnerInv, Went
  <2>. QED
    BY <1>2, <2>2, <2>3
<1>. QED
  BY <1>1, <1>2 DEF OwnerInv

LEMMA OwnerStep ==
  ASSUME Shapes, RequestsOK, OwnerInv, [Next]_vars
  PROVE  OwnerInv'
<1>. USE UserCacheAssumption, NoRecord
<1>0. ASSUME NEW w \in Workers PROVE RequestOK(req[w]) /\ req[w].kind \in Kinds
  BY DEF RequestsOK, Shapes, Request
<1>1. ASSUME NEW w \in Workers, GetHits(w) PROVE OwnerInv'
  <2>1. Went(w, Going(w, AfterLoad(w), cached[Here(w)]))
    BY <1>1, Effects
  <2>2. UNCHANGED <<txn, owner>> /\ (owner = None \/ UNCHANGED now)
    BY <1>1 DEF GetHits, row, OwnerInv
  <2>3. Saved(Going(w, AfterLoad(w), cached[Here(w)])) <=> Saved(req[w])
    BY <1>0, <1>1 DEF GetHits, With, Going, AfterLoad, At, Saved, RequestOK, Notified, Kinds
  <2>4. Saved(Going(w, AfterLoad(w), cached[Here(w)])) => (Going(w, AfterLoad(w), cached[Here(w)])).user = req[w].user
    BY <1>1 DEF GetHits, With, Going, AfterLoad, At, Saved
  <2>. QED
    BY <2>1, <2>2, <2>3, <2>4, OwnerFrame
<1>2. ASSUME NEW w \in Workers, GetMisses(w) PROVE OwnerInv'
  <2>1. Went(w, Going(w, "read", req[w].user))
    BY <1>2, Effects
  <2>2. UNCHANGED <<txn, owner>> /\ (owner = None \/ UNCHANGED now)
    BY <1>2 DEF GetMisses, row, OwnerInv
  <2>3. Saved(Going(w, "read", req[w].user)) <=> Saved(req[w])
    BY <1>0, <1>2 DEF GetMisses, With, Going, At, Saved, RequestOK, Notified, Kinds
  <2>4. Saved(Going(w, "read", req[w].user)) => (Going(w, "read", req[w].user)).user = req[w].user
    BY <1>2 DEF GetMisses, With, Going, At, Saved
  <2>. QED
    BY <2>1, <2>2, <2>3, <2>4, OwnerFrame
<1>3. ASSUME NEW w \in Workers, ReadUser(w) PROVE OwnerInv'
  <2>1. Went(w, Going(w, "set", db))
    BY <1>3, Effects
  <2>2. UNCHANGED <<txn, owner>> /\ (owner = None \/ UNCHANGED now)
    BY <1>3 DEF ReadUser, row, OwnerInv
  <2>3. Saved(Going(w, "set", db)) <=> Saved(req[w])
    BY <1>0, <1>3 DEF ReadUser, With, Going, At, Saved, RequestOK, Notified, Kinds
  <2>4. Saved(Going(w, "set", db)) => (Going(w, "set", db)).user = req[w].user
    BY <1>3 DEF ReadUser, With, Going, At, Saved
  <2>. QED
    BY <2>1, <2>2, <2>3, <2>4, OwnerFrame
<1>4. ASSUME NEW w \in Workers, SetUser(w) PROVE OwnerInv'
  <2>1. Went(w, Going(w, AfterLoad(w), req[w].user))
    BY <1>4, Effects
  <2>2. UNCHANGED <<txn, owner>> /\ (owner = None \/ UNCHANGED now)
    BY <1>4 DEF SetUser, row, OwnerInv
  <2>3. Saved(Going(w, AfterLoad(w), req[w].user)) <=> Saved(req[w])
    BY <1>0, <1>4 DEF SetUser, With, Going, AfterLoad, At, Saved, RequestOK, Notified, Kinds
  <2>4. Saved(Going(w, AfterLoad(w), req[w].user)) => (Going(w, AfterLoad(w), req[w].user)).user = req[w].user
    BY <1>4 DEF SetUser, With, Going, AfterLoad, At, Saved
  <2>. QED
    BY <2>1, <2>2, <2>3, <2>4, OwnerFrame
<1>5. ASSUME NEW w \in Workers, ReadRow(w) PROVE OwnerInv'
  <2>1. Went(w, Going(w, "write", db))
    BY <1>5, Effects
  <2>2. UNCHANGED <<txn, owner>> /\ (owner = None \/ UNCHANGED now)
    BY <1>5 DEF ReadRow, row, OwnerInv
  <2>3. Saved(Going(w, "write", db)) <=> Saved(req[w])
    BY <1>0, <1>5 DEF ReadRow, With, Going, At, Saved, RequestOK, Notified, Kinds
  <2>4. Saved(Going(w, "write", db)) => (Going(w, "write", db)).user = req[w].user
    BY <1>5 DEF ReadRow, With, Going, At, Saved
  <2>. QED
    BY <2>1, <2>2, <2>3, <2>4, OwnerFrame
<1>6. ASSUME NEW w \in Workers, NEW s \in BOOLEAN, WriteProfile(w, s) PROVE OwnerInv'
  <2>1. Went(w, Going(w, "postGet", [modified |-> now + 1, staff |-> req[w].user.staff \/ s]))
    BY <1>6, Effects
  <2>2. UNCHANGED <<txn, owner>> /\ (owner = None \/ UNCHANGED now)
    BY <1>6 DEF WriteProfile, row, OwnerInv
  <2>3. Saved(Going(w, "postGet", [modified |-> now + 1, staff |-> req[w].user.staff \/ s])) <=> Saved(req[w])
    BY <1>0, <1>6 DEF WriteProfile, With, Going, At, Saved, RequestOK, Notified, Kinds
  <2>4. Saved(Going(w, "postGet", [modified |-> now + 1, staff |-> req[w].user.staff \/ s])) => (Going(w, "postGet", [modified |-> now + 1, staff |-> req[w].user.staff \/ s])).user = req[w].user
    BY <1>6 DEF WriteProfile, With, Going, At, Saved
  <2>. QED
    BY <2>1, <2>2, <2>3, <2>4, OwnerFrame
<1>7. ASSUME NEW w \in Workers, NEW s \in BOOLEAN, WriteSignin(w, s) PROVE OwnerInv'
  <2>1. Went(w, Going(w, "postGet", [req[w].user EXCEPT !.staff = s]))
    BY <1>7, Effects
  <2>2. UNCHANGED <<txn, owner>> /\ (owner = None \/ UNCHANGED now)
    BY <1>7 DEF WriteSignin, row, OwnerInv
  <2>3. Saved(Going(w, "postGet", [req[w].user EXCEPT !.staff = s])) <=> Saved(req[w])
    BY <1>0, <1>7 DEF WriteSignin, With, Going, At, Saved, RequestOK, Notified, Kinds
  <2>4. Saved(Going(w, "postGet", [req[w].user EXCEPT !.staff = s])) => (Going(w, "postGet", [req[w].user EXCEPT !.staff = s])).user = req[w].user
    BY <1>7 DEF WriteSignin, With, Going, At, Saved
  <2>. QED
    BY <2>1, <2>2, <2>3, <2>4, OwnerFrame
<1>8. ASSUME NEW w \in Workers, NEW s \in BOOLEAN, WriteAdmin(w, s) PROVE OwnerInv'
  <2>1. Went(w, Going(w, "postGet", [modified |-> now + 1, staff |-> s]))
    BY <1>8, Effects
  <2>2. owner = None /\ owner' = w /\ now' = now + 1 /\ txn' = [modified |-> now + 1, staff |-> s]
    BY <1>8 DEF WriteAdmin, OwnerInv
  <2>3. txn' # None
    BY <2>2 DEF Shapes, Record
  <2>4. \A v \in Workers : Saved(req'[v]) <=> v = w
    BY <1>8, <2>1, <2>2 DEF WriteAdmin, At, Went, With, Going, Saved, OwnerInv
  <2>5. req'[w].user = txn' /\ txn'.modified = now'
    BY <2>1, <2>2 DEF Went, With, Going
  <2>. QED
    BY <2>2, <2>3, <2>4, <2>5 DEF OwnerInv
<1>9. ASSUME NEW w \in Workers, PostGetMisses(w) PROVE OwnerInv'
  <2>1. Went(w, AfterSave(w))
    BY <1>9, Effects
  <2>2. UNCHANGED <<txn, owner>> /\ (owner = None \/ UNCHANGED now)
    BY <1>9 DEF PostGetMisses, row, OwnerInv
  <2>3. Saved(AfterSave(w)) <=> Saved(req[w])
    BY <1>0, <1>9 DEF PostGetMisses, With, AfterSave, At, Saved, RequestOK, Notified, Kinds
  <2>4. Saved(AfterSave(w)) => (AfterSave(w)).user = req[w].user
    BY <1>9 DEF PostGetMisses, With, AfterSave, At, Saved
  <2>. QED
    BY <2>1, <2>2, <2>3, <2>4, OwnerFrame
<1>10. ASSUME NEW w \in Workers, PostGetHits(w) PROVE OwnerInv'
  <2>1. Went(w, Going(w, "postSet", req[w].user))
    BY <1>10, Effects
  <2>2. UNCHANGED <<txn, owner>> /\ (owner = None \/ UNCHANGED now)
    BY <1>10 DEF PostGetHits, row, OwnerInv
  <2>3. Saved(Going(w, "postSet", req[w].user)) <=> Saved(req[w])
    BY <1>0, <1>10 DEF PostGetHits, With, Going, At, Saved, RequestOK, Notified, Kinds
  <2>4. Saved(Going(w, "postSet", req[w].user)) => (Going(w, "postSet", req[w].user)).user = req[w].user
    BY <1>10 DEF PostGetHits, With, Going, At, Saved
  <2>. QED
    BY <2>1, <2>2, <2>3, <2>4, OwnerFrame
<1>11. ASSUME NEW w \in Workers, PostSet(w) PROVE OwnerInv'
  <2>1. Went(w, AfterSave(w))
    BY <1>11, Effects
  <2>2. UNCHANGED <<txn, owner>> /\ (owner = None \/ UNCHANGED now)
    BY <1>11 DEF PostSet, row, OwnerInv
  <2>3. Saved(AfterSave(w)) <=> Saved(req[w])
    BY <1>0, <1>11 DEF PostSet, With, AfterSave, At, Saved, RequestOK, Notified, Kinds
  <2>4. Saved(AfterSave(w)) => (AfterSave(w)).user = req[w].user
    BY <1>11 DEF PostSet, With, AfterSave, At, Saved
  <2>. QED
    BY <2>1, <2>2, <2>3, <2>4, OwnerFrame
<1>12. ASSUME NEW w \in Workers, StoreUser(w) PROVE OwnerInv'
  <2>1. Went(w, Idle)
    BY <1>12, Effects
  <2>2. UNCHANGED <<txn, owner>> /\ (owner = None \/ UNCHANGED now)
    BY <1>12 DEF StoreUser, row, OwnerInv
  <2>3. Saved(Idle) <=> Saved(req[w])
    BY <1>0, <1>12 DEF StoreUser, Idle, At, Saved, RequestOK, Notified, Kinds
  <2>4. Saved(Idle) => (Idle).user = req[w].user
    BY <1>12 DEF StoreUser, Idle, At, Saved
  <2>. QED
    BY <2>1, <2>2, <2>3, <2>4, OwnerFrame
<1>13. ASSUME NEW w \in Workers, NEW c \in Clusters, Notify(w, c) PROVE OwnerInv'
  <2>1. Went(w, Telling(w, req[w].todo \ {c}))
    BY <1>13, Effects
  <2>2. UNCHANGED <<txn, owner>> /\ (owner = None \/ UNCHANGED now)
    BY <1>13 DEF Notify, row, OwnerInv
  <2>3. Saved(Telling(w, req[w].todo \ {c})) <=> Saved(req[w])
    BY <1>0, <1>13 DEF Notify, With, Telling, At, Saved, RequestOK, Notified, Kinds
  <2>4. Saved(Telling(w, req[w].todo \ {c})) => (Telling(w, req[w].todo \ {c})).user = req[w].user
    BY <1>13 DEF Notify, With, Telling, At, Saved
  <2>. QED
    BY <2>1, <2>2, <2>3, <2>4, OwnerFrame
<1>14. ASSUME NEW w \in Workers, ProfileDone(w) PROVE OwnerInv'
  <2>1. Went(w, Idle)
    BY <1>14, Effects
  <2>2. UNCHANGED <<txn, owner>> /\ (owner = None \/ UNCHANGED now)
    BY <1>14 DEF ProfileDone, row, OwnerInv
  <2>3. Saved(Idle) <=> Saved(req[w])
    BY <1>0, <1>14 DEF ProfileDone, Idle, At, Saved, RequestOK, Notified, Kinds
  <2>4. Saved(Idle) => (Idle).user = req[w].user
    BY <1>14 DEF ProfileDone, Idle, At, Saved
  <2>. QED
    BY <2>1, <2>2, <2>3, <2>4, OwnerFrame
<1>15. ASSUME NEW w \in Workers, Commit(w) PROVE OwnerInv'
  <2>1. Went(w, Idle)
    BY <1>15, Effects
  <2>2. owner = w /\ owner' = None /\ txn' = None
    BY <1>15 DEF Commit
  <2>3. \A v \in Workers : ~Saved(req'[v])
    BY <2>1, <2>2 DEF Went, Idle, Saved, OwnerInv
  <2>. QED
    BY <2>2, <2>3 DEF OwnerInv
<1>16. ASSUME NEW w \in Workers, AnswerCached(w) PROVE OwnerInv'
  <2>1. Went(w, Showing(w, answers[w][req[w].user.staff]))
    BY <1>16, Effects
  <2>2. UNCHANGED <<txn, owner>> /\ (owner = None \/ UNCHANGED now)
    BY <1>16 DEF AnswerCached, row, OwnerInv
  <2>3. Saved(Showing(w, answers[w][req[w].user.staff])) <=> Saved(req[w])
    BY <1>0, <1>16 DEF AnswerCached, With, Showing, At, Saved, RequestOK, Notified, Kinds
  <2>4. Saved(Showing(w, answers[w][req[w].user.staff])) => (Showing(w, answers[w][req[w].user.staff])).user = req[w].user
    BY <1>16 DEF AnswerCached, With, Showing, At, Saved
  <2>. QED
    BY <2>1, <2>2, <2>3, <2>4, OwnerFrame
<1>17. ASSUME NEW w \in Workers, AnswerMade(w) PROVE OwnerInv'
  <2>1. Went(w, Showing(w, NewAnswer(req[w].user)))
    BY <1>17, Effects
  <2>2. UNCHANGED <<txn, owner>> /\ (owner = None \/ UNCHANGED now)
    BY <1>17 DEF AnswerMade, row, OwnerInv
  <2>3. Saved(Showing(w, NewAnswer(req[w].user))) <=> Saved(req[w])
    BY <1>0, <1>17 DEF AnswerMade, With, Showing, At, Saved, RequestOK, Notified, Kinds
  <2>4. Saved(Showing(w, NewAnswer(req[w].user))) => (Showing(w, NewAnswer(req[w].user))).user = req[w].user
    BY <1>17 DEF AnswerMade, With, Showing, At, Saved
  <2>. QED
    BY <2>1, <2>2, <2>3, <2>4, OwnerFrame
<1>18. ASSUME NEW w \in Workers, Respond(w) PROVE OwnerInv'
  <2>1. Went(w, Idle)
    BY <1>18, Effects
  <2>2. UNCHANGED <<txn, owner>> /\ (owner = None \/ UNCHANGED now)
    BY <1>18 DEF Respond, row, OwnerInv
  <2>3. Saved(Idle) <=> Saved(req[w])
    BY <1>0, <1>18 DEF Respond, Idle, At, Saved, RequestOK, Notified, Kinds
  <2>4. Saved(Idle) => (Idle).user = req[w].user
    BY <1>18 DEF Respond, Idle, At, Saved
  <2>. QED
    BY <2>1, <2>2, <2>3, <2>4, OwnerFrame
<1>19. ASSUME NEW w \in Workers, GetFails(w) PROVE OwnerInv'
  <2>1. Went(w, Going(w, "read", req[w].user))
    BY <1>19, Effects
  <2>2. UNCHANGED <<txn, owner>> /\ (owner = None \/ UNCHANGED now)
    BY <1>19 DEF GetFails, row, OwnerInv
  <2>3. Saved(Going(w, "read", req[w].user)) <=> Saved(req[w])
    BY <1>0, <1>19 DEF GetFails, With, Going, At, Saved, RequestOK, Notified, Kinds
  <2>4. Saved(Going(w, "read", req[w].user)) => (Going(w, "read", req[w].user)).user = req[w].user
    BY <1>19 DEF GetFails, With, Going, At, Saved
  <2>. QED
    BY <2>1, <2>2, <2>3, <2>4, OwnerFrame
<1>20. ASSUME NEW w \in Workers, SetFails(w) PROVE OwnerInv'
  <2>1. Went(w, Going(w, AfterLoad(w), req[w].user))
    BY <1>20, Effects
  <2>2. UNCHANGED <<txn, owner>> /\ (owner = None \/ UNCHANGED now)
    BY <1>20 DEF SetFails, row, OwnerInv
  <2>3. Saved(Going(w, AfterLoad(w), req[w].user)) <=> Saved(req[w])
    BY <1>0, <1>20 DEF SetFails, With, Going, AfterLoad, At, Saved, RequestOK, Notified, Kinds
  <2>4. Saved(Going(w, AfterLoad(w), req[w].user)) => (Going(w, AfterLoad(w), req[w].user)).user = req[w].user
    BY <1>20 DEF SetFails, With, Going, AfterLoad, At, Saved
  <2>. QED
    BY <2>1, <2>2, <2>3, <2>4, OwnerFrame
<1>21. ASSUME NEW w \in Workers, Rollback(w) PROVE OwnerInv'
  <2>1. Went(w, Idle)
    BY <1>21, Effects
  <2>2. owner = w /\ owner' = None /\ txn' = None
    BY <1>21 DEF Rollback
  <2>3. \A v \in Workers : ~Saved(req'[v])
    BY <2>1, <2>2 DEF Went, Idle, Saved, OwnerInv
  <2>. QED
    BY <2>2, <2>3 DEF OwnerInv
<1>22. ASSUME NEW w \in Workers, NEW c \in Clusters, NotifyFails(w, c) PROVE OwnerInv'
  <2>1. Went(w, Telling(w, req[w].todo \ {c}))
    BY <1>22, Effects
  <2>2. UNCHANGED <<txn, owner>> /\ (owner = None \/ UNCHANGED now)
    BY <1>22 DEF NotifyFails, row, OwnerInv
  <2>3. Saved(Telling(w, req[w].todo \ {c})) <=> Saved(req[w])
    BY <1>0, <1>22 DEF NotifyFails, With, Telling, At, Saved, RequestOK, Notified, Kinds
  <2>4. Saved(Telling(w, req[w].todo \ {c})) => (Telling(w, req[w].todo \ {c})).user = req[w].user
    BY <1>22 DEF NotifyFails, With, Telling, At, Saved
  <2>. QED
    BY <2>1, <2>2, <2>3, <2>4, OwnerFrame
<1>23. ASSUME NEW w \in Workers, NEW k \in Kinds, Begin(w, k) PROVE OwnerInv'
  <2>1. Went(w, [Idle EXCEPT !.kind = k, !.pc = IF k \in {"auth", "profile"} THEN "get" ELSE "readRow"])
    BY <1>23, Effects
  <2>2. UNCHANGED <<txn, owner>> /\ (owner = None \/ UNCHANGED now)
    BY <1>23 DEF Begin, row, OwnerInv
  <2>3. Saved([Idle EXCEPT !.kind = k, !.pc = IF k \in {"auth", "profile"} THEN "get" ELSE "readRow"]) <=> Saved(req[w])
    BY <1>0, <1>23 DEF Begin, Idle, At, Saved, RequestOK, Notified, Kinds
  <2>4. Saved([Idle EXCEPT !.kind = k, !.pc = IF k \in {"auth", "profile"} THEN "get" ELSE "readRow"]) => ([Idle EXCEPT !.kind = k, !.pc = IF k \in {"auth", "profile"} THEN "get" ELSE "readRow"]).user = req[w].user
    BY <1>23 DEF Begin, Idle, At, Saved
  <2>. QED
    BY <2>1, <2>2, <2>3, <2>4, OwnerFrame
<1>24. ASSUME NEW c \in Clusters, Expire(c) PROVE OwnerInv'
  BY <1>24 DEF Expire, OwnerInv, row
<1>25. ASSUME NEW w \in Workers, NEW s \in BOOLEAN, AnswerExpires(w, s) PROVE OwnerInv'
  BY <1>25 DEF AnswerExpires, OwnerInv, row
<1>26. CASE UNCHANGED vars
  BY <1>26 DEF OwnerInv, vars, row
<1>27. ASSUME NEW w \in Workers, PostFails(w) PROVE OwnerInv'
  <2>1. Went(w, Idle)
    BY <1>27, Effects
  <2>2. UNCHANGED <<txn, owner>> /\ (owner = None \/ UNCHANGED now)
    BY <1>27 DEF PostFails, row, OwnerInv
  <2>3. Saved(Idle) <=> Saved(req[w])
    BY <1>0, <1>27 DEF PostFails, Idle, At, Saved, RequestOK, Notified, Kinds
  <2>4. Saved(Idle) => (Idle).user = req[w].user
    BY <1>27 DEF PostFails, Idle, At, Saved
  <2>. QED
    BY <2>1, <2>2, <2>3, <2>4, OwnerFrame
<1>28. ASSUME NEW w \in Workers, StoreFails(w) PROVE OwnerInv'
  <2>1. Went(w, Idle)
    BY <1>28, Effects
  <2>2. UNCHANGED <<txn, owner>> /\ (owner = None \/ UNCHANGED now)
    BY <1>28 DEF StoreFails, row, OwnerInv
  <2>3. Saved(Idle) <=> Saved(req[w])
    BY <1>0, <1>28 DEF StoreFails, Idle, At, Saved, RequestOK, Notified, Kinds
  <2>4. Saved(Idle) => (Idle).user = req[w].user
    BY <1>28 DEF StoreFails, Idle, At, Saved
  <2>. QED
    BY <2>1, <2>2, <2>3, <2>4, OwnerFrame
<1>. QED
  BY <1>1, <1>2, <1>3, <1>4, <1>5, <1>6, <1>7, <1>8, <1>9, <1>10, <1>11, <1>12, <1>13, <1>14, <1>15, <1>16, <1>17, <1>18, <1>19, <1>20, <1>21, <1>22, <1>23, <1>24, <1>25, <1>26, <1>27, <1>28 DEF Next, Step, Failure

LEMMA TimesHold ==
  ASSUME Shapes
  PROVE  /\ Times \subseteq Nat
         /\ db.modified \in Times
         /\ txn # None => txn.modified \in Times
         /\ \A c \in Clusters : cached[c] # None => cached[c].modified \in Times
         /\ \A w \in Workers : req[w].user # None => req[w].user.modified \in Times
<1>1. db # None
  BY NoRecord DEF Shapes
<1>2. Held \subseteq Record
  BY DEF Shapes, Held, Request
<1>3. Times \subseteq Nat
  BY <1>2 DEF Times, Record
<1>. QED
  BY <1>1, <1>3 DEF Times, Held

LEMMA TimesWithin ==
  ASSUME Shapes, NEW w \in Workers, NEW q, Went(w, q), NEW S, Times \subseteq S,
         q.user # None => q.user.modified \in S,
         \A c \in Clusters : cached'[c] # None => cached'[c].modified \in S,
         db'.modified \in S,
         txn' # None => txn'.modified \in S
  PROVE  Times' \subseteq S
<1>1. \A v \in Workers : req'[v].user # None => req'[v].user.modified \in S
  <2>. TAKE v \in Workers
  <2>1. CASE v = w
    BY <2>1 DEF Went
  <2>2. CASE v # w
    BY <2>2, TimesHold DEF Went
  <2>. QED
    BY <2>1, <2>2
<1>. QED
  BY <1>1 DEF Times, Held

(* A step adds no time but that of its own save.                           *)
NewTimes == IF now' = now THEN {} ELSE {now + 1}

LEMMA TimesStep ==
  ASSUME Shapes, RequestsOK, OwnerInv, [Next]_vars
  PROVE  Times' \subseteq Times \cup NewTimes
<1>. USE UserCacheAssumption, NoRecord
<1>. DEFINE S == Times \cup NewTimes
<1>0. ASSUME NEW w \in Workers
      PROVE  /\ RequestOK(req[w]) /\ req[w].user \in Record \cup {None} /\ Here(w) \in Clusters
  BY DEF RequestsOK, Shapes, Request, Here
<1>a. now \in Nat /\ db \in Record /\ cached \in [Clusters -> Record \cup {None}]
  BY DEF Shapes
<1>b. /\ Times \subseteq S
      /\ db.modified \in S
      /\ txn # None => txn.modified \in S
      /\ \A c \in Clusters : cached[c] # None => cached[c].modified \in S
      /\ \A w \in Workers : req[w].user # None => req[w].user.modified \in S
  BY TimesHold
<1>. HIDE DEF S
<1>1. ASSUME NEW w \in Workers, GetHits(w) PROVE Times' \subseteq S
  <2>1. Went(w, Going(w, AfterLoad(w), cached[Here(w)]))
    BY <1>1, Effects
  <2>3. (Going(w, AfterLoad(w), cached[Here(w)])).user # None => (Going(w, AfterLoad(w), cached[Here(w)])).user.modified \in S
    BY <1>0, <1>1, <1>b DEF GetHits, With, Going, AfterLoad
  <2>4. \A d \in Clusters : cached'[d] # None => cached'[d].modified \in S
    BY <1>b, <1>1 DEF GetHits
  <2>5. db'.modified \in S /\ (txn' # None => txn'.modified \in S)
    BY <1>a, <1>b, <1>1 DEF GetHits, row
  <2>. QED
    BY <2>1, <2>3, <2>4, <2>5, <1>b, TimesWithin
<1>2. ASSUME NEW w \in Workers, GetMisses(w) PROVE Times' \subseteq S
  <2>1. Went(w, Going(w, "read", req[w].user))
    BY <1>2, Effects
  <2>3. (Going(w, "read", req[w].user)).user # None => (Going(w, "read", req[w].user)).user.modified \in S
    BY <1>0, <1>2, <1>b DEF GetMisses, With, Going
  <2>4. \A d \in Clusters : cached'[d] # None => cached'[d].modified \in S
    BY <1>b, <1>2 DEF GetMisses
  <2>5. db'.modified \in S /\ (txn' # None => txn'.modified \in S)
    BY <1>a, <1>b, <1>2 DEF GetMisses, row
  <2>. QED
    BY <2>1, <2>3, <2>4, <2>5, <1>b, TimesWithin
<1>3. ASSUME NEW w \in Workers, ReadUser(w) PROVE Times' \subseteq S
  <2>1. Went(w, Going(w, "set", db))
    BY <1>3, Effects
  <2>3. (Going(w, "set", db)).user # None => (Going(w, "set", db)).user.modified \in S
    BY <1>0, <1>3, <1>b DEF ReadUser, With, Going
  <2>4. \A d \in Clusters : cached'[d] # None => cached'[d].modified \in S
    BY <1>b, <1>3 DEF ReadUser
  <2>5. db'.modified \in S /\ (txn' # None => txn'.modified \in S)
    BY <1>a, <1>b, <1>3 DEF ReadUser, row
  <2>. QED
    BY <2>1, <2>3, <2>4, <2>5, <1>b, TimesWithin
<1>4. ASSUME NEW w \in Workers, SetUser(w) PROVE Times' \subseteq S
  <2>1. Went(w, Going(w, AfterLoad(w), req[w].user))
    BY <1>4, Effects
  <2>3. (Going(w, AfterLoad(w), req[w].user)).user # None => (Going(w, AfterLoad(w), req[w].user)).user.modified \in S
    BY <1>0, <1>4, <1>b DEF SetUser, With, Going, AfterLoad
  <2>4. \A d \in Clusters : cached'[d] # None => cached'[d].modified \in S
    BY <1>0, <1>a, <1>b, <1>4 DEF SetUser
  <2>5. db'.modified \in S /\ (txn' # None => txn'.modified \in S)
    BY <1>a, <1>b, <1>4 DEF SetUser, row
  <2>. QED
    BY <2>1, <2>3, <2>4, <2>5, <1>b, TimesWithin
<1>5. ASSUME NEW w \in Workers, ReadRow(w) PROVE Times' \subseteq S
  <2>1. Went(w, Going(w, "write", db))
    BY <1>5, Effects
  <2>3. (Going(w, "write", db)).user # None => (Going(w, "write", db)).user.modified \in S
    BY <1>0, <1>5, <1>b DEF ReadRow, With, Going
  <2>4. \A d \in Clusters : cached'[d] # None => cached'[d].modified \in S
    BY <1>b, <1>5 DEF ReadRow
  <2>5. db'.modified \in S /\ (txn' # None => txn'.modified \in S)
    BY <1>a, <1>b, <1>5 DEF ReadRow, row
  <2>. QED
    BY <2>1, <2>3, <2>4, <2>5, <1>b, TimesWithin
<1>6. ASSUME NEW w \in Workers, NEW s \in BOOLEAN, WriteProfile(w, s) PROVE Times' \subseteq S
  <2>1. Went(w, Going(w, "postGet", [modified |-> now + 1, staff |-> req[w].user.staff \/ s]))
    BY <1>6, Effects
  <2>2. now + 1 \in S
    BY <1>6, <1>a DEF WriteProfile, NewTimes, S
  <2>3. (Going(w, "postGet", [modified |-> now + 1, staff |-> req[w].user.staff \/ s])).user.modified \in S
    BY <2>2 DEF With, Going
  <2>4. \A d \in Clusters : cached'[d] # None => cached'[d].modified \in S
    BY <1>b, <1>6 DEF WriteProfile
  <2>5. db'.modified \in S /\ (txn' # None => txn'.modified \in S)
    BY <1>a, <1>b, <1>6, <2>2 DEF WriteProfile, row, Record
  <2>. QED
    BY <2>1, <2>3, <2>4, <2>5, <1>b, TimesWithin
<1>7. ASSUME NEW w \in Workers, NEW s \in BOOLEAN, WriteSignin(w, s) PROVE Times' \subseteq S
  <2>1. Went(w, Going(w, "postGet", [req[w].user EXCEPT !.staff = s]))
    BY <1>7, Effects
  <2>2. req[w].user \in Record
    BY <1>0, <1>7 DEF WriteSignin, At, RequestOK, Carrying
  <2>3. (Going(w, "postGet", [req[w].user EXCEPT !.staff = s])).user.modified \in S
    BY <2>2, <1>b DEF With, Going, Record
  <2>4. \A d \in Clusters : cached'[d] # None => cached'[d].modified \in S
    BY <1>b, <1>7 DEF WriteSignin
  <2>5. db'.modified \in S /\ (txn' # None => txn'.modified \in S)
    BY <1>a, <1>b, <1>7 DEF WriteSignin, row, Record
  <2>. QED
    BY <2>1, <2>3, <2>4, <2>5, <1>b, TimesWithin
<1>8. ASSUME NEW w \in Workers, NEW s \in BOOLEAN, WriteAdmin(w, s) PROVE Times' \subseteq S
  <2>1. Went(w, Going(w, "postGet", [modified |-> now + 1, staff |-> s]))
    BY <1>8, Effects
  <2>2. now + 1 \in S
    BY <1>8, <1>a DEF WriteAdmin, NewTimes, S
  <2>3. (Going(w, "postGet", [modified |-> now + 1, staff |-> s])).user.modified \in S
    BY <2>2 DEF With, Going
  <2>4. \A d \in Clusters : cached'[d] # None => cached'[d].modified \in S
    BY <1>b, <1>8 DEF WriteAdmin
  <2>5. db'.modified \in S /\ (txn' # None => txn'.modified \in S)
    BY <1>a, <1>b, <1>8, <2>2 DEF WriteAdmin, row
  <2>. QED
    BY <2>1, <2>3, <2>4, <2>5, <1>b, TimesWithin
<1>9. ASSUME NEW w \in Workers, PostGetMisses(w) PROVE Times' \subseteq S
  <2>1. Went(w, AfterSave(w))
    BY <1>9, Effects
  <2>3. (AfterSave(w)).user # None => (AfterSave(w)).user.modified \in S
    BY <1>0, <1>9, <1>b DEF PostGetMisses, With, AfterSave
  <2>4. \A d \in Clusters : cached'[d] # None => cached'[d].modified \in S
    BY <1>b, <1>9 DEF PostGetMisses
  <2>5. db'.modified \in S /\ (txn' # None => txn'.modified \in S)
    BY <1>a, <1>b, <1>9 DEF PostGetMisses, row
  <2>. QED
    BY <2>1, <2>3, <2>4, <2>5, <1>b, TimesWithin
<1>10. ASSUME NEW w \in Workers, PostGetHits(w) PROVE Times' \subseteq S
  <2>1. Went(w, Going(w, "postSet", req[w].user))
    BY <1>10, Effects
  <2>3. (Going(w, "postSet", req[w].user)).user # None => (Going(w, "postSet", req[w].user)).user.modified \in S
    BY <1>0, <1>10, <1>b DEF PostGetHits, With, Going
  <2>4. \A d \in Clusters : cached'[d] # None => cached'[d].modified \in S
    BY <1>b, <1>10 DEF PostGetHits
  <2>5. db'.modified \in S /\ (txn' # None => txn'.modified \in S)
    BY <1>a, <1>b, <1>10 DEF PostGetHits, row
  <2>. QED
    BY <2>1, <2>3, <2>4, <2>5, <1>b, TimesWithin
<1>11. ASSUME NEW w \in Workers, PostSet(w) PROVE Times' \subseteq S
  <2>1. Went(w, AfterSave(w))
    BY <1>11, Effects
  <2>3. (AfterSave(w)).user # None => (AfterSave(w)).user.modified \in S
    BY <1>0, <1>11, <1>b DEF PostSet, With, AfterSave
  <2>4. \A d \in Clusters : cached'[d] # None => cached'[d].modified \in S
    BY <1>0, <1>a, <1>b, <1>11 DEF PostSet
  <2>5. db'.modified \in S /\ (txn' # None => txn'.modified \in S)
    BY <1>a, <1>b, <1>11 DEF PostSet, row
  <2>. QED
    BY <2>1, <2>3, <2>4, <2>5, <1>b, TimesWithin
<1>12. ASSUME NEW w \in Workers, StoreUser(w) PROVE Times' \subseteq S
  <2>1. Went(w, Idle)
    BY <1>12, Effects
  <2>3. (Idle).user # None => (Idle).user.modified \in S
    BY <1>0, <1>12, <1>b DEF StoreUser, Idle
  <2>4. \A d \in Clusters : cached'[d] # None => cached'[d].modified \in S
    BY <1>0, <1>a, <1>b, <1>12 DEF StoreUser
  <2>5. db'.modified \in S /\ (txn' # None => txn'.modified \in S)
    BY <1>a, <1>b, <1>12 DEF StoreUser, row
  <2>. QED
    BY <2>1, <2>3, <2>4, <2>5, <1>b, TimesWithin
<1>13. ASSUME NEW w \in Workers, NEW c \in Clusters, Notify(w, c) PROVE Times' \subseteq S
  <2>1. Went(w, Telling(w, req[w].todo \ {c}))
    BY <1>13, Effects
  <2>3. (Telling(w, req[w].todo \ {c})).user # None => (Telling(w, req[w].todo \ {c})).user.modified \in S
    BY <1>0, <1>13, <1>b DEF Notify, With, Telling
  <2>4. \A d \in Clusters : cached'[d] # None => cached'[d].modified \in S
    BY <1>0, <1>a, <1>b, <1>13 DEF Notify
  <2>5. db'.modified \in S /\ (txn' # None => txn'.modified \in S)
    BY <1>a, <1>b, <1>13 DEF Notify, row
  <2>. QED
    BY <2>1, <2>3, <2>4, <2>5, <1>b, TimesWithin
<1>14. ASSUME NEW w \in Workers, ProfileDone(w) PROVE Times' \subseteq S
  <2>1. Went(w, Idle)
    BY <1>14, Effects
  <2>3. (Idle).user # None => (Idle).user.modified \in S
    BY <1>0, <1>14, <1>b DEF ProfileDone, Idle
  <2>4. \A d \in Clusters : cached'[d] # None => cached'[d].modified \in S
    BY <1>b, <1>14 DEF ProfileDone
  <2>5. db'.modified \in S /\ (txn' # None => txn'.modified \in S)
    BY <1>a, <1>b, <1>14 DEF ProfileDone, row
  <2>. QED
    BY <2>1, <2>3, <2>4, <2>5, <1>b, TimesWithin
<1>15. ASSUME NEW w \in Workers, Commit(w) PROVE Times' \subseteq S
  <2>1. Went(w, Idle)
    BY <1>15, Effects
  <2>3. (Idle).user # None => (Idle).user.modified \in S
    BY <1>0, <1>15, <1>b DEF Commit, Idle
  <2>4. \A d \in Clusters : cached'[d] # None => cached'[d].modified \in S
    BY <1>b, <1>15 DEF Commit
  <2>5. db'.modified \in S /\ (txn' # None => txn'.modified \in S)
    BY <1>a, <1>b, <1>15 DEF Commit, row, OwnerInv
  <2>. QED
    BY <2>1, <2>3, <2>4, <2>5, <1>b, TimesWithin
<1>16. ASSUME NEW w \in Workers, AnswerCached(w) PROVE Times' \subseteq S
  <2>1. Went(w, Showing(w, answers[w][req[w].user.staff]))
    BY <1>16, Effects
  <2>3. (Showing(w, answers[w][req[w].user.staff])).user # None => (Showing(w, answers[w][req[w].user.staff])).user.modified \in S
    BY <1>0, <1>16, <1>b DEF AnswerCached, With, Showing
  <2>4. \A d \in Clusters : cached'[d] # None => cached'[d].modified \in S
    BY <1>b, <1>16 DEF AnswerCached
  <2>5. db'.modified \in S /\ (txn' # None => txn'.modified \in S)
    BY <1>a, <1>b, <1>16 DEF AnswerCached, row
  <2>. QED
    BY <2>1, <2>3, <2>4, <2>5, <1>b, TimesWithin
<1>17. ASSUME NEW w \in Workers, AnswerMade(w) PROVE Times' \subseteq S
  <2>1. Went(w, Showing(w, NewAnswer(req[w].user)))
    BY <1>17, Effects
  <2>3. (Showing(w, NewAnswer(req[w].user))).user # None => (Showing(w, NewAnswer(req[w].user))).user.modified \in S
    BY <1>0, <1>17, <1>b DEF AnswerMade, With, Showing
  <2>4. \A d \in Clusters : cached'[d] # None => cached'[d].modified \in S
    BY <1>b, <1>17 DEF AnswerMade
  <2>5. db'.modified \in S /\ (txn' # None => txn'.modified \in S)
    BY <1>a, <1>b, <1>17 DEF AnswerMade, row
  <2>. QED
    BY <2>1, <2>3, <2>4, <2>5, <1>b, TimesWithin
<1>18. ASSUME NEW w \in Workers, Respond(w) PROVE Times' \subseteq S
  <2>1. Went(w, Idle)
    BY <1>18, Effects
  <2>3. (Idle).user # None => (Idle).user.modified \in S
    BY <1>0, <1>18, <1>b DEF Respond, Idle
  <2>4. \A d \in Clusters : cached'[d] # None => cached'[d].modified \in S
    BY <1>b, <1>18 DEF Respond
  <2>5. db'.modified \in S /\ (txn' # None => txn'.modified \in S)
    BY <1>a, <1>b, <1>18 DEF Respond, row
  <2>. QED
    BY <2>1, <2>3, <2>4, <2>5, <1>b, TimesWithin
<1>19. ASSUME NEW w \in Workers, GetFails(w) PROVE Times' \subseteq S
  <2>1. Went(w, Going(w, "read", req[w].user))
    BY <1>19, Effects
  <2>3. (Going(w, "read", req[w].user)).user # None => (Going(w, "read", req[w].user)).user.modified \in S
    BY <1>0, <1>19, <1>b DEF GetFails, With, Going
  <2>4. \A d \in Clusters : cached'[d] # None => cached'[d].modified \in S
    BY <1>b, <1>19 DEF GetFails
  <2>5. db'.modified \in S /\ (txn' # None => txn'.modified \in S)
    BY <1>a, <1>b, <1>19 DEF GetFails, row
  <2>. QED
    BY <2>1, <2>3, <2>4, <2>5, <1>b, TimesWithin
<1>20. ASSUME NEW w \in Workers, SetFails(w) PROVE Times' \subseteq S
  <2>1. Went(w, Going(w, AfterLoad(w), req[w].user))
    BY <1>20, Effects
  <2>3. (Going(w, AfterLoad(w), req[w].user)).user # None => (Going(w, AfterLoad(w), req[w].user)).user.modified \in S
    BY <1>0, <1>20, <1>b DEF SetFails, With, Going, AfterLoad
  <2>4. \A d \in Clusters : cached'[d] # None => cached'[d].modified \in S
    BY <1>b, <1>20 DEF SetFails
  <2>5. db'.modified \in S /\ (txn' # None => txn'.modified \in S)
    BY <1>a, <1>b, <1>20 DEF SetFails, row
  <2>. QED
    BY <2>1, <2>3, <2>4, <2>5, <1>b, TimesWithin
<1>21. ASSUME NEW w \in Workers, Rollback(w) PROVE Times' \subseteq S
  <2>1. Went(w, Idle)
    BY <1>21, Effects
  <2>3. (Idle).user # None => (Idle).user.modified \in S
    BY <1>0, <1>21, <1>b DEF Rollback, Idle
  <2>4. \A d \in Clusters : cached'[d] # None => cached'[d].modified \in S
    BY <1>b, <1>21 DEF Rollback
  <2>5. db'.modified \in S /\ (txn' # None => txn'.modified \in S)
    BY <1>a, <1>b, <1>21 DEF Rollback, row
  <2>. QED
    BY <2>1, <2>3, <2>4, <2>5, <1>b, TimesWithin
<1>22. ASSUME NEW w \in Workers, NEW c \in Clusters, NotifyFails(w, c) PROVE Times' \subseteq S
  <2>1. Went(w, Telling(w, req[w].todo \ {c}))
    BY <1>22, Effects
  <2>3. (Telling(w, req[w].todo \ {c})).user # None => (Telling(w, req[w].todo \ {c})).user.modified \in S
    BY <1>0, <1>22, <1>b DEF NotifyFails, With, Telling
  <2>4. \A d \in Clusters : cached'[d] # None => cached'[d].modified \in S
    BY <1>b, <1>22 DEF NotifyFails
  <2>5. db'.modified \in S /\ (txn' # None => txn'.modified \in S)
    BY <1>a, <1>b, <1>22 DEF NotifyFails, row
  <2>. QED
    BY <2>1, <2>3, <2>4, <2>5, <1>b, TimesWithin
<1>23. ASSUME NEW w \in Workers, NEW k \in Kinds, Begin(w, k) PROVE Times' \subseteq S
  <2>1. Went(w, [Idle EXCEPT !.kind = k, !.pc = IF k \in {"auth", "profile"} THEN "get" ELSE "readRow"])
    BY <1>23, Effects
  <2>3. ([Idle EXCEPT !.kind = k, !.pc = IF k \in {"auth", "profile"} THEN "get" ELSE "readRow"]).user # None => ([Idle EXCEPT !.kind = k, !.pc = IF k \in {"auth", "profile"} THEN "get" ELSE "readRow"]).user.modified \in S
    BY <1>0, <1>23, <1>b DEF Begin, Idle
  <2>4. \A d \in Clusters : cached'[d] # None => cached'[d].modified \in S
    BY <1>b, <1>23 DEF Begin
  <2>5. db'.modified \in S /\ (txn' # None => txn'.modified \in S)
    BY <1>a, <1>b, <1>23 DEF Begin, row
  <2>. QED
    BY <2>1, <2>3, <2>4, <2>5, <1>b, TimesWithin
<1>24. ASSUME NEW c \in Clusters, Expire(c) PROVE Times' \subseteq S
  <2>1. \A d \in Clusters : cached'[d] # None => cached'[d].modified \in S
    BY <1>24, <1>a, <1>b DEF Expire
  <2>2. UNCHANGED <<db, txn, req>>
    BY <1>24 DEF Expire, row
  <2>. QED
    BY <2>1, <2>2, <1>b DEF Times, Held
<1>25. ASSUME NEW w \in Workers, NEW s \in BOOLEAN, AnswerExpires(w, s) PROVE Times' \subseteq S
  <2>1. Times' = Times
    BY <1>25 DEF AnswerExpires, row, Times, Held
  <2>. QED
    BY <2>1, <1>b
<1>26. CASE UNCHANGED vars
  BY <1>b, <1>26 DEF vars, row, Times, Held
<1>27. ASSUME NEW w \in Workers, PostFails(w) PROVE Times' \subseteq S
  <2>1. Went(w, Idle)
    BY <1>27, Effects
  <2>3. (Idle).user # None => (Idle).user.modified \in S
    BY <1>0, <1>27, <1>b DEF PostFails, Idle
  <2>4. \A d \in Clusters : cached'[d] # None => cached'[d].modified \in S
    BY <1>b, <1>27 DEF PostFails
  <2>5. db'.modified \in S /\ (txn' # None => txn'.modified \in S)
    BY <1>a, <1>b, <1>27 DEF PostFails, row
  <2>. QED
    BY <2>1, <2>3, <2>4, <2>5, <1>b, TimesWithin
<1>28. ASSUME NEW w \in Workers, StoreFails(w) PROVE Times' \subseteq S
  <2>1. Went(w, Idle)
    BY <1>28, Effects
  <2>3. (Idle).user # None => (Idle).user.modified \in S
    BY <1>0, <1>28, <1>b DEF StoreFails, Idle
  <2>4. \A d \in Clusters : cached'[d] # None => cached'[d].modified \in S
    BY <1>b, <1>28 DEF StoreFails
  <2>5. db'.modified \in S /\ (txn' # None => txn'.modified \in S)
    BY <1>a, <1>b, <1>28 DEF StoreFails, row
  <2>. QED
    BY <2>1, <2>3, <2>4, <2>5, <1>b, TimesWithin
<1>. QED
  BY <1>1, <1>2, <1>3, <1>4, <1>5, <1>6, <1>7, <1>8, <1>9, <1>10, <1>11, <1>12, <1>13, <1>14, <1>15, <1>16, <1>17, <1>18, <1>19, <1>20, <1>21, <1>22, <1>23, <1>24, <1>25, <1>26, <1>27, <1>28 DEF Next, Step, Failure, S

(* The clock and the row stay as they are, but for saves, commits and       *)
(* rollbacks.                                                              *)
LEMMA Quiet ==
  ASSUME [Next]_vars,
         \A w \in Workers : ~Commit(w) /\ ~Rollback(w),
         \A w \in Workers : \A s \in BOOLEAN :
           ~WriteProfile(w, s) /\ ~WriteSignin(w, s) /\ ~WriteAdmin(w, s)
  PROVE  UNCHANGED <<row, now, undone>>
<1>1. ASSUME NEW w \in Workers, GetHits(w) PROVE UNCHANGED <<row, now, undone>>
  BY <1>1 DEF GetHits, row, past
<1>2. ASSUME NEW w \in Workers, GetMisses(w) PROVE UNCHANGED <<row, now, undone>>
  BY <1>2 DEF GetMisses, row, past
<1>3. ASSUME NEW w \in Workers, ReadUser(w) PROVE UNCHANGED <<row, now, undone>>
  BY <1>3 DEF ReadUser, row, past
<1>4. ASSUME NEW w \in Workers, SetUser(w) PROVE UNCHANGED <<row, now, undone>>
  BY <1>4 DEF SetUser, row, past
<1>5. ASSUME NEW w \in Workers, ReadRow(w) PROVE UNCHANGED <<row, now, undone>>
  BY <1>5 DEF ReadRow, row, past
<1>6. ASSUME NEW w \in Workers, NEW s \in BOOLEAN, WriteProfile(w, s) PROVE FALSE
  BY <1>6
<1>7. ASSUME NEW w \in Workers, NEW s \in BOOLEAN, WriteSignin(w, s) PROVE FALSE
  BY <1>7
<1>8. ASSUME NEW w \in Workers, NEW s \in BOOLEAN, WriteAdmin(w, s) PROVE FALSE
  BY <1>8
<1>9. ASSUME NEW w \in Workers, PostGetMisses(w) PROVE UNCHANGED <<row, now, undone>>
  BY <1>9 DEF PostGetMisses, row, past
<1>10. ASSUME NEW w \in Workers, PostGetHits(w) PROVE UNCHANGED <<row, now, undone>>
  BY <1>10 DEF PostGetHits, row, past
<1>11. ASSUME NEW w \in Workers, PostSet(w) PROVE UNCHANGED <<row, now, undone>>
  BY <1>11 DEF PostSet, row, past
<1>12. ASSUME NEW w \in Workers, StoreUser(w) PROVE UNCHANGED <<row, now, undone>>
  BY <1>12 DEF StoreUser, row, past
<1>13. ASSUME NEW w \in Workers, NEW c \in Clusters, Notify(w, c) PROVE UNCHANGED <<row, now, undone>>
  BY <1>13 DEF Notify, row, past
<1>14. ASSUME NEW w \in Workers, ProfileDone(w) PROVE UNCHANGED <<row, now, undone>>
  BY <1>14 DEF ProfileDone, row, past
<1>15. ASSUME NEW w \in Workers, Commit(w) PROVE FALSE
  BY <1>15
<1>16. ASSUME NEW w \in Workers, AnswerCached(w) PROVE UNCHANGED <<row, now, undone>>
  BY <1>16 DEF AnswerCached, row, past
<1>17. ASSUME NEW w \in Workers, AnswerMade(w) PROVE UNCHANGED <<row, now, undone>>
  BY <1>17 DEF AnswerMade, row, past
<1>18. ASSUME NEW w \in Workers, Respond(w) PROVE UNCHANGED <<row, now, undone>>
  BY <1>18 DEF Respond, row, past
<1>19. ASSUME NEW w \in Workers, GetFails(w) PROVE UNCHANGED <<row, now, undone>>
  BY <1>19 DEF GetFails, row, past
<1>20. ASSUME NEW w \in Workers, SetFails(w) PROVE UNCHANGED <<row, now, undone>>
  BY <1>20 DEF SetFails, row, past
<1>21. ASSUME NEW w \in Workers, Rollback(w) PROVE FALSE
  BY <1>21
<1>22. ASSUME NEW w \in Workers, NEW c \in Clusters, NotifyFails(w, c) PROVE UNCHANGED <<row, now, undone>>
  BY <1>22 DEF NotifyFails, row, past
<1>23. ASSUME NEW w \in Workers, NEW k \in Kinds, Begin(w, k) PROVE UNCHANGED <<row, now, undone>>
  BY <1>23 DEF Begin, row, past
<1>24. ASSUME NEW c \in Clusters, Expire(c) PROVE UNCHANGED <<row, now, undone>>
  BY <1>24 DEF Expire, row, past
<1>25. ASSUME NEW w \in Workers, NEW s \in BOOLEAN, AnswerExpires(w, s) PROVE UNCHANGED <<row, now, undone>>
  BY <1>25 DEF AnswerExpires, row, past
<1>26. CASE UNCHANGED vars
  BY <1>26 DEF vars, past
<1>27. ASSUME NEW w \in Workers, PostFails(w) PROVE UNCHANGED <<row, now, undone>>
  BY <1>27 DEF PostFails, row, past
<1>28. ASSUME NEW w \in Workers, StoreFails(w) PROVE UNCHANGED <<row, now, undone>>
  BY <1>28 DEF StoreFails, row, past
<1>. QED
  BY <1>1, <1>2, <1>3, <1>4, <1>5, <1>6, <1>7, <1>8, <1>9, <1>10, <1>11, <1>12, <1>13, <1>14, <1>15, <1>16, <1>17, <1>18, <1>19, <1>20, <1>21, <1>22, <1>23, <1>24, <1>25, <1>26, <1>27, <1>28 DEF Next, Step, Failure

LEMMA HeldStep ==
  ASSUME Shapes, RequestsOK, OwnerInv, HeldInv, [Next]_vars
  PROVE  HeldInv'
<1>0. /\ now \in Nat /\ Times \subseteq Nat /\ db.modified \in Nat
      /\ Times' \subseteq Times \cup NewTimes
  BY TimesHold, TimesStep DEF Shapes
<1>1. ASSUME NEW w \in Workers, NEW s \in BOOLEAN, WriteProfile(w, s) PROVE HeldInv'
  <2>1. now' = now + 1 /\ db'.modified = now'
    BY <1>1 DEF WriteProfile, Shapes, Record
  <2>. QED
    BY <1>0, <2>1 DEF HeldInv, NewTimes
<1>2. ASSUME NEW w \in Workers, NEW s \in BOOLEAN, WriteSignin(w, s) PROVE HeldInv'
  <2>1. now' = now /\ db'.modified = db.modified /\ UNCHANGED <<txn, undone>>
    BY <1>2 DEF WriteSignin, Shapes, Record
  <2>. QED
    BY <1>0, <2>1 DEF HeldInv, NewTimes
<1>3. ASSUME NEW w \in Workers, NEW s \in BOOLEAN, WriteAdmin(w, s) PROVE HeldInv'
  <2>1. /\ now' = now + 1 /\ txn' = [modified |-> now + 1, staff |-> s]
        /\ txn = None /\ UNCHANGED <<db, undone>>
    BY <1>3 DEF WriteAdmin
  <2>2. txn' # None /\ txn'.modified = now + 1
    BY <1>0, <2>1, NoRecord DEF Record
  <2>. QED
    BY <1>0, <2>1, <2>2 DEF HeldInv, NewTimes
<1>4. ASSUME NEW w \in Workers, Commit(w) PROVE HeldInv'
  <2>1. db'.modified = now /\ now' = now
    BY <1>4, UserCacheAssumption DEF Commit, OwnerInv
  <2>. QED
    BY <1>0, <2>1 DEF HeldInv, NewTimes
<1>5. ASSUME NEW w \in Workers, Rollback(w) PROVE HeldInv'
  <2>1. undone' = undone \cup {txn.modified} /\ UNCHANGED <<now, db>>
    BY <1>5 DEF Rollback
  <2>. QED
    BY <1>0, <2>1 DEF HeldInv, NewTimes
<1>6. CASE UNCHANGED <<row, now, undone>>
  BY <1>0, <1>6 DEF HeldInv, NewTimes, row
<1>. QED
  BY <1>1, <1>2, <1>3, <1>4, <1>5, <1>6, Quiet

(* A step makes no answer that its worker did not have, but AnswerMade: an  *)
(* answer that expires keeps its name and its time.                        *)
LEMMA MadeWithin ==
  ASSUME Shapes, RequestsOK, [Next]_vars
  PROVE  \A a \in Made' :
           \/ \E b \in Made : a.name = b.name /\ a.stamp = b.stamp /\ a.late = b.late
           \/ \E w \in Workers : At(w, "answer") /\ a = NewAnswer(req[w].user) /\ UNCHANGED <<now, row>>
<1>. USE UserCacheAssumption, NoRecord
<1>. DEFINE Before(a) == \E b \in Made : a.name = b.name /\ a.stamp = b.stamp /\ a.late = b.late
            Now(a) == \E w \in Workers :
                        At(w, "answer") /\ a = NewAnswer(req[w].user) /\ UNCHANGED <<now, row>>
            Goal == \A a \in Made' : Before(a) \/ Now(a)
<1>a. \A a \in Made : Before(a)
  OBVIOUS
<1>b. /\ \A w \in Workers, s \in BOOLEAN : answers[w][s] # None => answers[w][s] \in Made
      /\ \A w \in Workers : req[w].shown # None => req[w].shown \in Made
  BY DEF Made
<1>c. ASSUME NEW w \in Workers, NEW q, Went(w, q), UNCHANGED answers,
             q.shown # None => q.shown \in Made
      PROVE  Goal
  <2>1. \A v \in Workers : req'[v].shown # None => req'[v].shown \in Made
    BY <1>b, <1>c DEF Went
  <2>2. \A v \in Workers, s \in BOOLEAN : answers'[v][s] # None => answers'[v][s] \in Made
    BY <1>b, <1>c
  <2>3. Made' \subseteq Made
    BY <2>1, <2>2 DEF Made
  <2>. QED
    BY <2>3, <1>a
<1>. HIDE DEF Before, Now
<1>1. ASSUME NEW w \in Workers, GetHits(w) PROVE Goal
  <2>1. Went(w, Going(w, AfterLoad(w), cached[Here(w)]))
    BY <1>1, Effects
  <2>2. (Going(w, AfterLoad(w), cached[Here(w)])).shown # None => (Going(w, AfterLoad(w), cached[Here(w)])).shown \in Made
    BY <1>b DEF With, Going, AfterLoad
  <2>. QED
    BY <1>1, <2>1, <2>2, <1>c DEF GetHits
<1>2. ASSUME NEW w \in Workers, GetMisses(w) PROVE Goal
  <2>1. Went(w, Going(w, "read", req[w].user))
    BY <1>2, Effects
  <2>2. (Going(w, "read", req[w].user)).shown # None => (Going(w, "read", req[w].user)).shown \in Made
    BY <1>b DEF With, Going
  <2>. QED
    BY <1>2, <2>1, <2>2, <1>c DEF GetMisses
<1>3. ASSUME NEW w \in Workers, ReadUser(w) PROVE Goal
  <2>1. Went(w, Going(w, "set", db))
    BY <1>3, Effects
  <2>2. (Going(w, "set", db)).shown # None => (Going(w, "set", db)).shown \in Made
    BY <1>b DEF With, Going
  <2>. QED
    BY <1>3, <2>1, <2>2, <1>c DEF ReadUser
<1>4. ASSUME NEW w \in Workers, SetUser(w) PROVE Goal
  <2>1. Went(w, Going(w, AfterLoad(w), req[w].user))
    BY <1>4, Effects
  <2>2. (Going(w, AfterLoad(w), req[w].user)).shown # None => (Going(w, AfterLoad(w), req[w].user)).shown \in Made
    BY <1>b DEF With, Going, AfterLoad
  <2>. QED
    BY <1>4, <2>1, <2>2, <1>c DEF SetUser
<1>5. ASSUME NEW w \in Workers, ReadRow(w) PROVE Goal
  <2>1. Went(w, Going(w, "write", db))
    BY <1>5, Effects
  <2>2. (Going(w, "write", db)).shown # None => (Going(w, "write", db)).shown \in Made
    BY <1>b DEF With, Going
  <2>. QED
    BY <1>5, <2>1, <2>2, <1>c DEF ReadRow
<1>6. ASSUME NEW w \in Workers, NEW s \in BOOLEAN, WriteProfile(w, s) PROVE Goal
  <2>1. Went(w, Going(w, "postGet", [modified |-> now + 1, staff |-> req[w].user.staff \/ s]))
    BY <1>6, Effects
  <2>2. (Going(w, "postGet", [modified |-> now + 1, staff |-> req[w].user.staff \/ s])).shown # None => (Going(w, "postGet", [modified |-> now + 1, staff |-> req[w].user.staff \/ s])).shown \in Made
    BY <1>b DEF With, Going
  <2>. QED
    BY <1>6, <2>1, <2>2, <1>c DEF WriteProfile
<1>7. ASSUME NEW w \in Workers, NEW s \in BOOLEAN, WriteSignin(w, s) PROVE Goal
  <2>1. Went(w, Going(w, "postGet", [req[w].user EXCEPT !.staff = s]))
    BY <1>7, Effects
  <2>2. (Going(w, "postGet", [req[w].user EXCEPT !.staff = s])).shown # None => (Going(w, "postGet", [req[w].user EXCEPT !.staff = s])).shown \in Made
    BY <1>b DEF With, Going
  <2>. QED
    BY <1>7, <2>1, <2>2, <1>c DEF WriteSignin
<1>8. ASSUME NEW w \in Workers, NEW s \in BOOLEAN, WriteAdmin(w, s) PROVE Goal
  <2>1. Went(w, Going(w, "postGet", [modified |-> now + 1, staff |-> s]))
    BY <1>8, Effects
  <2>2. (Going(w, "postGet", [modified |-> now + 1, staff |-> s])).shown # None => (Going(w, "postGet", [modified |-> now + 1, staff |-> s])).shown \in Made
    BY <1>b DEF With, Going
  <2>. QED
    BY <1>8, <2>1, <2>2, <1>c DEF WriteAdmin
<1>9. ASSUME NEW w \in Workers, PostGetMisses(w) PROVE Goal
  <2>1. Went(w, AfterSave(w))
    BY <1>9, Effects
  <2>2. (AfterSave(w)).shown # None => (AfterSave(w)).shown \in Made
    BY <1>b DEF With, AfterSave
  <2>. QED
    BY <1>9, <2>1, <2>2, <1>c DEF PostGetMisses
<1>10. ASSUME NEW w \in Workers, PostGetHits(w) PROVE Goal
  <2>1. Went(w, Going(w, "postSet", req[w].user))
    BY <1>10, Effects
  <2>2. (Going(w, "postSet", req[w].user)).shown # None => (Going(w, "postSet", req[w].user)).shown \in Made
    BY <1>b DEF With, Going
  <2>. QED
    BY <1>10, <2>1, <2>2, <1>c DEF PostGetHits
<1>11. ASSUME NEW w \in Workers, PostSet(w) PROVE Goal
  <2>1. Went(w, AfterSave(w))
    BY <1>11, Effects
  <2>2. (AfterSave(w)).shown # None => (AfterSave(w)).shown \in Made
    BY <1>b DEF With, AfterSave
  <2>. QED
    BY <1>11, <2>1, <2>2, <1>c DEF PostSet
<1>12. ASSUME NEW w \in Workers, StoreUser(w) PROVE Goal
  <2>1. Went(w, Idle)
    BY <1>12, Effects
  <2>2. (Idle).shown # None => (Idle).shown \in Made
    BY <1>b DEF Idle
  <2>. QED
    BY <1>12, <2>1, <2>2, <1>c DEF StoreUser
<1>13. ASSUME NEW w \in Workers, NEW c \in Clusters, Notify(w, c) PROVE Goal
  <2>1. Went(w, Telling(w, req[w].todo \ {c}))
    BY <1>13, Effects
  <2>2. (Telling(w, req[w].todo \ {c})).shown # None => (Telling(w, req[w].todo \ {c})).shown \in Made
    BY <1>b DEF With, Telling
  <2>. QED
    BY <1>13, <2>1, <2>2, <1>c DEF Notify
<1>14. ASSUME NEW w \in Workers, ProfileDone(w) PROVE Goal
  <2>1. Went(w, Idle)
    BY <1>14, Effects
  <2>2. (Idle).shown # None => (Idle).shown \in Made
    BY <1>b DEF Idle
  <2>. QED
    BY <1>14, <2>1, <2>2, <1>c DEF ProfileDone
<1>15. ASSUME NEW w \in Workers, Commit(w) PROVE Goal
  <2>1. Went(w, Idle)
    BY <1>15, Effects
  <2>2. (Idle).shown # None => (Idle).shown \in Made
    BY <1>b DEF Idle
  <2>. QED
    BY <1>15, <2>1, <2>2, <1>c DEF Commit
<1>16. ASSUME NEW w \in Workers, AnswerCached(w) PROVE Goal
  <2>1. Went(w, Showing(w, answers[w][req[w].user.staff]))
    BY <1>16, Effects
  <2>2. (Showing(w, answers[w][req[w].user.staff])).shown # None => (Showing(w, answers[w][req[w].user.staff])).shown \in Made
    BY <1>b, <1>16 DEF AnswerCached, With, Showing, At, Fresh, RequestsOK, RequestOK, Carrying, Shapes, Request, Record
  <2>. QED
    BY <1>16, <2>1, <2>2, <1>c DEF AnswerCached
<1>17. ASSUME NEW w \in Workers, AnswerMade(w) PROVE Goal
  <2>1. Went(w, Showing(w, NewAnswer(req[w].user)))
    BY <1>17, Effects
  <2>. DEFINE x == NewAnswer(req[w].user)
  <2>2. Now(x)
    BY <1>17 DEF AnswerMade, Now, row
  <2>3. \A v \in Workers, z \in BOOLEAN : answers'[v][z] \in {answers[v][z], x, None}
    BY <1>17 DEF AnswerMade, Shapes, NewAnswer
  <2>4. \A v \in Workers : req'[v].shown \in {req[v].shown, x}
    BY <2>1 DEF Went, With, Showing
  <2>. HIDE DEF x
  <2>5. \A a \in Made' : a \in Made \/ a = x
    BY <2>3, <2>4 DEF Made
  <2>. QED
    BY <2>2, <2>5, <1>a
<1>18. ASSUME NEW w \in Workers, Respond(w) PROVE Goal
  <2>1. Went(w, Idle)
    BY <1>18, Effects
  <2>2. (Idle).shown # None => (Idle).shown \in Made
    BY <1>b DEF Idle
  <2>. QED
    BY <1>18, <2>1, <2>2, <1>c DEF Respond
<1>19. ASSUME NEW w \in Workers, GetFails(w) PROVE Goal
  <2>1. Went(w, Going(w, "read", req[w].user))
    BY <1>19, Effects
  <2>2. (Going(w, "read", req[w].user)).shown # None => (Going(w, "read", req[w].user)).shown \in Made
    BY <1>b DEF With, Going
  <2>. QED
    BY <1>19, <2>1, <2>2, <1>c DEF GetFails
<1>20. ASSUME NEW w \in Workers, SetFails(w) PROVE Goal
  <2>1. Went(w, Going(w, AfterLoad(w), req[w].user))
    BY <1>20, Effects
  <2>2. (Going(w, AfterLoad(w), req[w].user)).shown # None => (Going(w, AfterLoad(w), req[w].user)).shown \in Made
    BY <1>b DEF With, Going, AfterLoad
  <2>. QED
    BY <1>20, <2>1, <2>2, <1>c DEF SetFails
<1>21. ASSUME NEW w \in Workers, Rollback(w) PROVE Goal
  <2>1. Went(w, Idle)
    BY <1>21, Effects
  <2>2. (Idle).shown # None => (Idle).shown \in Made
    BY <1>b DEF Idle
  <2>. QED
    BY <1>21, <2>1, <2>2, <1>c DEF Rollback
<1>22. ASSUME NEW w \in Workers, NEW c \in Clusters, NotifyFails(w, c) PROVE Goal
  <2>1. Went(w, Telling(w, req[w].todo \ {c}))
    BY <1>22, Effects
  <2>2. (Telling(w, req[w].todo \ {c})).shown # None => (Telling(w, req[w].todo \ {c})).shown \in Made
    BY <1>b DEF With, Telling
  <2>. QED
    BY <1>22, <2>1, <2>2, <1>c DEF NotifyFails
<1>23. ASSUME NEW w \in Workers, NEW k \in Kinds, Begin(w, k) PROVE Goal
  <2>1. Went(w, [Idle EXCEPT !.kind = k, !.pc = IF k \in {"auth", "profile"} THEN "get" ELSE "readRow"])
    BY <1>23, Effects
  <2>2. ([Idle EXCEPT !.kind = k, !.pc = IF k \in {"auth", "profile"} THEN "get" ELSE "readRow"]).shown # None => ([Idle EXCEPT !.kind = k, !.pc = IF k \in {"auth", "profile"} THEN "get" ELSE "readRow"]).shown \in Made
    BY <1>b DEF Idle
  <2>. QED
    BY <1>23, <2>1, <2>2, <1>c DEF Begin
<1>24. ASSUME NEW c \in Clusters, Expire(c) PROVE Goal
  <2>1. Made' = Made
    BY <1>24 DEF Expire, Made
  <2>. QED
    BY <2>1, <1>a
<1>25. ASSUME NEW w \in Workers, NEW s \in BOOLEAN, AnswerExpires(w, s) PROVE Goal
  <2>1. answers[w][s] \in Answers
    BY <1>25 DEF AnswerExpires, Shapes
  <2>. DEFINE x == [answers[w][s] EXCEPT !.expired = TRUE]
  <2>2. x.name = answers[w][s].name /\ x.stamp = answers[w][s].stamp /\ x.late = answers[w][s].late
    BY <2>1 DEF Answers
  <2>3. Before(x)
    BY <1>25, <1>b, <2>2 DEF AnswerExpires, Before
  <2>4. \A v \in Workers, z \in BOOLEAN : answers'[v][z] \in {answers[v][z], x}
    BY <1>25 DEF AnswerExpires, Shapes
  <2>5. \A a \in Made' : a \in Made \/ a = x
    BY <1>25, <2>4 DEF AnswerExpires, Made
  <2>. QED
    BY <2>3, <2>5, <1>a
<1>26. CASE UNCHANGED vars
  <2>1. Made' = Made
    BY <1>26 DEF vars, Made
  <2>. QED
    BY <2>1, <1>a
<1>27. ASSUME NEW w \in Workers, PostFails(w) PROVE Goal
  <2>1. Went(w, Idle)
    BY <1>27, Effects
  <2>2. (Idle).shown # None => (Idle).shown \in Made
    BY <1>b DEF Idle
  <2>. QED
    BY <1>27, <2>1, <2>2, <1>c DEF PostFails
<1>28. ASSUME NEW w \in Workers, StoreFails(w) PROVE Goal
  <2>1. Went(w, Idle)
    BY <1>28, Effects
  <2>2. (Idle).shown # None => (Idle).shown \in Made
    BY <1>b DEF Idle
  <2>. QED
    BY <1>28, <2>1, <2>2, <1>c DEF StoreFails
<1>. QED
  BY <1>1, <1>2, <1>3, <1>4, <1>5, <1>6, <1>7, <1>8, <1>9, <1>10, <1>11, <1>12, <1>13, <1>14, <1>15, <1>16, <1>17, <1>18, <1>19, <1>20, <1>21, <1>22, <1>23, <1>24, <1>25, <1>26, <1>27, <1>28 DEF Next, Step, Failure, Before, Now

LEMMA Grows ==
  ASSUME [Next]_vars
  PROVE  undone \subseteq undone' /\ now' \in {now, now + 1}
<1>1. ASSUME NEW w \in Workers, NEW s \in BOOLEAN,
             WriteProfile(w, s) \/ WriteSignin(w, s) \/ WriteAdmin(w, s)
      PROVE  undone = undone' /\ now' \in {now, now + 1}
  BY <1>1 DEF WriteProfile, WriteSignin, WriteAdmin
<1>2. ASSUME NEW w \in Workers, Commit(w) \/ Rollback(w)
      PROVE  undone \subseteq undone' /\ now' = now
  BY <1>2 DEF Commit, Rollback
<1>. QED
  BY <1>1, <1>2, Quiet

LEMMA MadeStep ==
  ASSUME Shapes, RequestsOK, OwnerInv, HeldInv, MadeInv, [Next]_vars
  PROVE  MadeInv'
<1>1. Made \subseteq Answers
  BY DEF Made, Shapes, Request
<1>2. /\ now \in Nat /\ Times \subseteq Nat
      /\ Times' \subseteq Times \cup NewTimes /\ undone \subseteq undone' /\ now' \in {now, now + 1}
  BY TimesHold, TimesStep, Grows DEF Shapes
<1>3. ASSUME NEW a \in Made', NEW b \in Made, a.name = b.name, a.stamp = b.stamp, a.late = b.late
      PROVE  /\ a.stamp <= now'
             /\ ~a.late => \A m \in Times' : a.name < m /\ m <= a.stamp => m \in undone'
  <2>1. b.stamp \in Nat /\ b.name \in Nat
    BY <1>1 DEF Answers
  <2>2. b.stamp <= now /\ (~b.late => \A m \in Times : b.name < m /\ m <= b.stamp => m \in undone)
    BY DEF MadeInv
  <2>3. b.stamp <= now'
    BY <1>2, <2>1, <2>2
  <2>4. ASSUME NEW m \in Times', m <= b.stamp PROVE m \in Times
    BY <1>2, <2>1, <2>2, <2>4 DEF NewTimes
  <2>. QED
    BY <1>2, <1>3, <2>2, <2>3, <2>4
<1>4. ASSUME NEW a \in Made', NEW w \in Workers, At(w, "answer"), a = NewAnswer(req[w].user),
             UNCHANGED <<now, row>>
      PROVE  /\ a.stamp <= now'
             /\ ~a.late => \A m \in Times' : a.name < m /\ m <= a.stamp => m \in undone'
  <2>1. /\ a.stamp = now /\ a.name = req[w].user.modified
        /\ ~a.late => txn = None /\ ~(req[w].user.modified < db.modified)
    BY <1>4 DEF NewAnswer
  <2>2. req[w].user.modified \in Nat /\ db.modified \in Nat
    BY <1>4, TimesHold DEF At, RequestsOK, RequestOK, Carrying
  <2>3. Times' \subseteq Times
    BY <1>2, <1>4 DEF NewTimes
  <2>4. ASSUME ~a.late, NEW m \in Times', a.name < m PROVE m \in undone
    <3>1. m \in Times /\ m \in Nat
      BY <1>2, <2>3
    <3>2. m <= db.modified \/ m \in undone
      BY <2>1, <2>4, <3>1 DEF HeldInv
    <3>. QED
      BY <2>1, <2>2, <2>4, <3>1, <3>2
  <2>. QED
    BY <1>2, <1>4, <2>1, <2>4
<1>. QED
  BY <1>3, <1>4, MadeWithin DEF MadeInv

-----------------------------------------------------------------------------
(* The answers.                                                            *)
AnswersInv == Shapes /\ RequestsOK /\ OwnerInv /\ HeldInv /\ MadeInv

LEMMA AnswersInit == Init => AnswersInv
<1>. SUFFICES ASSUME Init PROVE AnswersInv
  OBVIOUS
<1>. USE UserCacheAssumption, NoRecord DEF Init
<1>1. Shapes
  <2>1. db \in Record
    BY DEF Record
  <2>2. req \in [Workers -> Request]
    BY IdleOK
  <2>3. answers \in [Workers -> [BOOLEAN -> Answers \cup {None}]]
    OBVIOUS
  <2>. QED
    BY <2>1, <2>2, <2>3 DEF Shapes
<1>2. RequestsOK
  BY DEF RequestsOK, RequestOK, Carrying, Idle
<1>3. OwnerInv
  BY DEF OwnerInv, Saved, Idle
<1>4. Times = {0}
  <2>1. db # None
    BY <1>1 DEF Shapes
  <2>2. Held = {db}
    BY <2>1 DEF Held, Idle
  <2>. QED
    BY <2>2 DEF Times
<1>5. HeldInv
  BY <1>4 DEF HeldInv
<1>6. Made = {}
  BY DEF Made, Idle
<1>. QED
  BY <1>1, <1>2, <1>3, <1>5, <1>6 DEF AnswersInv, MadeInv

LEMMA AnswersNext == AnswersInv /\ [Next]_vars => AnswersInv'
BY ShapesStep, RequestsStep, OwnerStep, HeldStep, MadeStep DEF AnswersInv

LEMMA AnswersHold == Spec => []AnswersInv
BY AnswersInit, AnswersNext, PTL DEF Spec

LEMMA AnswersShown == AnswersInv => OutdatedOnlyIfLate
<1>. SUFFICES ASSUME AnswersInv, NEW w \in Workers, At(w, "respond")
     PROVE  \/ req[w].shown.name >= req[w].user.modified
            \/ req[w].shown.late
            \/ req[w].user.modified \in undone
  BY DEF OutdatedOnlyIfLate
<1>. USE DEF AnswersInv
<1>1. /\ req[w].user # None /\ req[w].shown # None
      /\ req[w].user.modified <= req[w].shown.stamp
  BY DEF RequestsOK, RequestOK, Carrying, At
<1>2. req[w].shown \in Made /\ req[w].shown \in Answers
  BY <1>1 DEF Made, Shapes, Request
<1>3. req[w].user.modified \in Times /\ req[w].user.modified \in Nat
  BY <1>1, TimesHold
<1>4. req[w].shown.name < req[w].user.modified => req[w].shown.late \/ req[w].user.modified \in undone
  BY <1>1, <1>2, <1>3 DEF MadeInv
<1>. QED
  BY <1>2, <1>3, <1>4 DEF Answers

(***************************************************************************)
(* The comparison of get_auth is enough: whatever clusters and workers      *)
(* there are, a request that loaded a record is shown an older one only if  *)
(* the answer was late already when it was made, or the record was rolled   *)
(* back.                                                                   *)
(***************************************************************************)
THEOREM OutdatedAnswersAreLate == Spec => []OutdatedOnlyIfLate
BY AnswersHold, AnswersShown, PTL

-----------------------------------------------------------------------------
(* Cached users.                                                           *)
LEMMA RacedGrows == ASSUME Shapes, [Next]_vars PROVE raced \subseteq raced'
<1>1. ASSUME NEW w \in Workers, GetHits(w) PROVE raced \subseteq raced'
  BY <1>1 DEF GetHits, past
<1>2. ASSUME NEW w \in Workers, GetMisses(w) PROVE raced \subseteq raced'
  BY <1>2 DEF GetMisses, past
<1>3. ASSUME NEW w \in Workers, ReadUser(w) PROVE raced \subseteq raced'
  BY <1>3 DEF ReadUser, past
<1>4. ASSUME NEW w \in Workers, SetUser(w) PROVE raced \subseteq raced'
  BY <1>4 DEF SetUser, past
<1>5. ASSUME NEW w \in Workers, ReadRow(w) PROVE raced \subseteq raced'
  BY <1>5 DEF ReadRow, past
<1>6. ASSUME NEW w \in Workers, NEW s \in BOOLEAN, WriteProfile(w, s) PROVE raced \subseteq raced'
  BY <1>6 DEF WriteProfile, past
<1>7. ASSUME NEW w \in Workers, NEW s \in BOOLEAN, WriteSignin(w, s) PROVE raced \subseteq raced'
  BY <1>7 DEF WriteSignin, past
<1>8. ASSUME NEW w \in Workers, NEW s \in BOOLEAN, WriteAdmin(w, s) PROVE raced \subseteq raced'
  BY <1>8 DEF WriteAdmin, past
<1>9. ASSUME NEW w \in Workers, PostGetMisses(w) PROVE raced \subseteq raced'
  BY <1>9 DEF PostGetMisses, past
<1>10. ASSUME NEW w \in Workers, PostGetHits(w) PROVE raced \subseteq raced'
  BY <1>10 DEF PostGetHits, past
<1>11. ASSUME NEW w \in Workers, PostSet(w) PROVE raced \subseteq raced'
  BY <1>11 DEF PostSet, past
<1>12. ASSUME NEW w \in Workers, StoreUser(w) PROVE raced \subseteq raced'
  BY <1>12 DEF StoreUser, past
<1>13. ASSUME NEW w \in Workers, NEW c \in Clusters, Notify(w, c) PROVE raced \subseteq raced'
  BY <1>13 DEF Notify, past
<1>14. ASSUME NEW w \in Workers, ProfileDone(w) PROVE raced \subseteq raced'
  BY <1>14 DEF ProfileDone, past
<1>15. ASSUME NEW w \in Workers, Commit(w) PROVE raced \subseteq raced'
  BY <1>15 DEF Commit, past
<1>16. ASSUME NEW w \in Workers, AnswerCached(w) PROVE raced \subseteq raced'
  BY <1>16 DEF AnswerCached, past
<1>17. ASSUME NEW w \in Workers, AnswerMade(w) PROVE raced \subseteq raced'
  BY <1>17 DEF AnswerMade, past
<1>18. ASSUME NEW w \in Workers, Respond(w) PROVE raced \subseteq raced'
  BY <1>18 DEF Respond, past
<1>19. ASSUME NEW w \in Workers, GetFails(w) PROVE raced \subseteq raced'
  BY <1>19 DEF GetFails, past
<1>20. ASSUME NEW w \in Workers, SetFails(w) PROVE raced \subseteq raced'
  BY <1>20 DEF SetFails, past
<1>21. ASSUME NEW w \in Workers, Rollback(w) PROVE raced \subseteq raced'
  BY <1>21 DEF Rollback, past
<1>22. ASSUME NEW w \in Workers, NEW c \in Clusters, NotifyFails(w, c) PROVE raced \subseteq raced'
  BY <1>22 DEF NotifyFails, past
<1>23. ASSUME NEW w \in Workers, NEW k \in Kinds, Begin(w, k) PROVE raced \subseteq raced'
  BY <1>23 DEF Begin, past
<1>24. ASSUME NEW c \in Clusters, Expire(c) PROVE raced \subseteq raced'
  BY <1>24 DEF Expire, past
<1>25. ASSUME NEW w \in Workers, NEW s \in BOOLEAN, AnswerExpires(w, s) PROVE raced \subseteq raced'
  BY <1>25 DEF AnswerExpires, past
<1>26. CASE UNCHANGED vars
  BY <1>26 DEF vars, past
<1>27. ASSUME NEW w \in Workers, PostFails(w) PROVE raced \subseteq raced'
  BY <1>27 DEF PostFails, Shapes
<1>28. ASSUME NEW w \in Workers, StoreFails(w) PROVE raced \subseteq raced'
  BY <1>28 DEF StoreFails, past
<1>. QED
  BY <1>1, <1>2, <1>3, <1>4, <1>5, <1>6, <1>7, <1>8, <1>9, <1>10, <1>11, <1>12, <1>13, <1>14, <1>15, <1>16, <1>17, <1>18, <1>19, <1>20, <1>21, <1>22, <1>23, <1>24, <1>25, <1>26, <1>27, <1>28 DEF Next, Step, Failure

LEMMA CopiesFrame ==
  ASSUME CopiesInv, NEW w \in Workers, NEW q, Went(w, q), UNCHANGED row, raced \subseteq raced',
         Copying(q) /\ Here(w) \notin raced' => CopyOK(w, q)
  PROVE  CopiesInv'
<1>. SUFFICES ASSUME NEW v \in Workers, Copying(req'[v]), Here(v) \notin raced'
     PROVE  CopyOK(v, req'[v])
  BY DEF CopiesInv, CopyOK, Written, row, Here
<1>1. CASE v = w
  BY <1>1 DEF Went
<1>2. CASE v # w
  <2>1. req'[v] = req[v]
    BY <1>2 DEF Went
  <2>. QED
    BY <2>1 DEF CopiesInv
<1>. QED
  BY <1>1, <1>2

(* A change of the row races with the other copies.                        *)
LEMMA CopiesRace ==
  ASSUME NEW w \in Workers, NEW q, Went(w, q), Holding(w) \subseteq raced',
         Copying(q) /\ Here(w) \notin raced' =>
           q.user = (IF owner' = w THEN txn' ELSE db') /\ owner' \in {None, w}
  PROVE  CopiesInv'
<1>. SUFFICES ASSUME NEW v \in Workers, Copying(req'[v]), Here(v) \notin raced'
     PROVE  req'[v].user = (IF owner' = v THEN txn' ELSE db') /\ owner' \in {None, v}
  BY DEF CopiesInv, CopyOK, Written, Here
<1>1. CASE v = w
  BY <1>1 DEF Went, CopyOK
<1>2. CASE v # w
  <2>1. req'[v] = req[v]
    BY <1>2 DEF Went
  <2>2. Here(v) \in Holding(w)
    BY <1>2, <2>1 DEF Holding, Copying
  <2>. QED
    BY <2>2
<1>. QED
  BY <1>1, <1>2

LEMMA CopiesStep ==
  ASSUME Shapes, RequestsOK, OwnerInv, CopiesInv, [Next]_vars
  PROVE  CopiesInv'
<1>. USE UserCacheAssumption, NoRecord
<1>0. ASSUME NEW w \in Workers
      PROVE  /\ RequestOK(req[w]) /\ (Saved(req[w]) <=> owner = w) /\ w # None
             /\ Copying(req[w]) /\ Here(w) \notin raced => CopyOK(w, req[w])
  BY DEF RequestsOK, OwnerInv, CopiesInv
<1>a. raced \subseteq raced'
  BY RacedGrows
<1>1. ASSUME NEW w \in Workers, GetHits(w) PROVE CopiesInv'
  <2>1. Went(w, Going(w, AfterLoad(w), cached[Here(w)]))
    BY <1>1, Effects
  <2>2. UNCHANGED row
    BY <1>1 DEF GetHits
  <2>3. Copying(Going(w, AfterLoad(w), cached[Here(w)])) /\ Here(w) \notin raced' => CopyOK(w, Going(w, AfterLoad(w), cached[Here(w)]))
    BY <1>0, <1>a, <1>1 DEF GetHits, With, Going, AfterLoad, Copying, CopyOK, Written, At, Saved, RequestOK
  <2>. QED
    BY <1>a, <2>1, <2>2, <2>3, CopiesFrame
<1>2. ASSUME NEW w \in Workers, GetMisses(w) PROVE CopiesInv'
  <2>1. Went(w, Going(w, "read", req[w].user))
    BY <1>2, Effects
  <2>2. UNCHANGED row
    BY <1>2 DEF GetMisses
  <2>3. Copying(Going(w, "read", req[w].user)) /\ Here(w) \notin raced' => CopyOK(w, Going(w, "read", req[w].user))
    BY <1>0, <1>a, <1>2 DEF GetMisses, With, Going, Copying, CopyOK, Written, At, Saved, RequestOK
  <2>. QED
    BY <1>a, <2>1, <2>2, <2>3, CopiesFrame
<1>3. ASSUME NEW w \in Workers, ReadUser(w) PROVE CopiesInv'
  <2>1. Went(w, Going(w, "set", db))
    BY <1>3, Effects
  <2>2. UNCHANGED row
    BY <1>3 DEF ReadUser
  <2>3. Copying(Going(w, "set", db)) /\ Here(w) \notin raced' => CopyOK(w, Going(w, "set", db))
    BY <1>0, <1>a, <1>3 DEF ReadUser, With, Going, Copying, CopyOK, Written, At, Saved, RequestOK, OwnerInv
  <2>. QED
    BY <1>a, <2>1, <2>2, <2>3, CopiesFrame
<1>4. ASSUME NEW w \in Workers, SetUser(w) PROVE CopiesInv'
  <2>1. Went(w, Going(w, AfterLoad(w), req[w].user))
    BY <1>4, Effects
  <2>2. UNCHANGED row
    BY <1>4 DEF SetUser
  <2>3. Copying(Going(w, AfterLoad(w), req[w].user)) /\ Here(w) \notin raced' => CopyOK(w, Going(w, AfterLoad(w), req[w].user))
    BY <1>0, <1>a, <1>4 DEF SetUser, With, Going, AfterLoad, Copying, CopyOK, Written, At, Saved, RequestOK
  <2>. QED
    BY <1>a, <2>1, <2>2, <2>3, CopiesFrame
<1>5. ASSUME NEW w \in Workers, ReadRow(w) PROVE CopiesInv'
  <2>1. Went(w, Going(w, "write", db))
    BY <1>5, Effects
  <2>2. UNCHANGED row
    BY <1>5 DEF ReadRow
  <2>3. Copying(Going(w, "write", db)) /\ Here(w) \notin raced' => CopyOK(w, Going(w, "write", db))
    BY <1>0, <1>a, <1>5 DEF ReadRow, With, Going, Copying, CopyOK, Written, At, Saved, RequestOK
  <2>. QED
    BY <1>a, <2>1, <2>2, <2>3, CopiesFrame
<1>6. ASSUME NEW w \in Workers, NEW s \in BOOLEAN, WriteProfile(w, s) PROVE CopiesInv'
  <2>1. Went(w, Going(w, "postGet", [modified |-> now + 1, staff |-> req[w].user.staff \/ s]))
    BY <1>6, Effects
  <2>2. Holding(w) \subseteq raced'
    BY <1>6 DEF WriteProfile
  <2>3. owner' = None /\ (Here(w) \notin raced' => (Going(w, "postGet", [modified |-> now + 1, staff |-> req[w].user.staff \/ s])).user = db')
    BY <1>6 DEF WriteProfile, With, Going, OwnerInv
  <2>4. Here(w) \notin raced' =>
          (Going(w, "postGet", [modified |-> now + 1, staff |-> req[w].user.staff \/ s])).user = (IF owner' = w THEN txn' ELSE db') /\ owner' \in {None, w}
    BY <2>3, <1>0
  <2>. QED
    BY <2>1, <2>2, <2>4, CopiesRace
<1>7. ASSUME NEW w \in Workers, NEW s \in BOOLEAN, WriteSignin(w, s) PROVE CopiesInv'
  <2>1. Went(w, Going(w, "postGet", [req[w].user EXCEPT !.staff = s]))
    BY <1>7, Effects
  <2>2. Holding(w) \subseteq raced'
    BY <1>7 DEF WriteSignin
  <2>3. owner' = None /\ (Here(w) \notin raced' => (Going(w, "postGet", [req[w].user EXCEPT !.staff = s])).user = db')
    BY <1>7 DEF WriteSignin, With, Going, OwnerInv
  <2>4. Here(w) \notin raced' =>
          (Going(w, "postGet", [req[w].user EXCEPT !.staff = s])).user = (IF owner' = w THEN txn' ELSE db') /\ owner' \in {None, w}
    BY <2>3, <1>0
  <2>. QED
    BY <2>1, <2>2, <2>4, CopiesRace
<1>8. ASSUME NEW w \in Workers, NEW s \in BOOLEAN, WriteAdmin(w, s) PROVE CopiesInv'
  <2>1. Went(w, Going(w, "postGet", [modified |-> now + 1, staff |-> s]))
    BY <1>8, Effects
  <2>2. Holding(w) \subseteq raced'
    BY <1>8 DEF WriteAdmin
  <2>3. (Going(w, "postGet", [modified |-> now + 1, staff |-> s])).user = txn' /\ owner' = w
    BY <1>8 DEF WriteAdmin, With, Going
  <2>4. Here(w) \notin raced' =>
          (Going(w, "postGet", [modified |-> now + 1, staff |-> s])).user = (IF owner' = w THEN txn' ELSE db') /\ owner' \in {None, w}
    BY <2>3, <1>0
  <2>. QED
    BY <2>1, <2>2, <2>4, CopiesRace
<1>9. ASSUME NEW w \in Workers, PostGetMisses(w) PROVE CopiesInv'
  <2>1. Went(w, AfterSave(w))
    BY <1>9, Effects
  <2>2. UNCHANGED row
    BY <1>9 DEF PostGetMisses
  <2>3. Copying(AfterSave(w)) /\ Here(w) \notin raced' => CopyOK(w, AfterSave(w))
    BY <1>0, <1>a, <1>9 DEF PostGetMisses, With, AfterSave, Copying, CopyOK, Written, At, Saved, RequestOK
  <2>. QED
    BY <1>a, <2>1, <2>2, <2>3, CopiesFrame
<1>10. ASSUME NEW w \in Workers, PostGetHits(w) PROVE CopiesInv'
  <2>1. Went(w, Going(w, "postSet", req[w].user))
    BY <1>10, Effects
  <2>2. UNCHANGED row
    BY <1>10 DEF PostGetHits
  <2>3. Copying(Going(w, "postSet", req[w].user)) /\ Here(w) \notin raced' => CopyOK(w, Going(w, "postSet", req[w].user))
    BY <1>0, <1>a, <1>10 DEF PostGetHits, With, Going, Copying, CopyOK, Written, At, Saved, RequestOK
  <2>. QED
    BY <1>a, <2>1, <2>2, <2>3, CopiesFrame
<1>11. ASSUME NEW w \in Workers, PostSet(w) PROVE CopiesInv'
  <2>1. Went(w, AfterSave(w))
    BY <1>11, Effects
  <2>2. UNCHANGED row
    BY <1>11 DEF PostSet
  <2>3. Copying(AfterSave(w)) /\ Here(w) \notin raced' => CopyOK(w, AfterSave(w))
    BY <1>0, <1>a, <1>11 DEF PostSet, With, AfterSave, Copying, CopyOK, Written, At, Saved, RequestOK
  <2>. QED
    BY <1>a, <2>1, <2>2, <2>3, CopiesFrame
<1>12. ASSUME NEW w \in Workers, StoreUser(w) PROVE CopiesInv'
  <2>1. Went(w, Idle)
    BY <1>12, Effects
  <2>2. UNCHANGED row
    BY <1>12 DEF StoreUser
  <2>3. Copying(Idle) /\ Here(w) \notin raced' => CopyOK(w, Idle)
    BY <1>0, <1>a, <1>12 DEF StoreUser, Idle, Copying, CopyOK, Written, At, Saved, RequestOK
  <2>. QED
    BY <1>a, <2>1, <2>2, <2>3, CopiesFrame
<1>13. ASSUME NEW w \in Workers, NEW c \in Clusters, Notify(w, c) PROVE CopiesInv'
  <2>1. Went(w, Telling(w, req[w].todo \ {c}))
    BY <1>13, Effects
  <2>2. UNCHANGED row
    BY <1>13 DEF Notify
  <2>3. Copying(Telling(w, req[w].todo \ {c})) /\ Here(w) \notin raced' => CopyOK(w, Telling(w, req[w].todo \ {c}))
    BY <1>0, <1>a, <1>13 DEF Notify, With, Telling, Copying, CopyOK, Written, At, Saved, RequestOK
  <2>. QED
    BY <1>a, <2>1, <2>2, <2>3, CopiesFrame
<1>14. ASSUME NEW w \in Workers, ProfileDone(w) PROVE CopiesInv'
  <2>1. Went(w, Idle)
    BY <1>14, Effects
  <2>2. UNCHANGED row
    BY <1>14 DEF ProfileDone
  <2>3. Copying(Idle) /\ Here(w) \notin raced' => CopyOK(w, Idle)
    BY <1>0, <1>a, <1>14 DEF ProfileDone, Idle, Copying, CopyOK, Written, At, Saved, RequestOK
  <2>. QED
    BY <1>a, <2>1, <2>2, <2>3, CopiesFrame
<1>15. ASSUME NEW w \in Workers, Commit(w) PROVE CopiesInv'
  <2>1. Went(w, Idle)
    BY <1>15, Effects
  <2>2. Holding(w) \subseteq raced'
    BY <1>15 DEF Commit
  <2>3. ~Copying(Idle)
    BY DEF Idle, Copying
  <2>. QED
    BY <2>1, <2>2, <2>3, CopiesRace
<1>16. ASSUME NEW w \in Workers, AnswerCached(w) PROVE CopiesInv'
  <2>1. Went(w, Showing(w, answers[w][req[w].user.staff]))
    BY <1>16, Effects
  <2>2. UNCHANGED row
    BY <1>16 DEF AnswerCached
  <2>3. Copying(Showing(w, answers[w][req[w].user.staff])) /\ Here(w) \notin raced' => CopyOK(w, Showing(w, answers[w][req[w].user.staff]))
    BY <1>0, <1>a, <1>16 DEF AnswerCached, With, Showing, Copying, CopyOK, Written, At, Saved, RequestOK
  <2>. QED
    BY <1>a, <2>1, <2>2, <2>3, CopiesFrame
<1>17. ASSUME NEW w \in Workers, AnswerMade(w) PROVE CopiesInv'
  <2>1. Went(w, Showing(w, NewAnswer(req[w].user)))
    BY <1>17, Effects
  <2>2. UNCHANGED row
    BY <1>17 DEF AnswerMade
  <2>3. Copying(Showing(w, NewAnswer(req[w].user))) /\ Here(w) \notin raced' => CopyOK(w, Showing(w, NewAnswer(req[w].user)))
    BY <1>0, <1>a, <1>17 DEF AnswerMade, With, Showing, Copying, CopyOK, Written, At, Saved, RequestOK
  <2>. QED
    BY <1>a, <2>1, <2>2, <2>3, CopiesFrame
<1>18. ASSUME NEW w \in Workers, Respond(w) PROVE CopiesInv'
  <2>1. Went(w, Idle)
    BY <1>18, Effects
  <2>2. UNCHANGED row
    BY <1>18 DEF Respond
  <2>3. Copying(Idle) /\ Here(w) \notin raced' => CopyOK(w, Idle)
    BY <1>0, <1>a, <1>18 DEF Respond, Idle, Copying, CopyOK, Written, At, Saved, RequestOK
  <2>. QED
    BY <1>a, <2>1, <2>2, <2>3, CopiesFrame
<1>19. ASSUME NEW w \in Workers, GetFails(w) PROVE CopiesInv'
  <2>1. Went(w, Going(w, "read", req[w].user))
    BY <1>19, Effects
  <2>2. UNCHANGED row
    BY <1>19 DEF GetFails
  <2>3. Copying(Going(w, "read", req[w].user)) /\ Here(w) \notin raced' => CopyOK(w, Going(w, "read", req[w].user))
    BY <1>0, <1>a, <1>19 DEF GetFails, With, Going, Copying, CopyOK, Written, At, Saved, RequestOK
  <2>. QED
    BY <1>a, <2>1, <2>2, <2>3, CopiesFrame
<1>20. ASSUME NEW w \in Workers, SetFails(w) PROVE CopiesInv'
  <2>1. Went(w, Going(w, AfterLoad(w), req[w].user))
    BY <1>20, Effects
  <2>2. UNCHANGED row
    BY <1>20 DEF SetFails
  <2>3. Copying(Going(w, AfterLoad(w), req[w].user)) /\ Here(w) \notin raced' => CopyOK(w, Going(w, AfterLoad(w), req[w].user))
    BY <1>0, <1>a, <1>20 DEF SetFails, With, Going, AfterLoad, Copying, CopyOK, Written, At, Saved, RequestOK
  <2>. QED
    BY <1>a, <2>1, <2>2, <2>3, CopiesFrame
<1>21. ASSUME NEW w \in Workers, Rollback(w) PROVE CopiesInv'
  <2>1. Went(w, Idle)
    BY <1>21, Effects
  <2>2. ASSUME NEW v \in Workers, Copying(req'[v]) PROVE Here(v) \in raced'
    <3>1. v # w
      BY <2>1, <2>2 DEF Went, Idle, Copying
    <3>2. owner = w /\ req'[v] = req[v]
      BY <1>21, <2>1, <3>1 DEF Rollback, Went
    <3>. QED
      BY <1>0, <1>a, <2>2, <3>1, <3>2 DEF CopyOK
  <2>. QED
    BY <2>2 DEF CopiesInv, Here
<1>22. ASSUME NEW w \in Workers, NEW c \in Clusters, NotifyFails(w, c) PROVE CopiesInv'
  <2>1. Went(w, Telling(w, req[w].todo \ {c}))
    BY <1>22, Effects
  <2>2. UNCHANGED row
    BY <1>22 DEF NotifyFails
  <2>3. Copying(Telling(w, req[w].todo \ {c})) /\ Here(w) \notin raced' => CopyOK(w, Telling(w, req[w].todo \ {c}))
    BY <1>0, <1>a, <1>22 DEF NotifyFails, With, Telling, Copying, CopyOK, Written, At, Saved, RequestOK
  <2>. QED
    BY <1>a, <2>1, <2>2, <2>3, CopiesFrame
<1>23. ASSUME NEW w \in Workers, NEW k \in Kinds, Begin(w, k) PROVE CopiesInv'
  <2>1. Went(w, [Idle EXCEPT !.kind = k, !.pc = IF k \in {"auth", "profile"} THEN "get" ELSE "readRow"])
    BY <1>23, Effects
  <2>2. UNCHANGED row
    BY <1>23 DEF Begin
  <2>3. Copying([Idle EXCEPT !.kind = k, !.pc = IF k \in {"auth", "profile"} THEN "get" ELSE "readRow"]) /\ Here(w) \notin raced' => CopyOK(w, [Idle EXCEPT !.kind = k, !.pc = IF k \in {"auth", "profile"} THEN "get" ELSE "readRow"])
    BY <1>0, <1>a, <1>23 DEF Begin, Idle, Copying, CopyOK, Written, At, Saved, RequestOK
  <2>. QED
    BY <1>a, <2>1, <2>2, <2>3, CopiesFrame
<1>24. ASSUME NEW c \in Clusters, Expire(c) PROVE CopiesInv'
  BY <1>24 DEF Expire, CopiesInv, CopyOK, Written, row, past, Here
<1>25. ASSUME NEW w \in Workers, NEW s \in BOOLEAN, AnswerExpires(w, s) PROVE CopiesInv'
  BY <1>25 DEF AnswerExpires, CopiesInv, CopyOK, Written, row, past, Here
<1>26. CASE UNCHANGED vars
  BY <1>26 DEF vars, row, past, CopiesInv, CopyOK, Written, Here
<1>27. ASSUME NEW w \in Workers, PostFails(w) PROVE CopiesInv'
  <2>1. Went(w, Idle)
    BY <1>27, Effects
  <2>2. UNCHANGED row
    BY <1>27 DEF PostFails
  <2>3. Copying(Idle) /\ Here(w) \notin raced' => CopyOK(w, Idle)
    BY <1>0, <1>a, <1>27 DEF PostFails, Idle, Copying, CopyOK, Written, At, Saved, RequestOK
  <2>. QED
    BY <1>a, <2>1, <2>2, <2>3, CopiesFrame
<1>28. ASSUME NEW w \in Workers, StoreFails(w) PROVE CopiesInv'
  <2>1. Went(w, Idle)
    BY <1>28, Effects
  <2>2. UNCHANGED row
    BY <1>28 DEF StoreFails
  <2>3. Copying(Idle) /\ Here(w) \notin raced' => CopyOK(w, Idle)
    BY <1>0, <1>a, <1>28 DEF StoreFails, Idle, Copying, CopyOK, Written, At, Saved, RequestOK
  <2>. QED
    BY <1>a, <2>1, <2>2, <2>3, CopiesFrame
<1>. QED
  BY <1>1, <1>2, <1>3, <1>4, <1>5, <1>6, <1>7, <1>8, <1>9, <1>10, <1>11, <1>12, <1>13, <1>14, <1>15, <1>16, <1>17, <1>18, <1>19, <1>20, <1>21, <1>22, <1>23, <1>24, <1>25, <1>26, <1>27, <1>28 DEF Next, Step, Failure

LEMMA OthersOwe ==
  ASSUME NEW w \in Workers, NEW q, Went(w, q), NEW c,
         \E v \in Workers \ {w} : Owes(v, req[v], c)
  PROVE  \E v \in Workers : Owes(v, req'[v], c)
BY DEF Went

(* A step that changes no row keeps what it owes, or deletes what is cached.*)
LEMMA CacheFrame ==
  ASSUME NEW w \in Workers, NEW q, Went(w, q), NEW c \in Clusters, CacheOK(c),
         owner \in Workers \cup {None}, UNCHANGED row, cached'[c] \in {None, cached[c]},
         owner = w => (HasTold(q, c) <=> HasTold(req[w], c)),
         Owes(w, req[w], c) /\ cached'[c] # None => Owes(w, q, c)
  PROVE  CacheOK(c)'
<1>1. Told(c)' <=> Told(c)
  <2>1. CASE owner = w
    BY <2>1 DEF Told, Went, row
  <2>2. CASE owner # w
    BY <2>2 DEF Told, Went, row
  <2>. QED
    BY <2>1, <2>2
<1>2. CASE cached'[c] = None
  BY <1>2 DEF CacheOK
<1>3. CASE cached'[c] = cached[c] /\ cached[c] # None /\ Told(c)
  BY <1>1, <1>3 DEF CacheOK, row, Here
<1>4. CASE cached'[c] = cached[c] /\ cached[c] # None /\ ~Told(c)
  <2>1. CASE cached[c] = db
    BY <1>1, <1>4, <2>1 DEF CacheOK, row
  <2>2. CASE Owes(w, req[w], c)
    <3>1. Owes(w, req'[w], c)
      BY <1>4, <2>2 DEF Went
    <3>2. Owes(w, req[w], c)'
      BY <3>1 DEF Owes, Here
    <3>. QED
      BY <1>1, <1>4, <3>2 DEF CacheOK
  <2>3. CASE \E v \in Workers \ {w} : Owes(v, req[v], c)
    <3>1. \E v \in Workers : Owes(v, req'[v], c)
      BY <2>3, OthersOwe
    <3>2. \E v \in Workers : Owes(v, req[v], c)'
      BY <3>1 DEF Owes, Here
    <3>. QED
      BY <1>1, <1>4, <3>2 DEF CacheOK
  <2>. QED
    BY <1>4, <2>1, <2>2, <2>3 DEF CacheOK
<1>. QED
  BY <1>2, <1>3, <1>4

LEMMA CachedStep ==
  ASSUME Shapes, RequestsOK, OwnerInv, CopiesInv, CachedInv, [Next]_vars
  PROVE  CachedInv'
<1>. USE UserCacheAssumption, NoRecord
<1>0. ASSUME NEW w \in Workers
      PROVE  /\ RequestOK(req[w]) /\ (Saved(req[w]) <=> owner = w) /\ w # None
             /\ Copying(req[w]) /\ Here(w) \notin raced => CopyOK(w, req[w])
             /\ Here(w) \in Clusters /\ req[w].kind \in Kinds
  BY DEF RequestsOK, OwnerInv, CopiesInv, Shapes, Here, Request
<1>a. raced \subseteq raced' /\ owner \in Workers \cup {None} /\ DOMAIN cached = Clusters
  BY RacedGrows DEF Shapes
<1>b. SUFFICES ASSUME NEW c \in Clusters, c \notin raced' PROVE CacheOK(c)'
  BY DEF CachedInv
<1>c. c \notin raced /\ CacheOK(c)
  BY <1>a, <1>b DEF CachedInv
<1>1. ASSUME NEW w \in Workers, GetHits(w) PROVE CacheOK(c)'
  <2>1. Went(w, Going(w, AfterLoad(w), cached[Here(w)]))
    BY <1>1, Effects
  <2>2. UNCHANGED <<row, cached>>
    BY <1>1 DEF GetHits
  <2>3. owner = w => (HasTold(Going(w, AfterLoad(w), cached[Here(w)]), c) <=> HasTold(req[w], c))
    BY <1>0, <1>1 DEF GetHits, With, Going, AfterLoad, At, Saved, HasTold, Notified
  <2>4. Owes(w, req[w], c) => Owes(w, Going(w, AfterLoad(w), cached[Here(w)]), c)
    BY <1>0, <1>1 DEF GetHits, With, Going, AfterLoad, At, Owes, RequestOK, Notified
  <2>. QED
    BY <1>a, <1>c, <2>1, <2>2, <2>3, <2>4, CacheFrame
<1>2. ASSUME NEW w \in Workers, GetMisses(w) PROVE CacheOK(c)'
  <2>1. Went(w, Going(w, "read", req[w].user))
    BY <1>2, Effects
  <2>2. UNCHANGED <<row, cached>>
    BY <1>2 DEF GetMisses
  <2>3. owner = w => (HasTold(Going(w, "read", req[w].user), c) <=> HasTold(req[w], c))
    BY <1>0, <1>2 DEF GetMisses, With, Going, At, Saved, HasTold, Notified
  <2>4. Owes(w, req[w], c) => Owes(w, Going(w, "read", req[w].user), c)
    BY <1>0, <1>2 DEF GetMisses, With, Going, At, Owes, RequestOK, Notified
  <2>. QED
    BY <1>a, <1>c, <2>1, <2>2, <2>3, <2>4, CacheFrame
<1>3. ASSUME NEW w \in Workers, ReadUser(w) PROVE CacheOK(c)'
  <2>1. Went(w, Going(w, "set", db))
    BY <1>3, Effects
  <2>2. UNCHANGED <<row, cached>>
    BY <1>3 DEF ReadUser
  <2>3. owner = w => (HasTold(Going(w, "set", db), c) <=> HasTold(req[w], c))
    BY <1>0, <1>3 DEF ReadUser, With, Going, At, Saved, HasTold, Notified
  <2>4. Owes(w, req[w], c) => Owes(w, Going(w, "set", db), c)
    BY <1>0, <1>3 DEF ReadUser, With, Going, At, Owes, RequestOK, Notified
  <2>. QED
    BY <1>a, <1>c, <2>1, <2>2, <2>3, <2>4, CacheFrame
<1>4. ASSUME NEW w \in Workers, SetUser(w) PROVE CacheOK(c)'
  <2>1. Went(w, Going(w, AfterLoad(w), req[w].user))
    BY <1>4, Effects
  <2>2. CASE c = Here(w)
    <3>1. CopyOK(w, req[w]) /\ cached'[c] = req[w].user /\ UNCHANGED row
      BY <1>0, <1>a, <1>c, <1>4, <2>2 DEF SetUser, At, Copying
    <3>2. CASE owner = None
      BY <1>0, <3>1, <3>2 DEF CacheOK, CopyOK, Written, Told, row
    <3>3. CASE owner = w
      BY <1>0, <1>4, <3>3 DEF SetUser, At, Saved
    <3>. QED
      BY <3>1, <3>2, <3>3 DEF CopyOK
  <2>3. CASE c # Here(w)
    <3>1. cached'[c] = cached[c] /\ UNCHANGED row
      BY <1>a, <1>4, <2>3 DEF SetUser
    <3>2. owner = w => (HasTold(Going(w, AfterLoad(w), req[w].user), c) <=> HasTold(req[w], c))
      BY <1>0, <1>4, <2>3 DEF SetUser, With, Going, AfterLoad, At, Saved, HasTold
    <3>3. Owes(w, req[w], c) => Owes(w, Going(w, AfterLoad(w), req[w].user), c)
      BY <1>0, <1>4, <2>3 DEF SetUser, With, Going, AfterLoad, At, Owes, RequestOK
    <3>. QED
      BY <1>a, <1>c, <2>1, <3>1, <3>2, <3>3, CacheFrame
  <2>. QED
    BY <2>2, <2>3
<1>5. ASSUME NEW w \in Workers, ReadRow(w) PROVE CacheOK(c)'
  <2>1. Went(w, Going(w, "write", db))
    BY <1>5, Effects
  <2>2. UNCHANGED <<row, cached>>
    BY <1>5 DEF ReadRow
  <2>3. owner = w => (HasTold(Going(w, "write", db), c) <=> HasTold(req[w], c))
    BY <1>0, <1>5 DEF ReadRow, With, Going, At, Saved, HasTold, Notified
  <2>4. Owes(w, req[w], c) => Owes(w, Going(w, "write", db), c)
    BY <1>0, <1>5 DEF ReadRow, With, Going, At, Owes, RequestOK, Notified
  <2>. QED
    BY <1>a, <1>c, <2>1, <2>2, <2>3, <2>4, CacheFrame
<1>6. ASSUME NEW w \in Workers, NEW s \in BOOLEAN, WriteProfile(w, s) PROVE CacheOK(c)'
  <2>1. Went(w, Going(w, "postGet", [modified |-> now + 1, staff |-> req[w].user.staff \/ s]))
    BY <1>6, Effects
  <2>2. ~Told(c)'
    BY <1>6 DEF WriteProfile, Told, OwnerInv
  <2>4. Owes(w, Going(w, "postGet", [modified |-> now + 1, staff |-> req[w].user.staff \/ s]), c)
    BY <1>6 DEF WriteProfile, Owes, With, Going
  <2>5. Owes(w, req[w], c)'
    BY <2>1, <2>4 DEF Went, Owes, Here
  <2>. QED
    BY <2>2, <2>5 DEF CacheOK
<1>7. ASSUME NEW w \in Workers, NEW s \in BOOLEAN, WriteSignin(w, s) PROVE CacheOK(c)'
  <2>1. Went(w, Going(w, "postGet", [req[w].user EXCEPT !.staff = s]))
    BY <1>7, Effects
  <2>2. ~Told(c)'
    BY <1>7 DEF WriteSignin, Told, OwnerInv
  <2>3. c = Here(w)
    BY <1>7, <1>b DEF WriteSignin
  <2>4. Owes(w, Going(w, "postGet", [req[w].user EXCEPT !.staff = s]), c)
    BY <1>7, <2>3 DEF WriteSignin, Owes, With, Going
  <2>5. Owes(w, req[w], c)'
    BY <2>1, <2>4 DEF Went, Owes, Here
  <2>. QED
    BY <2>2, <2>5 DEF CacheOK
<1>8. ASSUME NEW w \in Workers, NEW s \in BOOLEAN, WriteAdmin(w, s) PROVE CacheOK(c)'
  <2>1. Went(w, Going(w, "postGet", [modified |-> now + 1, staff |-> s]))
    BY <1>8, Effects
  <2>2. ~Told(c) /\ ~Told(c)'
    BY <1>8, <2>1 DEF WriteAdmin, Told, OwnerInv, Went, With, Going, HasTold
  <2>3. ~Owes(w, req[w], c) /\ UNCHANGED <<db, cached>>
    BY <1>8 DEF WriteAdmin, At, Owes
  <2>4. CASE cached[c] \in {None, db}
    BY <2>2, <2>3, <2>4 DEF CacheOK
  <2>5. CASE \E v \in Workers \ {w} : Owes(v, req[v], c)
    <3>1. \E v \in Workers : Owes(v, req[v], c)'
      BY <2>1, <2>5, OthersOwe DEF Owes, Here
    <3>. QED
      BY <2>2, <3>1 DEF CacheOK
  <2>. QED
    BY <1>c, <2>2, <2>3, <2>4, <2>5 DEF CacheOK
<1>9. ASSUME NEW w \in Workers, PostGetMisses(w) PROVE CacheOK(c)'
  <2>1. Went(w, AfterSave(w))
    BY <1>9, Effects
  <2>2. UNCHANGED <<row, cached>> /\ At(w, "postGet")
    BY <1>9 DEF PostGetMisses
  <2>3. CASE c = Here(w)
    BY <1>9, <2>2, <2>3 DEF PostGetMisses, CacheOK
  <2>4. CASE c # Here(w)
    <3>2. owner = w => (HasTold(AfterSave(w), c) <=> HasTold(req[w], c))
      BY <1>0, <2>2, <2>4 DEF With, AfterSave, At, Saved, HasTold
    <3>3. Owes(w, req[w], c) => Owes(w, AfterSave(w), c)
      BY <1>0, <2>2, <2>4 DEF With, AfterSave, At, Owes, RequestOK
    <3>. QED
      BY <1>a, <1>c, <2>1, <2>2, <3>2, <3>3, CacheFrame
  <2>. QED
    BY <2>3, <2>4
<1>10. ASSUME NEW w \in Workers, PostGetHits(w) PROVE CacheOK(c)'
  <2>1. Went(w, Going(w, "postSet", req[w].user))
    BY <1>10, Effects
  <2>2. UNCHANGED <<row, cached>>
    BY <1>10 DEF PostGetHits
  <2>3. owner = w => (HasTold(Going(w, "postSet", req[w].user), c) <=> HasTold(req[w], c))
    BY <1>0, <1>10 DEF PostGetHits, With, Going, At, Saved, HasTold, Notified
  <2>4. Owes(w, req[w], c) => Owes(w, Going(w, "postSet", req[w].user), c)
    BY <1>0, <1>10 DEF PostGetHits, With, Going, At, Owes, RequestOK, Notified
  <2>. QED
    BY <1>a, <1>c, <2>1, <2>2, <2>3, <2>4, CacheFrame
<1>11. ASSUME NEW w \in Workers, PostSet(w) PROVE CacheOK(c)'
  <2>1. Went(w, AfterSave(w))
    BY <1>11, Effects
  <2>2. CASE c = Here(w)
    <3>1. CopyOK(w, req[w]) /\ cached'[c] = req[w].user /\ UNCHANGED row
      BY <1>0, <1>a, <1>c, <1>11, <2>2 DEF PostSet, At, Copying
    <3>2. CASE owner = None
      BY <1>0, <3>1, <3>2 DEF CacheOK, CopyOK, Written, Told, row
    <3>3. CASE owner = w
      <4>1. HasTold(AfterSave(w), c)
        BY <1>0, <2>2, <3>3 DEF With, AfterSave, HasTold, Saved
      <4>2. Told(c)'
        BY <1>0, <2>1, <3>1, <3>3, <4>1 DEF Told, Went, row
      <4>. QED
        BY <2>2, <3>1, <3>3, <4>2 DEF CacheOK, CopyOK, Written, row, Here
    <3>. QED
      BY <3>1, <3>2, <3>3 DEF CopyOK
  <2>3. CASE c # Here(w)
    <3>1. cached'[c] = cached[c] /\ UNCHANGED row
      BY <1>a, <1>11, <2>3 DEF PostSet
    <3>2. owner = w => (HasTold(AfterSave(w), c) <=> HasTold(req[w], c))
      BY <1>0, <1>11, <2>3 DEF PostSet, With, AfterSave, At, Saved, HasTold
    <3>3. Owes(w, req[w], c) => Owes(w, AfterSave(w), c)
      BY <1>0, <1>11, <2>3 DEF PostSet, With, AfterSave, At, Owes, RequestOK
    <3>. QED
      BY <1>a, <1>c, <2>1, <3>1, <3>2, <3>3, CacheFrame
  <2>. QED
    BY <2>2, <2>3
<1>12. ASSUME NEW w \in Workers, StoreUser(w) PROVE CacheOK(c)'
  <2>1. Went(w, Idle)
    BY <1>12, Effects
  <2>2. CASE c = Here(w)
    <3>1. CopyOK(w, req[w]) /\ cached'[c] = req[w].user /\ UNCHANGED row
      BY <1>0, <1>a, <1>c, <1>12, <2>2 DEF StoreUser, At, Copying
    <3>2. CASE owner = None
      BY <1>0, <3>1, <3>2 DEF CacheOK, CopyOK, Written, Told, row
    <3>3. CASE owner = w
      BY <1>0, <1>12, <3>3 DEF StoreUser, At, Saved
    <3>. QED
      BY <3>1, <3>2, <3>3 DEF CopyOK
  <2>3. CASE c # Here(w)
    <3>1. cached'[c] = cached[c] /\ UNCHANGED row
      BY <1>a, <1>12, <2>3 DEF StoreUser
    <3>2. owner = w => (HasTold(Idle, c) <=> HasTold(req[w], c))
      BY <1>0, <1>12, <2>3 DEF StoreUser, Idle, At, Saved, HasTold
    <3>3. Owes(w, req[w], c) => Owes(w, Idle, c)
      BY <1>0, <1>12, <2>3 DEF StoreUser, Idle, At, Owes, RequestOK
    <3>. QED
      BY <1>a, <1>c, <2>1, <3>1, <3>2, <3>3, CacheFrame
  <2>. QED
    BY <2>2, <2>3
<1>13. ASSUME NEW w \in Workers, NEW d \in Clusters, Notify(w, d) PROVE CacheOK(c)'
  <2>1. Went(w, Telling(w, req[w].todo \ {d}))
    BY <1>13, Effects
  <2>2. CASE c = d
    BY <1>a, <1>13, <2>2 DEF Notify, CacheOK
  <2>3. CASE c # d
    <3>1. cached'[c] = cached[c] /\ UNCHANGED row /\ At(w, "notify")
      BY <1>a, <1>13, <2>3 DEF Notify
    <3>2. HasTold(Telling(w, req[w].todo \ {d}), c) <=> HasTold(req[w], c)
      BY <2>3, <3>1 DEF With, Telling, At, HasTold
    <3>3. Owes(w, req[w], c) => Owes(w, Telling(w, req[w].todo \ {d}), c)
      BY <2>3, <3>1 DEF With, Telling, At, Owes
    <3>. QED
      BY <1>a, <1>c, <2>1, <3>1, <3>2, <3>3, CacheFrame
  <2>. QED
    BY <2>2, <2>3
<1>14. ASSUME NEW w \in Workers, ProfileDone(w) PROVE CacheOK(c)'
  <2>1. Went(w, Idle)
    BY <1>14, Effects
  <2>2. UNCHANGED <<row, cached>>
    BY <1>14 DEF ProfileDone
  <2>3. owner = w => (HasTold(Idle, c) <=> HasTold(req[w], c))
    BY <1>0, <1>14 DEF ProfileDone, Idle, At, Saved, HasTold, Notified
  <2>4. Owes(w, req[w], c) => Owes(w, Idle, c)
    BY <1>0, <1>14 DEF ProfileDone, Idle, At, Owes, RequestOK, Notified
  <2>. QED
    BY <1>a, <1>c, <2>1, <2>2, <2>3, <2>4, CacheFrame
<1>15. ASSUME NEW w \in Workers, Commit(w) PROVE CacheOK(c)'
  <2>1. Went(w, Idle)
    BY <1>15, Effects
  <2>2. Told(c) /\ cached'[c] = cached[c] /\ db' = txn /\ owner' = None
    BY <1>0, <1>15 DEF Commit, Notified, At, Told, HasTold
  <2>. QED
    BY <1>c, <2>2 DEF CacheOK, Told
<1>16. ASSUME NEW w \in Workers, AnswerCached(w) PROVE CacheOK(c)'
  <2>1. Went(w, Showing(w, answers[w][req[w].user.staff]))
    BY <1>16, Effects
  <2>2. UNCHANGED <<row, cached>>
    BY <1>16 DEF AnswerCached
  <2>3. owner = w => (HasTold(Showing(w, answers[w][req[w].user.staff]), c) <=> HasTold(req[w], c))
    BY <1>0, <1>16 DEF AnswerCached, With, Showing, At, Saved, HasTold, Notified
  <2>4. Owes(w, req[w], c) => Owes(w, Showing(w, answers[w][req[w].user.staff]), c)
    BY <1>0, <1>16 DEF AnswerCached, With, Showing, At, Owes, RequestOK, Notified
  <2>. QED
    BY <1>a, <1>c, <2>1, <2>2, <2>3, <2>4, CacheFrame
<1>17. ASSUME NEW w \in Workers, AnswerMade(w) PROVE CacheOK(c)'
  <2>1. Went(w, Showing(w, NewAnswer(req[w].user)))
    BY <1>17, Effects
  <2>2. UNCHANGED <<row, cached>>
    BY <1>17 DEF AnswerMade
  <2>3. owner = w => (HasTold(Showing(w, NewAnswer(req[w].user)), c) <=> HasTold(req[w], c))
    BY <1>0, <1>17 DEF AnswerMade, With, Showing, At, Saved, HasTold, Notified
  <2>4. Owes(w, req[w], c) => Owes(w, Showing(w, NewAnswer(req[w].user)), c)
    BY <1>0, <1>17 DEF AnswerMade, With, Showing, At, Owes, RequestOK, Notified
  <2>. QED
    BY <1>a, <1>c, <2>1, <2>2, <2>3, <2>4, CacheFrame
<1>18. ASSUME NEW w \in Workers, Respond(w) PROVE CacheOK(c)'
  <2>1. Went(w, Idle)
    BY <1>18, Effects
  <2>2. UNCHANGED <<row, cached>>
    BY <1>18 DEF Respond
  <2>3. owner = w => (HasTold(Idle, c) <=> HasTold(req[w], c))
    BY <1>0, <1>18 DEF Respond, Idle, At, Saved, HasTold, Notified
  <2>4. Owes(w, req[w], c) => Owes(w, Idle, c)
    BY <1>0, <1>18 DEF Respond, Idle, At, Owes, RequestOK, Notified
  <2>. QED
    BY <1>a, <1>c, <2>1, <2>2, <2>3, <2>4, CacheFrame
<1>19. ASSUME NEW w \in Workers, GetFails(w) PROVE CacheOK(c)'
  <2>1. Went(w, Going(w, "read", req[w].user))
    BY <1>19, Effects
  <2>2. UNCHANGED <<row, cached>>
    BY <1>19 DEF GetFails
  <2>3. owner = w => (HasTold(Going(w, "read", req[w].user), c) <=> HasTold(req[w], c))
    BY <1>0, <1>19 DEF GetFails, With, Going, At, Saved, HasTold, Notified
  <2>4. Owes(w, req[w], c) => Owes(w, Going(w, "read", req[w].user), c)
    BY <1>0, <1>19 DEF GetFails, With, Going, At, Owes, RequestOK, Notified
  <2>. QED
    BY <1>a, <1>c, <2>1, <2>2, <2>3, <2>4, CacheFrame
<1>20. ASSUME NEW w \in Workers, SetFails(w) PROVE CacheOK(c)'
  <2>1. Went(w, Going(w, AfterLoad(w), req[w].user))
    BY <1>20, Effects
  <2>2. UNCHANGED <<row, cached>>
    BY <1>20 DEF SetFails
  <2>3. owner = w => (HasTold(Going(w, AfterLoad(w), req[w].user), c) <=> HasTold(req[w], c))
    BY <1>0, <1>20 DEF SetFails, With, Going, AfterLoad, At, Saved, HasTold, Notified
  <2>4. Owes(w, req[w], c) => Owes(w, Going(w, AfterLoad(w), req[w].user), c)
    BY <1>0, <1>20 DEF SetFails, With, Going, AfterLoad, At, Owes, RequestOK, Notified
  <2>. QED
    BY <1>a, <1>c, <2>1, <2>2, <2>3, <2>4, CacheFrame
<1>21. ASSUME NEW w \in Workers, Rollback(w) PROVE CacheOK(c)'
  <2>1. Went(w, Idle)
    BY <1>21, Effects
  <2>2. /\ owner = w /\ owner' = None /\ c # Here(w) /\ cached'[c] = cached[c] /\ db' = db
        /\ ~Told(c)'
    BY <1>b, <1>21 DEF Rollback, Told
  <2>3. CASE Told(c)
    BY <1>c, <2>2, <2>3 DEF CacheOK
  <2>4. CASE cached[c] \in {None, db}
    BY <2>2, <2>4 DEF CacheOK
  <2>5. ~Owes(w, req[w], c)
    BY <1>0, <2>2 DEF Saved, Owes
  <2>6. CASE \E v \in Workers \ {w} : Owes(v, req[v], c)
    <3>1. \E v \in Workers : Owes(v, req[v], c)'
      BY <2>1, <2>6, OthersOwe DEF Owes, Here
    <3>. QED
      BY <2>2, <3>1 DEF CacheOK
  <2>. QED
    BY <1>c, <2>3, <2>4, <2>5, <2>6 DEF CacheOK
<1>22. ASSUME NEW w \in Workers, NEW d \in Clusters, NotifyFails(w, d) PROVE CacheOK(c)'
  <2>1. Went(w, Telling(w, req[w].todo \ {d}))
    BY <1>22, Effects
  <2>2. CASE c = d
    BY <1>b, <1>22, <2>2 DEF NotifyFails
  <2>3. CASE c # d
    <3>1. cached'[c] = cached[c] /\ UNCHANGED row /\ At(w, "notify")
      BY <1>a, <1>22, <2>3 DEF NotifyFails
    <3>2. HasTold(Telling(w, req[w].todo \ {d}), c) <=> HasTold(req[w], c)
      BY <2>3, <3>1 DEF With, Telling, At, HasTold
    <3>3. Owes(w, req[w], c) => Owes(w, Telling(w, req[w].todo \ {d}), c)
      BY <2>3, <3>1 DEF With, Telling, At, Owes
    <3>. QED
      BY <1>a, <1>c, <2>1, <3>1, <3>2, <3>3, CacheFrame
  <2>. QED
    BY <2>2, <2>3
<1>23. ASSUME NEW w \in Workers, NEW k \in Kinds, Begin(w, k) PROVE CacheOK(c)'
  <2>1. Went(w, [Idle EXCEPT !.kind = k, !.pc = IF k \in {"auth", "profile"} THEN "get" ELSE "readRow"])
    BY <1>23, Effects
  <2>2. UNCHANGED <<row, cached>>
    BY <1>23 DEF Begin
  <2>3. owner = w => (HasTold([Idle EXCEPT !.kind = k, !.pc = IF k \in {"auth", "profile"} THEN "get" ELSE "readRow"], c) <=> HasTold(req[w], c))
    BY <1>0, <1>23 DEF Begin, Idle, At, Saved, HasTold, Notified
  <2>4. Owes(w, req[w], c) => Owes(w, [Idle EXCEPT !.kind = k, !.pc = IF k \in {"auth", "profile"} THEN "get" ELSE "readRow"], c)
    BY <1>0, <1>23 DEF Begin, Idle, At, Owes, RequestOK, Notified
  <2>. QED
    BY <1>a, <1>c, <2>1, <2>2, <2>3, <2>4, CacheFrame
<1>24. ASSUME NEW d \in Clusters, Expire(d) PROVE CacheOK(c)'
  <2>1. UNCHANGED <<row, req>> /\ cached'[c] \in {None, cached[c]}
    BY <1>24, <1>a DEF Expire
  <2>. QED
    BY <2>1, <1>c DEF CacheOK, Told, Owes, Here, row
<1>25. ASSUME NEW w \in Workers, NEW s \in BOOLEAN, AnswerExpires(w, s) PROVE CacheOK(c)'
  BY <1>25, <1>c DEF AnswerExpires, CacheOK, Told, Owes, Here, row
<1>26. CASE UNCHANGED vars
  BY <1>26, <1>c DEF vars, row, CacheOK, Told, Owes, Here
<1>27. ASSUME NEW w \in Workers, PostFails(w) PROVE CacheOK(c)'
  BY <1>a, <1>b, <1>27 DEF PostFails
<1>28. ASSUME NEW w \in Workers, StoreFails(w) PROVE CacheOK(c)'
  <2>1. Went(w, Idle)
    BY <1>28, Effects
  <2>2. UNCHANGED <<row, cached>>
    BY <1>28 DEF StoreFails
  <2>3. owner = w => (HasTold(Idle, c) <=> HasTold(req[w], c))
    BY <1>0, <1>28 DEF StoreFails, Idle, At, Saved, HasTold, Notified
  <2>4. Owes(w, req[w], c) => Owes(w, Idle, c)
    BY <1>0, <1>28 DEF StoreFails, Idle, At, Owes, RequestOK, Notified
  <2>. QED
    BY <1>a, <1>c, <2>1, <2>2, <2>3, <2>4, CacheFrame
<1>. QED
  BY <1>1, <1>2, <1>3, <1>4, <1>5, <1>6, <1>7, <1>8, <1>9, <1>10, <1>11, <1>12, <1>13, <1>14, <1>15, <1>16, <1>17, <1>18, <1>19, <1>20, <1>21, <1>22, <1>23, <1>24, <1>25, <1>26, <1>27, <1>28 DEF Next, Step, Failure

(***************************************************************************)
(* Between requests, in any number of clusters and with workers that share  *)
(* one, what is cached is the committed record, unless the cluster missed a *)
(* change in one of the ways that raced names.                             *)
(***************************************************************************)
UsersInv == AnswersInv /\ CopiesInv /\ CachedInv

LEMMA UsersInit == Init => UsersInv
<1>. SUFFICES ASSUME Init PROVE UsersInv
  OBVIOUS
<1>1. CopiesInv
  BY DEF Init, CopiesInv, Copying, Idle
<1>2. CachedInv
  BY DEF Init, CachedInv, CacheOK, Told
<1>. QED
  BY <1>1, <1>2, AnswersInit DEF UsersInv

LEMMA UsersNext == UsersInv /\ [Next]_vars => UsersInv'
BY AnswersNext, CopiesStep, CachedStep DEF UsersInv, AnswersInv

LEMMA UsersCurrent == UsersInv => CachedUserCurrent
<1>. SUFFICES ASSUME UsersInv, \A w \in Workers : At(w, "idle"), NEW c \in Clusters \ raced
     PROVE  cached[c] \in {None, db}
  BY DEF CachedUserCurrent
<1>1. owner = None
  BY DEF UsersInv, AnswersInv, OwnerInv, Saved, At, Shapes
<1>2. \A w \in Workers : ~Owes(w, req[w], c)
  BY DEF At, Owes
<1>3. ~Told(c) /\ CacheOK(c)
  BY <1>1 DEF Told, UsersInv, CachedInv
<1>. QED
  BY <1>2, <1>3 DEF CacheOK

(***************************************************************************)
(* What patch.py, the receivers of models.py and user_changed of another    *)
(* cluster do together keeps the cached user the one in the database        *)
(* between requests, for every cluster that no race, sign-in, lost call,    *)
(* rollback or failure of Redis after the commit made miss a change.       *)
(***************************************************************************)
THEOREM CachedUsersCurrent == Spec => []CachedUserCurrent
<1>1. Spec => []UsersInv
  BY UsersInit, UsersNext, PTL DEF Spec
<1>. QED
  BY <1>1, UsersCurrent, PTL

-----------------------------------------------------------------------------
(* The clock ticks once for each request that has changed the record.      *)
LEMMA SavesFrame ==
  ASSUME SavesInv, NEW w \in Workers, NEW q, Went(w, q), Changing(q) <=> Changing(req[w]),
         UNCHANGED <<now, saves>>
  PROVE  SavesInv'
<1>1. Unwritten' = Unwritten
  BY DEF Unwritten, Went
<1>. QED
  BY <1>1 DEF SavesInv

LEMMA SavesWritten ==
  ASSUME Shapes, SavesInv, NEW w \in Workers, NEW q, Went(w, q), ~Changing(q), Changing(req[w]),
         now' \in {now, now + 1}, UNCHANGED saves
  PROVE  SavesInv'
<1>1. Unwritten' = Unwritten \ {w} /\ w \in Unwritten
  BY DEF Unwritten, Went
<1>2. /\ IsFiniteSet(Unwritten') /\ Cardinality(Unwritten') = Cardinality(Unwritten) - 1
      /\ Cardinality(Unwritten) \in Nat
  BY <1>1, FS_RemoveElement, FS_CardinalityType DEF SavesInv
<1>. QED
  BY <1>2 DEF SavesInv, Shapes

LEMMA SavesStep ==
  ASSUME Shapes, RequestsOK, OwnerInv, SavesInv, [Next]_vars
  PROVE  SavesInv'
<1>. USE UserCacheAssumption, NoRecord
<1>0. ASSUME NEW w \in Workers PROVE RequestOK(req[w]) /\ req[w].kind \in Kinds
  BY DEF RequestsOK, Shapes, Request
<1>1. ASSUME NEW w \in Workers, GetHits(w) PROVE SavesInv'
  <2>1. Went(w, Going(w, AfterLoad(w), cached[Here(w)]))
    BY <1>1, Effects
  <2>2. Changing(Going(w, AfterLoad(w), cached[Here(w)])) <=> Changing(req[w])
    BY <1>0, <1>1 DEF GetHits, With, Going, AfterLoad, At, Changing, RequestOK, Notified
  <2>. QED
    BY <1>1, <2>1, <2>2, SavesFrame DEF GetHits, counts
<1>2. ASSUME NEW w \in Workers, GetMisses(w) PROVE SavesInv'
  <2>1. Went(w, Going(w, "read", req[w].user))
    BY <1>2, Effects
  <2>2. Changing(Going(w, "read", req[w].user)) <=> Changing(req[w])
    BY <1>0, <1>2 DEF GetMisses, With, Going, At, Changing, RequestOK, Notified
  <2>. QED
    BY <1>2, <2>1, <2>2, SavesFrame DEF GetMisses, counts
<1>3. ASSUME NEW w \in Workers, ReadUser(w) PROVE SavesInv'
  <2>1. Went(w, Going(w, "set", db))
    BY <1>3, Effects
  <2>2. Changing(Going(w, "set", db)) <=> Changing(req[w])
    BY <1>0, <1>3 DEF ReadUser, With, Going, At, Changing, RequestOK, Notified
  <2>. QED
    BY <1>3, <2>1, <2>2, SavesFrame DEF ReadUser, counts
<1>4. ASSUME NEW w \in Workers, SetUser(w) PROVE SavesInv'
  <2>1. Went(w, Going(w, AfterLoad(w), req[w].user))
    BY <1>4, Effects
  <2>2. Changing(Going(w, AfterLoad(w), req[w].user)) <=> Changing(req[w])
    BY <1>0, <1>4 DEF SetUser, With, Going, AfterLoad, At, Changing, RequestOK, Notified
  <2>. QED
    BY <1>4, <2>1, <2>2, SavesFrame DEF SetUser, counts
<1>5. ASSUME NEW w \in Workers, ReadRow(w) PROVE SavesInv'
  <2>1. Went(w, Going(w, "write", db))
    BY <1>5, Effects
  <2>2. Changing(Going(w, "write", db)) <=> Changing(req[w])
    BY <1>0, <1>5 DEF ReadRow, With, Going, At, Changing, RequestOK, Notified
  <2>. QED
    BY <1>5, <2>1, <2>2, SavesFrame DEF ReadRow, counts
<1>6. ASSUME NEW w \in Workers, NEW s \in BOOLEAN, WriteProfile(w, s) PROVE SavesInv'
  <2>1. Went(w, Going(w, "postGet", [modified |-> now + 1, staff |-> req[w].user.staff \/ s]))
    BY <1>6, Effects
  <2>2. ~Changing(Going(w, "postGet", [modified |-> now + 1, staff |-> req[w].user.staff \/ s])) /\ Changing(req[w]) /\ now' \in {now, now + 1} /\ UNCHANGED saves
    BY <1>6 DEF WriteProfile, At, Changing, With, Going, counts
  <2>. QED
    BY <2>1, <2>2, SavesWritten
<1>7. ASSUME NEW w \in Workers, NEW s \in BOOLEAN, WriteSignin(w, s) PROVE SavesInv'
  <2>1. Went(w, Going(w, "postGet", [req[w].user EXCEPT !.staff = s]))
    BY <1>7, Effects
  <2>2. ~Changing(Going(w, "postGet", [req[w].user EXCEPT !.staff = s])) /\ Changing(req[w]) /\ now' \in {now, now + 1} /\ UNCHANGED saves
    BY <1>7 DEF WriteSignin, At, Changing, With, Going, counts
  <2>. QED
    BY <2>1, <2>2, SavesWritten
<1>8. ASSUME NEW w \in Workers, NEW s \in BOOLEAN, WriteAdmin(w, s) PROVE SavesInv'
  <2>1. Went(w, Going(w, "postGet", [modified |-> now + 1, staff |-> s]))
    BY <1>8, Effects
  <2>2. ~Changing(Going(w, "postGet", [modified |-> now + 1, staff |-> s])) /\ Changing(req[w]) /\ now' \in {now, now + 1} /\ UNCHANGED saves
    BY <1>8 DEF WriteAdmin, At, Changing, With, Going, counts
  <2>. QED
    BY <2>1, <2>2, SavesWritten
<1>9. ASSUME NEW w \in Workers, PostGetMisses(w) PROVE SavesInv'
  <2>1. Went(w, AfterSave(w))
    BY <1>9, Effects
  <2>2. Changing(AfterSave(w)) <=> Changing(req[w])
    BY <1>0, <1>9 DEF PostGetMisses, With, AfterSave, At, Changing, RequestOK, Notified
  <2>. QED
    BY <1>9, <2>1, <2>2, SavesFrame DEF PostGetMisses, counts
<1>10. ASSUME NEW w \in Workers, PostGetHits(w) PROVE SavesInv'
  <2>1. Went(w, Going(w, "postSet", req[w].user))
    BY <1>10, Effects
  <2>2. Changing(Going(w, "postSet", req[w].user)) <=> Changing(req[w])
    BY <1>0, <1>10 DEF PostGetHits, With, Going, At, Changing, RequestOK, Notified
  <2>. QED
    BY <1>10, <2>1, <2>2, SavesFrame DEF PostGetHits, counts
<1>11. ASSUME NEW w \in Workers, PostSet(w) PROVE SavesInv'
  <2>1. Went(w, AfterSave(w))
    BY <1>11, Effects
  <2>2. Changing(AfterSave(w)) <=> Changing(req[w])
    BY <1>0, <1>11 DEF PostSet, With, AfterSave, At, Changing, RequestOK, Notified
  <2>. QED
    BY <1>11, <2>1, <2>2, SavesFrame DEF PostSet, counts
<1>12. ASSUME NEW w \in Workers, StoreUser(w) PROVE SavesInv'
  <2>1. Went(w, Idle)
    BY <1>12, Effects
  <2>2. Changing(Idle) <=> Changing(req[w])
    BY <1>0, <1>12 DEF StoreUser, Idle, At, Changing, RequestOK, Notified
  <2>. QED
    BY <1>12, <2>1, <2>2, SavesFrame DEF StoreUser, counts
<1>13. ASSUME NEW w \in Workers, NEW c \in Clusters, Notify(w, c) PROVE SavesInv'
  <2>1. Went(w, Telling(w, req[w].todo \ {c}))
    BY <1>13, Effects
  <2>2. Changing(Telling(w, req[w].todo \ {c})) <=> Changing(req[w])
    BY <1>0, <1>13 DEF Notify, With, Telling, At, Changing, RequestOK, Notified
  <2>. QED
    BY <1>13, <2>1, <2>2, SavesFrame DEF Notify, counts
<1>14. ASSUME NEW w \in Workers, ProfileDone(w) PROVE SavesInv'
  <2>1. Went(w, Idle)
    BY <1>14, Effects
  <2>2. Changing(Idle) <=> Changing(req[w])
    BY <1>0, <1>14 DEF ProfileDone, Idle, At, Changing, RequestOK, Notified
  <2>. QED
    BY <1>14, <2>1, <2>2, SavesFrame DEF ProfileDone, counts
<1>15. ASSUME NEW w \in Workers, Commit(w) PROVE SavesInv'
  <2>1. Went(w, Idle)
    BY <1>15, Effects
  <2>2. Changing(Idle) <=> Changing(req[w])
    BY <1>0, <1>15 DEF Commit, Idle, At, Changing, RequestOK, Notified
  <2>. QED
    BY <1>15, <2>1, <2>2, SavesFrame DEF Commit, counts
<1>16. ASSUME NEW w \in Workers, AnswerCached(w) PROVE SavesInv'
  <2>1. Went(w, Showing(w, answers[w][req[w].user.staff]))
    BY <1>16, Effects
  <2>2. Changing(Showing(w, answers[w][req[w].user.staff])) <=> Changing(req[w])
    BY <1>0, <1>16 DEF AnswerCached, With, Showing, At, Changing, RequestOK, Notified
  <2>. QED
    BY <1>16, <2>1, <2>2, SavesFrame DEF AnswerCached, counts
<1>17. ASSUME NEW w \in Workers, AnswerMade(w) PROVE SavesInv'
  <2>1. Went(w, Showing(w, NewAnswer(req[w].user)))
    BY <1>17, Effects
  <2>2. Changing(Showing(w, NewAnswer(req[w].user))) <=> Changing(req[w])
    BY <1>0, <1>17 DEF AnswerMade, With, Showing, At, Changing, RequestOK, Notified
  <2>. QED
    BY <1>17, <2>1, <2>2, SavesFrame DEF AnswerMade, counts
<1>18. ASSUME NEW w \in Workers, Respond(w) PROVE SavesInv'
  <2>1. Went(w, Idle)
    BY <1>18, Effects
  <2>2. Changing(Idle) <=> Changing(req[w])
    BY <1>0, <1>18 DEF Respond, Idle, At, Changing, RequestOK, Notified
  <2>. QED
    BY <1>18, <2>1, <2>2, SavesFrame DEF Respond, counts
<1>19. ASSUME NEW w \in Workers, GetFails(w) PROVE SavesInv'
  <2>1. Went(w, Going(w, "read", req[w].user))
    BY <1>19, Effects
  <2>2. Changing(Going(w, "read", req[w].user)) <=> Changing(req[w])
    BY <1>0, <1>19 DEF GetFails, With, Going, At, Changing, RequestOK, Notified
  <2>. QED
    BY <1>19, <2>1, <2>2, SavesFrame DEF GetFails, counts, Fail
<1>20. ASSUME NEW w \in Workers, SetFails(w) PROVE SavesInv'
  <2>1. Went(w, Going(w, AfterLoad(w), req[w].user))
    BY <1>20, Effects
  <2>2. Changing(Going(w, AfterLoad(w), req[w].user)) <=> Changing(req[w])
    BY <1>0, <1>20 DEF SetFails, With, Going, AfterLoad, At, Changing, RequestOK, Notified
  <2>. QED
    BY <1>20, <2>1, <2>2, SavesFrame DEF SetFails, counts, Fail
<1>21. ASSUME NEW w \in Workers, Rollback(w) PROVE SavesInv'
  <2>0. Saved(req[w])
    BY <1>21 DEF Rollback, OwnerInv
  <2>1. Went(w, Idle)
    BY <1>21, Effects
  <2>2. Changing(Idle) <=> Changing(req[w])
    BY <2>0 DEF Idle, Changing, Saved
  <2>. QED
    BY <1>21, <2>1, <2>2, SavesFrame DEF Rollback, counts, Fail
<1>22. ASSUME NEW w \in Workers, NEW c \in Clusters, NotifyFails(w, c) PROVE SavesInv'
  <2>1. Went(w, Telling(w, req[w].todo \ {c}))
    BY <1>22, Effects
  <2>2. Changing(Telling(w, req[w].todo \ {c})) <=> Changing(req[w])
    BY <1>0, <1>22 DEF NotifyFails, With, Telling, At, Changing, RequestOK, Notified
  <2>. QED
    BY <1>22, <2>1, <2>2, SavesFrame DEF NotifyFails, counts, Fail
<1>23. ASSUME NEW w \in Workers, NEW k \in Kinds, Begin(w, k) PROVE SavesInv'
  <2>1. Went(w, [Idle EXCEPT !.kind = k, !.pc = IF k \in {"auth", "profile"} THEN "get" ELSE "readRow"])
    BY <1>23, Effects
  <2>. DEFINE new == [Idle EXCEPT !.kind = k, !.pc = IF k \in {"auth", "profile"} THEN "get" ELSE "readRow"]
  <2>2. ~Changing(req[w]) /\ UNCHANGED now
    BY <1>23 DEF Begin, At, Changing
  <2>3. CASE k = "auth"
    <3>1. ~Changing(new) /\ UNCHANGED saves
      BY <1>23, <2>3 DEF Begin, Changing, Idle
    <3>. QED
      BY <2>1, <2>2, <3>1, SavesFrame
  <2>4. CASE k # "auth"
    <3>1. Changing(new) /\ saves' = saves + 1
      BY <1>23, <2>4 DEF Begin, Changing, Idle
    <3>2. Unwritten' = Unwritten \cup {w} /\ w \notin Unwritten
      BY <2>1, <2>2, <3>1 DEF Unwritten, Went
    <3>3. /\ IsFiniteSet(Unwritten') /\ Cardinality(Unwritten') = Cardinality(Unwritten) + 1
          /\ Cardinality(Unwritten) \in Nat
      BY <3>2, FS_AddElement, FS_CardinalityType DEF SavesInv
    <3>. QED
      BY <2>2, <3>1, <3>3 DEF SavesInv, Shapes
  <2>. QED
    BY <2>3, <2>4
<1>24. ASSUME NEW c \in Clusters, Expire(c) PROVE SavesInv'
  BY <1>24 DEF Expire, SavesInv, Unwritten, counts
<1>25. ASSUME NEW w \in Workers, NEW s \in BOOLEAN, AnswerExpires(w, s) PROVE SavesInv'
  BY <1>25 DEF AnswerExpires, SavesInv, Unwritten, counts
<1>26. CASE UNCHANGED vars
  BY <1>26 DEF vars, counts, SavesInv, Unwritten
<1>27. ASSUME NEW w \in Workers, PostFails(w) PROVE SavesInv'
  <2>1. Went(w, Idle)
    BY <1>27, Effects
  <2>2. Changing(Idle) <=> Changing(req[w])
    BY <1>0, <1>27 DEF PostFails, Fail, Idle, At, Changing, RequestOK, Notified
  <2>. QED
    BY <1>27, <2>1, <2>2, SavesFrame DEF PostFails, Fail, counts
<1>28. ASSUME NEW w \in Workers, StoreFails(w) PROVE SavesInv'
  <2>1. Went(w, Idle)
    BY <1>28, Effects
  <2>2. Changing(Idle) <=> Changing(req[w])
    BY <1>0, <1>28 DEF StoreFails, Fail, Idle, At, Changing, RequestOK, Notified
  <2>. QED
    BY <1>28, <2>1, <2>2, SavesFrame DEF StoreFails, Fail, counts
<1>. QED
  BY <1>1, <1>2, <1>3, <1>4, <1>5, <1>6, <1>7, <1>8, <1>9, <1>10, <1>11, <1>12, <1>13, <1>14, <1>15, <1>16, <1>17, <1>18, <1>19, <1>20, <1>21, <1>22, <1>23, <1>24, <1>25, <1>26, <1>27, <1>28 DEF Next, Step, Failure

(* undone, in times that have passed: TypeOK says what Shapes leaves out.   *)
UndoneInv == undone \subseteq 0..now

LEMMA UndoneStep ==
  ASSUME Shapes, OwnerInv, UndoneInv, [Next]_vars
  PROVE  UndoneInv'
<1>1. now \in Nat /\ now' \in {now, now + 1}
  BY Grows DEF Shapes
<1>2. ASSUME NEW w \in Workers, Rollback(w) PROVE UndoneInv'
  <2>1. txn.modified = now /\ undone' = undone \cup {txn.modified} /\ now' = now
    BY <1>2, UserCacheAssumption DEF Rollback, OwnerInv
  <2>. QED
    BY <1>1, <2>1 DEF UndoneInv
<1>3. ASSUME NEW w \in Workers, Commit(w) PROVE UndoneInv'
  BY <1>3 DEF Commit, UndoneInv
<1>4. ASSUME NEW w \in Workers, NEW s \in BOOLEAN,
             WriteProfile(w, s) \/ WriteSignin(w, s) \/ WriteAdmin(w, s)
      PROVE  UndoneInv'
  <2>1. undone' = undone
    BY <1>4 DEF WriteProfile, WriteSignin, WriteAdmin
  <2>. QED
    BY <1>1, <2>1 DEF UndoneInv
<1>5. CASE UNCHANGED <<row, now, undone>>
  BY <1>5 DEF UndoneInv
<1>. QED
  BY <1>2, <1>3, <1>4, <1>5, Quiet

(***************************************************************************)
(* Types, and what goes with them: no record and no answer is of the        *)
(* future, and a transaction belongs to an administrator's request that     *)
(* has saved and is not done.                                              *)
(***************************************************************************)
TypesInv == AnswersInv /\ SavesInv /\ UndoneInv

LEMMA TypesInit == Init => TypesInv
<1>. SUFFICES ASSUME Init PROVE TypesInv
  OBVIOUS
<1>1. Unwritten = {}
  BY DEF Init, Unwritten, Changing, Idle
<1>2. SavesInv
  BY <1>1, FS_EmptySet DEF SavesInv, Init
<1>. QED
  BY <1>2, AnswersInit DEF TypesInv, UndoneInv, Init

LEMMA TypesNext == TypesInv /\ [Next]_vars => TypesInv'
BY AnswersNext, SavesStep, UndoneStep DEF TypesInv, AnswersInv

LEMMA TypesHold == TypesInv => TypeOK
<1>. SUFFICES ASSUME TypesInv PROVE TypeOK
  OBVIOUS
<1>. USE DEF TypesInv, AnswersInv
<1>1. now \in 0..MaxSaves
  <2>1. Cardinality(Unwritten) \in Nat
    BY FS_CardinalityType DEF SavesInv
  <2>. QED
    BY <2>1, UserCacheAssumption DEF SavesInv, Shapes
<1>2. db.modified <= now
  BY TimesHold DEF HeldInv
<1>3. owner # None => req[owner].kind = "admin" /\ req[owner].pc \in {"postGet", "postSet", "notify"}
  BY DEF OwnerInv, Saved, Shapes
<1>4. \A w \in Workers, s \in BOOLEAN : answers[w][s] # None => answers[w][s].stamp <= now
  BY DEF MadeInv, Made
<1>. QED
  BY <1>1, <1>2, <1>3, <1>4 DEF TypeOK, Shapes, Request, OwnerInv, UndoneInv

(***************************************************************************)
(* Records, answers and requests keep their types; the clock stays within   *)
(* the saves, as each change that was begun is written at most once.        *)
(***************************************************************************)
THEOREM TypesCorrect == Spec => []TypeOK
<1>1. Spec => []TypesInv
  BY TypesInit, TypesNext, PTL DEF Spec
<1>. QED
  BY <1>1, TypesHold, PTL

=============================================================================
