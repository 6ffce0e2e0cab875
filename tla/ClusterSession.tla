---------------------------- MODULE ClusterSession ----------------------------
(***************************************************************************)
(* One user's session in a deployment of several auth2 clusters.  The       *)
(* session cookie names the cluster that holds the session data; a request  *)
(* that reaches another cluster moves the data there (sessionstore.load).   *)
(* The first two steps of a load look in the Redis server the cluster uses  *)
(* now and in the one it used before (sessionstore/sessionstore.py); a      *)
(* session of another cluster, or of the time before there were clusters,   *)
(* is then copied and deleted at its source (clustersessionstore.py).       *)
(*                                                                         *)
(* Each step is one call of Redis or of another cluster.  Session data is   *)
(* abstracted to a version number, which a request that changes the session *)
(* increases.  Sessions do not time out here, and the requests are to hosts *)
(* of the session cookie's domain.  A load that runs on another cluster for *)
(* a request does not outlive the request; a delete may.                    *)
(***************************************************************************)
EXTENDS Naturals, FiniteSets

CONSTANTS
  Clusters,
  Standalone,    \* the cache of auth2 before it became the default cluster
  Default,       \* the default cluster
  Requests,      \* requests the browser can have in flight
  Routes,        \* clusters the load balancer sends requests to
  None,
  MaxVersion,    \* bound: versions of the session
  MaxFailures,   \* bound: calls that fail
  MaxCrashes     \* bound: requests whose worker dies

Locations == Clusters \cup {Standalone}

ASSUME SessionAssumption ==
  /\ Standalone \notin Clusters /\ Default \in Clusters /\ Routes \subseteq Clusters
  /\ None \notin Locations /\ None \notin Nat
  /\ IsFiniteSet(Clusters)
  /\ MaxVersion \in Nat \ {0} /\ MaxFailures \in Nat /\ MaxCrashes \in Nat

VARIABLES
  store,       \* the session in each session cache, or None
  previous,    \* the session in each cluster's previous session cache, or None
  cookie,      \* the location the browser's cookie names, or None
  version,     \* the latest version
  req,         \* the requests in hand
  late,        \* delete calls whose sender stopped waiting for them
  seen,        \* history: what the last request was answered from
  loggedOut,   \* history: the user logged out
  overtaken,   \* history: a late delete reached its cluster
  failures, crashes

caches  == <<store, previous>>
history == <<version, loggedOut, overtaken>>
faults  == <<failures, crashes>>
vars    == <<caches, cookie, req, late, seen, history, faults>>

Kinds == {"view", "modify", "logout"}

Idle ==
  [pc |-> "idle", kind |-> "view", at |-> None, src |-> None,
   data |-> None, drop |-> FALSE]

(* The default cluster serves the sessions of the time before clusters, and *)
(* shares its previous cache with them.                                     *)
Host(l) == IF l = Standalone THEN Default ELSE l

Init ==
  /\ cookie \in Locations
  /\ \/ /\ store = [l \in Locations |-> IF l = cookie THEN 1 ELSE None]
        /\ previous = [c \in Clusters |-> None]
     \/ /\ store = [l \in Locations |-> None]
        /\ previous = [c \in Clusters |-> IF c = Host(cookie) THEN 1 ELSE None]
  /\ version = 1
  /\ req = [r \in Requests |-> Idle]
  /\ late = [l \in Locations |-> 0]
  /\ seen = None
  /\ loggedOut = FALSE /\ overtaken = FALSE
  /\ failures = 0 /\ crashes = 0

At(r, pc) == req[r].pc = pc

GoTo(r, pc) == req' = [req EXCEPT ![r].pc = pc]

-----------------------------------------------------------------------------
(* The request reaches a cluster; the first use of its session loads it.   *)
Begin(r, kind, c) ==
  /\ At(r, "idle") /\ cookie # None
  /\ req' = [req EXCEPT ![r] = [Idle EXCEPT !.pc = "get", !.kind = kind, !.at = c,
                                            !.src = cookie]]
  /\ UNCHANGED <<caches, cookie, late, seen, history, faults>>

LoadedUnchecked(r, d) ==
  req' = [req EXCEPT ![r].data = d,
                     ![r].pc = IF req[r].src = req[r].at THEN "view" ELSE "copy"]

(* The load at the source ends with the data d, or with none.  A cluster    *)
(* that finds none at another place looks whether it has the session.       *)
Loaded(r, d) ==
  req' = [req EXCEPT ![r].data = d,
                     ![r].pc = IF req[r].src = req[r].at THEN "view"
                               ELSE IF d # None THEN "copy" ELSE "own"]

(* The request goes on without a session and its cookie will be deleted.   *)
WithoutSession(r) ==
  req' = [req EXCEPT ![r].data = None, ![r].drop = TRUE, ![r].pc = "view"]

GetHits(r) ==
  /\ At(r, "get") /\ store[req[r].src] # None
  /\ Loaded(r, store[req[r].src])
  /\ UNCHANGED <<caches, cookie, late, seen, history, faults>>

GetMisses(r) ==
  /\ At(r, "get") /\ store[req[r].src] = None
  /\ GoTo(r, "getPrevious")
  /\ UNCHANGED <<caches, cookie, late, seen, history, faults>>

PreviousHits(r) ==
  /\ At(r, "getPrevious") /\ previous[Host(req[r].src)] # None
  /\ req' = [req EXCEPT ![r].pc = "set", ![r].data = previous[Host(req[r].src)]]
  /\ UNCHANGED <<caches, cookie, late, seen, history, faults>>

PreviousMisses(r) ==
  /\ At(r, "getPrevious") /\ previous[Host(req[r].src)] = None
  /\ GoTo(r, "getAgain")
  /\ UNCHANGED <<caches, cookie, late, seen, history, faults>>

SetCurrent(r) ==
  /\ At(r, "set")
  /\ store' = [store EXCEPT ![req[r].src] = req[r].data]
  /\ GoTo(r, "deletePrevious")
  /\ UNCHANGED <<previous, cookie, late, seen, history, faults>>

DeletePrevious(r) ==
  /\ At(r, "deletePrevious")
  /\ previous' = [previous EXCEPT ![Host(req[r].src)] = None]
  /\ Loaded(r, req[r].data)
  /\ UNCHANGED <<store, cookie, late, seen, history, faults>>

(* Another request may have moved the session in the meantime.             *)
GetAgain(r) ==
  /\ At(r, "getAgain")
  /\ Loaded(r, store[req[r].src])
  /\ UNCHANGED <<caches, cookie, late, seen, history, faults>>

-----------------------------------------------------------------------------
(* The session is somewhere else: copy it, then delete it there.           *)

CopyForgotten(r) ==
  /\ At(r, "copy")
  /\ GoTo(r, "delete")
  /\ UNCHANGED <<caches, cookie, late, seen, history, faults>>

Copy(r) ==
  /\ At(r, "copy")
  /\ store' = [store EXCEPT ![req[r].at] = req[r].data]
  /\ GoTo(r, "delete")
  /\ UNCHANGED <<previous, cookie, late, seen, history, faults>>

DeleteSourceSkipped(r) ==
  /\ At(r, "delete")
  /\ GoTo(r, "view")
  /\ UNCHANGED <<caches, cookie, late, seen, history, faults>>

(* delete_remote_session removes it from the current cache only.           *)
DeleteSource(r) ==
  /\ At(r, "delete")
  /\ store' = [store EXCEPT ![req[r].src] = None]
  /\ GoTo(r, "view")
  /\ UNCHANGED <<previous, cookie, late, seen, history, faults>>

(* A session key that is not found here either is dropped, except that the *)
(* default cluster keeps the key of an expired standalone session.         *)
GetOwn(r) ==
  LET d == store[req[r].at] IN
  /\ At(r, "own")
  /\ req' = [req EXCEPT ![r].pc = "view", ![r].data = d,
                        ![r].drop = d = None /\ Host(req[r].src) # req[r].at]
  /\ UNCHANGED <<caches, cookie, late, seen, history, faults>>

-----------------------------------------------------------------------------
(* The view and the response.                                              *)

(* The view finds no session, or only reads it.  Logging out without a     *)
(* session deletes the cookie.                                             *)
Answer(r) ==
  /\ At(r, "view")
  /\ req[r].kind = "view" \/ req[r].data = None
  /\ seen' = req[r].data
  /\ req' = [req EXCEPT ![r].pc = "respond", ![r].drop = @ \/ req[r].kind = "logout"]
  /\ UNCHANGED <<caches, cookie, late, history, faults>>

(* process_response saves the modified session with a plain set.           *)
SaveSession(r) ==
  /\ At(r, "view")
  /\ req[r].kind = "modify" /\ req[r].data # None
  /\ version < MaxVersion
  /\ version' = version + 1
  /\ store' = [store EXCEPT ![req[r].at] = version']
  /\ seen' = req[r].data
  /\ GoTo(r, "respond")
  /\ UNCHANGED <<previous, cookie, late, loggedOut, overtaken, faults>>

(* logout flushes the session: only this cluster's copy is deleted.        *)
Flush(r) ==
  /\ At(r, "view")
  /\ req[r].kind = "logout" /\ req[r].data # None
  /\ store' = [store EXCEPT ![req[r].at] = None]
  /\ seen' = req[r].data
  /\ loggedOut' = TRUE
  /\ req' = [req EXCEPT ![r].pc = "respond", ![r].drop = TRUE]
  /\ UNCHANGED <<previous, cookie, late, version, overtaken, faults>>

RespondKeepsCookie(r) ==
  /\ At(r, "respond")
  /\ cookie' = IF req[r].drop THEN None ELSE cookie
  /\ req' = [req EXCEPT ![r] = Idle]
  /\ UNCHANGED <<caches, late, seen, history, faults>>

(* The response deletes the cookie or names this cluster in it.            *)
Respond(r) ==
  /\ At(r, "respond")
  /\ cookie' = IF req[r].drop THEN None ELSE req[r].at
  /\ req' = [req EXCEPT ![r] = Idle]
  /\ UNCHANGED <<caches, late, seen, history, faults>>

-----------------------------------------------------------------------------
(* Failures.                                                               *)

Fail ==
  /\ failures < MaxFailures
  /\ failures' = failures + 1
  /\ UNCHANGED crashes

(* An exception in load is an empty session; a cluster that fails to answer *)
(* is a cluster without the session.                                        *)
LoadFails(r) ==
  /\ req[r].pc \in {"get", "getPrevious", "set", "deletePrevious", "getAgain"}
  /\ Fail
  /\ IF req[r].src = req[r].at THEN WithoutSession(r) ELSE Loaded(r, None)
  /\ UNCHANGED <<caches, cookie, late, seen, history>>

MoveFails(r) ==
  /\ req[r].pc \in {"copy", "own"}
  /\ Fail
  /\ WithoutSession(r)
  /\ UNCHANGED <<caches, cookie, late, seen, history>>

(* delete_remote_session fails; reporting the failure raises an exception  *)
(* of its own, so that the load fails although the session was copied.     *)
DeleteFails(r) ==
  /\ At(r, "delete")
  /\ Fail
  /\ WithoutSession(r)
  /\ UNCHANGED <<caches, cookie, late, seen, history>>

Remote(r) == Host(req[r].src) # req[r].at

Outlives(r) == late' = [late EXCEPT ![req[r].src] = @ + 1]

(* ... or it only timed out, and the other cluster still works on it.      *)
DeleteTimesOut(r) ==
  /\ At(r, "delete") /\ Remote(r)
  /\ Fail
  /\ WithoutSession(r)
  /\ Outlives(r)
  /\ UNCHANGED <<caches, cookie, seen, history>>

LateDelete(l) ==
  /\ late[l] > 0
  /\ late' = [late EXCEPT ![l] = @ - 1]
  /\ store' = [store EXCEPT ![l] = None]
  /\ overtaken' = TRUE
  /\ UNCHANGED <<previous, cookie, req, seen, version, loggedOut, faults>>

(* Saving or flushing fails: an error page, which sets no cookie.          *)
AnswerFails(r) ==
  /\ At(r, "view")
  /\ req[r].kind # "view" /\ req[r].data # None
  /\ Fail
  /\ req' = [req EXCEPT ![r] = Idle]
  /\ UNCHANGED <<caches, cookie, late, seen, history>>

(* The worker dies, perhaps after it sent the delete.                      *)
Crash(r) ==
  /\ ~At(r, "idle")
  /\ crashes < MaxCrashes
  /\ crashes' = crashes + 1
  /\ req' = [req EXCEPT ![r] = Idle]
  /\ \/ late' = late
     \/ At(r, "delete") /\ Remote(r) /\ Outlives(r)
  /\ UNCHANGED <<caches, cookie, seen, history, failures>>

-----------------------------------------------------------------------------
Next ==
  \/ \E r \in Requests :
       \/ \E kind \in Kinds, c \in Routes : Begin(r, kind, c)
       \/ GetHits(r) \/ GetMisses(r) \/ PreviousHits(r) \/ PreviousMisses(r)
       \/ SetCurrent(r) \/ DeletePrevious(r) \/ GetAgain(r)
       \/ Copy(r) \/ DeleteSource(r) \/ GetOwn(r)
       \/ Answer(r) \/ SaveSession(r) \/ Flush(r) \/ Respond(r)
       \/ LoadFails(r) \/ MoveFails(r) \/ DeleteFails(r) \/ DeleteTimesOut(r)
       \/ AnswerFails(r) \/ Crash(r)
  \/ \E l \in Locations : LateDelete(l)

Spec == Init /\ [][Next]_vars

-----------------------------------------------------------------------------
PCs == {"idle", "get", "getPrevious", "set", "deletePrevious", "getAgain",
        "copy", "delete", "own", "view", "respond"}

Versions == 1..MaxVersion

Request ==
  [pc : PCs, kind : Kinds, at : Routes \cup {None}, src : Locations \cup {None},
   data : Versions \cup {None}, drop : BOOLEAN]

(* A request in hand is at a cluster, with a session key from somewhere;    *)
(* one that is about to store session data has some.                        *)
WellFormed(q) ==
  /\ q.pc # "idle" => q.at # None /\ q.src # None
  /\ q.pc \in {"set", "deletePrevious", "copy", "delete"} => q.data # None

TypeOK ==
  /\ store \in [Locations -> Versions \cup {None}]
  /\ previous \in [Clusters -> Versions \cup {None}]
  /\ cookie \in Locations \cup {None}
  /\ version \in Versions
  /\ req \in [Requests -> Request] /\ \A r \in Requests : WellFormed(req[r])
  /\ late \in [Locations -> Nat]
  /\ seen \in Versions \cup {None}
  /\ loggedOut \in BOOLEAN /\ overtaken \in BOOLEAN
  /\ failures \in 0..MaxFailures /\ crashes \in 0..MaxCrashes

CopiesIn(locations) ==
  ({store[l] : l \in locations} \cup {previous[c] : c \in Clusters}) \ {None}

Copies == CopiesIn(Locations)

(* A cookie with a cluster's name never leads back to the standalone cache. *)
Reachable ==
  IF cookie = None THEN {}
  ELSE CopiesIn(IF cookie = Standalone THEN Locations ELSE Clusters)

Latest ==
  IF Reachable = {} THEN None ELSE CHOOSE v \in Reachable : \A w \in Reachable : w <= v

(***************************************************************************)
(* While no worker dies, moving the session between caches and clusters is  *)
(* invisible to a user with one request at a time, whatever calls fail:     *)
(* load (clustersessionstore.py) shows the latest version or nothing, no    *)
(* change is undone, and nothing comes back after the user logged out.      *)
(***************************************************************************)
OneSession == INSTANCE Session WITH value <- Latest

ActsAsOneSession ==
  OneSession!Init /\ [][crashes' = 0 => OneSession!Next]_(OneSession!vars)

(***************************************************************************)
(* The session data is not lost before the user logs out, not even when the *)
(* worker dies in the middle of moving it: it is copied before it is        *)
(* deleted.  Only a delete that reached its cluster after its sender was    *)
(* gone can destroy the last copy.                                          *)
(***************************************************************************)
SessionKept == Copies # {} \/ loggedOut \/ overtaken

(***************************************************************************)
(* Two tabs of a browser whose requests are rerouted to another cluster at  *)
(* the same time both move the session; whichever wins, when both are       *)
(* answered the cookie names a location that has the session.  A worker     *)
(* that died between the copy and the answer leaves the old cookie.         *)
(***************************************************************************)
CookieLeadsToSession ==
  (\A r \in Requests : At(r, "idle")) /\ cookie # None /\ ~loggedOut /\ crashes = 0 =>
    store[cookie] # None \/ previous[Host(cookie)] # None

(***************************************************************************)
(* testcluster.py:697: "Session data should not be changed during           *)
(* migration": the copy never replaces a later version of the session.      *)
(***************************************************************************)
MigrationKeepsData ==
  \A r \in Requests :
    At(r, "copy") =>
      store[req[r].at] = None \/ store[req[r].at] <= req[r].data

(***************************************************************************)
(* middleware.py:153: a request whose session was deleted before it         *)
(* completed, because the user logged out in a concurrent request, is       *)
(* interrupted: it does not bring the session back.                         *)
(***************************************************************************)
LogoutIsFinal == loggedOut => Copies = {}

=============================================================================
