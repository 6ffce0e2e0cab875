------------------------- MODULE ClusterSessionProofs -------------------------
(***************************************************************************)
(* Proofs about ClusterSession, for every set of clusters, every bound and  *)
(* every place the session starts from.                                     *)
(***************************************************************************)
EXTENDS ClusterSession, TLAPS

LEMMA InitType == Init => TypeOK
<1> SUFFICES ASSUME Init PROVE TypeOK
    OBVIOUS
<1> USE SessionAssumption
<1>1. 1 \in Versions
  BY DEF Versions
<1>2. Host(cookie) \in Clusters
  BY DEF Init, Host, Locations
<1>3. Idle \in Request /\ WellFormed(Idle)
  BY DEF Idle, Request, WellFormed, PCs, Kinds
<1>4. store \in [Locations -> Versions \cup {None}]
      /\ previous \in [Clusters -> Versions \cup {None}]
  BY <1>1 DEF Init
<1>5. req \in [Requests -> Request] /\ \A r \in Requests : WellFormed(req[r])
  BY <1>3 DEF Init
<1>6. late \in [Locations -> Nat]
  BY DEF Init
<1>7. cookie \in Locations /\ version \in Versions /\ seen \in Versions \cup {None}
      /\ loggedOut \in BOOLEAN /\ overtaken \in BOOLEAN
  BY <1>1 DEF Init
<1>8. failures \in 0..MaxFailures /\ crashes \in 0..MaxCrashes
  BY DEF Init
<1> QED
  BY <1>4, <1>5, <1>6, <1>7, <1>8 DEF TypeOK

(***************************************************************************)
(* A step of request r leaves the requests well typed if its new local      *)
(* variables are.                                                           *)
(***************************************************************************)
LEMMA RequestType ==
  ASSUME TypeOK, NEW r \in Requests, NEW q \in Request, WellFormed(q),
         req' = [req EXCEPT ![r] = q]
  PROVE  req' \in [Requests -> Request] /\ \A s \in Requests : WellFormed(req'[s])
BY DEF TypeOK, WellFormed

LEMMA LoadedType ==
  ASSUME TypeOK, NEW r \in Requests, req[r].pc # "idle",
         NEW d \in Versions \cup {None}, Loaded(r, d)
  PROVE  req' \in [Requests -> Request] /\ \A s \in Requests : WellFormed(req'[s])
<1> DEFINE q == [req[r] EXCEPT !.data = d,
                   !.pc = IF req[r].src = req[r].at THEN "view"
                          ELSE IF d # None THEN "copy" ELSE "own"]
<1>1. req[r] \in Request /\ WellFormed(req[r])
  BY DEF TypeOK
<1>2. q \in Request
  BY <1>1 DEF Request, PCs
<1>3. WellFormed(q)
  BY <1>1 DEF Request, WellFormed
<1>4. req' = [req EXCEPT ![r] = q]
  BY DEF Loaded, TypeOK
<1> QED
  BY <1>2, <1>3, <1>4, RequestType

LEMMA WithoutSessionType ==
  ASSUME TypeOK, NEW r \in Requests, req[r].pc # "idle", WithoutSession(r)
  PROVE  req' \in [Requests -> Request] /\ \A s \in Requests : WellFormed(req'[s])
<1> DEFINE q == [req[r] EXCEPT !.data = None, !.drop = TRUE, !.pc = "view"]
<1>1. req[r] \in Request /\ WellFormed(req[r])
  BY DEF TypeOK
<1>2. q \in Request /\ WellFormed(q)
  BY <1>1 DEF Request, PCs, WellFormed
<1>3. req' = [req EXCEPT ![r] = q]
  BY DEF WithoutSession, TypeOK
<1> QED
  BY <1>2, <1>3, RequestType

LEMMA GoToType ==
  ASSUME TypeOK, NEW r \in Requests, req[r].pc # "idle",
         NEW pc \in PCs, pc \in {"set", "deletePrevious", "copy", "delete"} => req[r].data # None,
         GoTo(r, pc)
  PROVE  req' \in [Requests -> Request] /\ \A s \in Requests : WellFormed(req'[s])
<1> DEFINE q == [req[r] EXCEPT !.pc = pc]
<1>1. req[r] \in Request /\ WellFormed(req[r])
  BY DEF TypeOK
<1>2. q \in Request /\ WellFormed(q)
  BY <1>1 DEF Request, WellFormed
<1>3. req' = [req EXCEPT ![r] = q]
  BY DEF GoTo, TypeOK
<1> QED
  BY <1>2, <1>3, RequestType

LEMMA IdleType ==
  ASSUME TypeOK, NEW r \in Requests, req' = [req EXCEPT ![r] = Idle]
  PROVE  req' \in [Requests -> Request] /\ \A s \in Requests : WellFormed(req'[s])
<1>1. Idle \in Request /\ WellFormed(Idle)
  BY DEF Idle, Request, WellFormed, PCs, Kinds
<1> QED
  BY <1>1, RequestType

LEMMA HostType ==
  ASSUME NEW l \in Locations PROVE Host(l) \in Clusters
BY SessionAssumption DEF Host, Locations

(***************************************************************************)
(* Most steps change nothing but the request.                               *)
(***************************************************************************)
LEMMA QuietType ==
  ASSUME TypeOK, UNCHANGED <<caches, cookie, late, seen, history>>,
         failures' \in 0..MaxFailures, crashes' \in 0..MaxCrashes,
         req' \in [Requests -> Request], \A s \in Requests : WellFormed(req'[s])
  PROVE  TypeOK'
BY DEF TypeOK, caches, history

LEMMA LoadStepsType ==
  ASSUME TypeOK, NEW r \in Requests,
         GetHits(r) \/ GetMisses(r) \/ PreviousHits(r) \/ PreviousMisses(r)
           \/ SetCurrent(r) \/ DeletePrevious(r) \/ GetAgain(r)
  PROVE  TypeOK'
<1>1. req[r] \in Request /\ WellFormed(req[r])
  BY DEF TypeOK
<1>2. failures \in 0..MaxFailures /\ crashes \in 0..MaxCrashes
  BY DEF TypeOK
<1>3. ASSUME req[r].pc # "idle" PROVE req[r].src \in Locations
  BY <1>1, <1>3 DEF Request, WellFormed
<1>4. CASE GetHits(r)
  <2>1. req[r].pc # "idle" /\ store[req[r].src] \in Versions \cup {None}
    BY <1>3, <1>4 DEF GetHits, At, TypeOK
  <2>2. Loaded(r, store[req[r].src])
    BY <1>4 DEF GetHits
  <2> QED BY <1>2, <1>4, <2>1, <2>2, LoadedType, QuietType DEF GetHits, faults
<1>5. CASE GetMisses(r)
  <2>1. req[r].pc # "idle" /\ GoTo(r, "getPrevious") /\ "getPrevious" \in PCs
    BY <1>5 DEF GetMisses, At, PCs
  <2> QED BY <1>2, <1>5, <2>1, GoToType, QuietType DEF GetMisses, faults
<1>6. CASE PreviousHits(r)
  <2> DEFINE d == previous[Host(req[r].src)]
             q == [req[r] EXCEPT !.pc = "set", !.data = d]
  <2>1. req[r].pc # "idle" /\ d # None
    BY <1>6 DEF PreviousHits, At
  <2>2. d \in Versions
    BY <1>3, <2>1, HostType DEF TypeOK
  <2>3. q \in Request /\ WellFormed(q)
    BY <1>1, <2>1, <2>2 DEF Request, WellFormed, PCs
  <2>4. req' = [req EXCEPT ![r] = q]
    BY <1>6 DEF PreviousHits, TypeOK
  <2> QED BY <1>2, <1>6, <2>3, <2>4, RequestType, QuietType DEF PreviousHits, faults
<1>7. CASE PreviousMisses(r)
  <2>1. req[r].pc # "idle" /\ GoTo(r, "getAgain") /\ "getAgain" \in PCs
    BY <1>7 DEF PreviousMisses, At, PCs
  <2> QED BY <1>2, <1>7, <2>1, GoToType, QuietType DEF PreviousMisses, faults
<1>8. CASE SetCurrent(r)
  <2>1. req[r].pc = "set" /\ GoTo(r, "deletePrevious") /\ "deletePrevious" \in PCs
    BY <1>8 DEF SetCurrent, At, PCs
  <2>2. req[r].data # None /\ req[r].data \in Versions
    BY <1>1, <2>1 DEF WellFormed, Request
  <2>3. store' \in [Locations -> Versions \cup {None}]
    BY <1>8, <2>2 DEF SetCurrent, TypeOK
  <2>4. req' \in [Requests -> Request] /\ \A s \in Requests : WellFormed(req'[s])
    BY <2>1, <2>2, GoToType
  <2> QED BY <1>8, <2>3, <2>4 DEF SetCurrent, TypeOK, history, faults
<1>9. CASE DeletePrevious(r)
  <2>1. req[r].pc # "idle" /\ Loaded(r, req[r].data) /\ req[r].data \in Versions \cup {None}
    BY <1>1, <1>9 DEF DeletePrevious, At, Request
  <2>2. previous' \in [Clusters -> Versions \cup {None}]
    BY <1>9 DEF DeletePrevious, TypeOK
  <2>3. req' \in [Requests -> Request] /\ \A s \in Requests : WellFormed(req'[s])
    BY <2>1, LoadedType
  <2> QED BY <1>9, <2>2, <2>3 DEF DeletePrevious, TypeOK, history, faults
<1>10. CASE GetAgain(r)
  <2>1. req[r].pc # "idle" /\ store[req[r].src] \in Versions \cup {None}
    BY <1>3, <1>10 DEF GetAgain, At, TypeOK
  <2>2. Loaded(r, store[req[r].src])
    BY <1>10 DEF GetAgain
  <2> QED BY <1>2, <1>10, <2>1, <2>2, LoadedType, QuietType DEF GetAgain, faults
<1> QED
  BY <1>4, <1>5, <1>6, <1>7, <1>8, <1>9, <1>10

LEMMA MoveStepsType ==
  ASSUME TypeOK, NEW r \in Requests, Copy(r) \/ DeleteSource(r) \/ GetOwn(r)
  PROVE  TypeOK'
<1>1. req[r] \in Request /\ WellFormed(req[r])
  BY DEF TypeOK
<1>2. failures \in 0..MaxFailures /\ crashes \in 0..MaxCrashes
  BY DEF TypeOK
<1>3. CASE Copy(r)
  <2>1. req[r].pc = "copy" /\ GoTo(r, "delete") /\ "delete" \in PCs
    BY <1>3 DEF Copy, At, PCs
  <2>2. req[r].data # None /\ req[r].data \in Versions
    BY <1>1, <2>1 DEF WellFormed, Request
  <2>3. store' \in [Locations -> Versions \cup {None}]
    BY <1>3, <2>2 DEF Copy, TypeOK
  <2>4. req' \in [Requests -> Request] /\ \A s \in Requests : WellFormed(req'[s])
    BY <2>1, <2>2, GoToType
  <2> QED BY <1>3, <2>3, <2>4 DEF Copy, TypeOK, history, faults
<1>4. CASE DeleteSource(r)
  <2>1. req[r].pc # "idle" /\ GoTo(r, "view") /\ "view" \in PCs
    BY <1>4 DEF DeleteSource, At, PCs
  <2>2. store' \in [Locations -> Versions \cup {None}]
    BY <1>4 DEF DeleteSource, TypeOK
  <2>3. req' \in [Requests -> Request] /\ \A s \in Requests : WellFormed(req'[s])
    BY <2>1, GoToType
  <2> QED BY <1>4, <2>2, <2>3 DEF DeleteSource, TypeOK, history, faults
<1>5. CASE GetOwn(r)
  <2> DEFINE d == store[req[r].at]
             q == [req[r] EXCEPT !.pc = "view", !.data = d,
                     !.drop = d = None /\ Host(req[r].src) # req[r].at]
  <2>1. req[r].pc # "idle" /\ req[r].at \in Locations
    BY <1>1, <1>5, SessionAssumption DEF GetOwn, At, Request, WellFormed, Locations
  <2>2. d \in Versions \cup {None}
    BY <2>1 DEF TypeOK
  <2>3. q \in Request /\ WellFormed(q)
    BY <1>1, <2>1, <2>2 DEF Request, WellFormed, PCs
  <2>4. req' = [req EXCEPT ![r] = q]
    BY <1>5 DEF GetOwn, TypeOK
  <2> QED BY <1>2, <1>5, <2>3, <2>4, RequestType, QuietType DEF GetOwn, faults
<1> QED
  BY <1>3, <1>4, <1>5

LEMMA AnswerStepsType ==
  ASSUME TypeOK, NEW r \in Requests,
         Answer(r) \/ SaveSession(r) \/ Flush(r) \/ Respond(r)
  PROVE  TypeOK'
<1>1. req[r] \in Request /\ WellFormed(req[r])
  BY DEF TypeOK
<1>2. ASSUME req[r].pc = "view" PROVE req[r].at \in Locations
  BY <1>1, <1>2, SessionAssumption DEF Request, WellFormed, Locations
<1>3. req[r].data \in Versions \cup {None} /\ req[r].drop \in BOOLEAN
  BY <1>1 DEF Request
<1>4. CASE Answer(r)
  <2> DEFINE q == [req[r] EXCEPT !.pc = "respond", !.drop = @ \/ req[r].kind = "logout"]
  <2>1. q \in Request /\ WellFormed(q)
    BY <1>1, <1>4 DEF Answer, At, Request, WellFormed, PCs
  <2>2. req' = [req EXCEPT ![r] = q]
    BY <1>4 DEF Answer, TypeOK
  <2>3. req' \in [Requests -> Request] /\ \A s \in Requests : WellFormed(req'[s])
    BY <2>1, <2>2, RequestType
  <2> QED BY <1>3, <1>4, <2>3 DEF Answer, TypeOK, caches, history, faults
<1>5. CASE SaveSession(r)
  <2>1. req[r].pc # "idle" /\ GoTo(r, "respond") /\ "respond" \in PCs
    BY <1>5 DEF SaveSession, At, PCs
  <2>2. version' \in Versions
    BY <1>5, SessionAssumption DEF SaveSession, TypeOK, Versions
  <2>3. store' \in [Locations -> Versions \cup {None}]
    BY <1>5, <2>2 DEF SaveSession, TypeOK
  <2>4. req' \in [Requests -> Request] /\ \A s \in Requests : WellFormed(req'[s])
    BY <2>1, GoToType
  <2> QED BY <1>3, <1>5, <2>2, <2>3, <2>4 DEF SaveSession, TypeOK, faults
<1>6. CASE Flush(r)
  <2> DEFINE q == [req[r] EXCEPT !.pc = "respond", !.drop = TRUE]
  <2>1. q \in Request /\ WellFormed(q)
    BY <1>1, <1>6 DEF Flush, At, Request, WellFormed, PCs
  <2>2. req' = [req EXCEPT ![r] = q]
    BY <1>6 DEF Flush, TypeOK
  <2>3. req' \in [Requests -> Request] /\ \A s \in Requests : WellFormed(req'[s])
    BY <2>1, <2>2, RequestType
  <2>4. store' \in [Locations -> Versions \cup {None}]
    BY <1>6 DEF Flush, TypeOK
  <2> QED BY <1>3, <1>6, <2>3, <2>4 DEF Flush, TypeOK, faults
<1>7. CASE Respond(r)
  <2>1. req[r].pc # "idle"
    BY <1>7 DEF Respond, At
  <2>2. cookie' \in Locations \cup {None}
    BY <1>1, <1>7, <2>1, SessionAssumption DEF Respond, Request, WellFormed, Locations
  <2>3. req' \in [Requests -> Request] /\ \A s \in Requests : WellFormed(req'[s])
    BY <1>7, IdleType DEF Respond
  <2> QED BY <1>7, <2>2, <2>3 DEF Respond, TypeOK, caches, history, faults
<1> QED
  BY <1>4, <1>5, <1>6, <1>7

LEMMA FailType ==
  ASSUME TypeOK, Fail
  PROVE  failures' \in 0..MaxFailures /\ crashes' \in 0..MaxCrashes
BY SessionAssumption DEF Fail, TypeOK

LEMMA OutlivesType ==
  ASSUME TypeOK, NEW r \in Requests, Outlives(r)
  PROVE  late' \in [Locations -> Nat]
<1>1. late \in [Locations -> Nat]
  BY DEF TypeOK
<1>2. \A l \in Locations : late[l] \in Nat /\ late[l] + 1 \in Nat
  BY <1>1
<1>3. CASE req[r].src \in Locations
  BY <1>1, <1>2, <1>3 DEF Outlives
<1>4. CASE req[r].src \notin Locations
  BY <1>1, <1>4 DEF Outlives
<1> QED
  BY <1>3, <1>4

LEMMA FaultStepsType ==
  ASSUME TypeOK, NEW r \in Requests,
         LoadFails(r) \/ MoveFails(r) \/ DeleteFails(r) \/ DeleteTimesOut(r)
           \/ AnswerFails(r) \/ Crash(r)
  PROVE  TypeOK'
<1>1. req[r] \in Request /\ WellFormed(req[r])
  BY DEF TypeOK
<1>2. CASE LoadFails(r)
  <2>1. req[r].pc # "idle"
    BY <1>2 DEF LoadFails
  <2>2. req' \in [Requests -> Request] /\ \A s \in Requests : WellFormed(req'[s])
    <3>1. WithoutSession(r) \/ Loaded(r, None)
      BY <1>2 DEF LoadFails
    <3> QED BY <2>1, <3>1, WithoutSessionType, LoadedType
  <2> QED BY <1>2, <2>2, FailType, QuietType DEF LoadFails
<1>3. CASE MoveFails(r)
  <2>1. req[r].pc # "idle" /\ WithoutSession(r)
    BY <1>3 DEF MoveFails
  <2> QED BY <1>3, <2>1, WithoutSessionType, FailType, QuietType DEF MoveFails
<1>4. CASE DeleteFails(r)
  <2>1. req[r].pc # "idle" /\ WithoutSession(r)
    BY <1>4 DEF DeleteFails, At
  <2> QED BY <1>4, <2>1, WithoutSessionType, FailType, QuietType DEF DeleteFails
<1>5. CASE DeleteTimesOut(r)
  <2>1. req[r].pc # "idle" /\ WithoutSession(r)
    BY <1>5 DEF DeleteTimesOut, At
  <2>2. req' \in [Requests -> Request] /\ \A s \in Requests : WellFormed(req'[s])
    BY <2>1, WithoutSessionType
  <2>3. late' \in [Locations -> Nat]
    BY <1>5, OutlivesType DEF DeleteTimesOut
  <2> QED BY <1>5, <2>2, <2>3, FailType DEF DeleteTimesOut, TypeOK, caches, history
<1>6. CASE AnswerFails(r)
  <2>1. req' \in [Requests -> Request] /\ \A s \in Requests : WellFormed(req'[s])
    BY <1>6, IdleType DEF AnswerFails
  <2> QED BY <1>6, <2>1, FailType, QuietType DEF AnswerFails
<1>7. CASE Crash(r)
  <2>1. req' \in [Requests -> Request] /\ \A s \in Requests : WellFormed(req'[s])
    BY <1>7, IdleType DEF Crash
  <2>2. late' \in [Locations -> Nat]
    BY <1>7, OutlivesType DEF Crash, TypeOK
  <2>3. crashes' \in 0..MaxCrashes
    BY <1>7, SessionAssumption DEF Crash, TypeOK
  <2> QED BY <1>7, <2>1, <2>2, <2>3 DEF Crash, TypeOK, caches, history
<1> QED
  BY <1>2, <1>3, <1>4, <1>5, <1>6, <1>7

LEMMA BeginType ==
  ASSUME TypeOK, NEW r \in Requests, NEW kind \in Kinds, NEW c \in Routes, Begin(r, kind, c)
  PROVE  TypeOK'
<1> DEFINE q == [Idle EXCEPT !.pc = "get", !.kind = kind, !.at = c, !.src = cookie]
<1>1. c # None /\ cookie # None /\ cookie \in Locations
  BY SessionAssumption DEF Begin, TypeOK, Locations
<1>2. q \in Request /\ WellFormed(q)
  BY <1>1 DEF Idle, Request, WellFormed, PCs
<1>3. req' = [req EXCEPT ![r] = q]
  BY DEF Begin
<1>4. failures' \in 0..MaxFailures /\ crashes' \in 0..MaxCrashes
  BY DEF Begin, TypeOK, faults
<1> QED
  BY <1>2, <1>3, <1>4, RequestType, QuietType DEF Begin

LEMMA LateDeleteType ==
  ASSUME TypeOK, NEW l \in Locations, LateDelete(l)
  PROVE  TypeOK'
BY DEF TypeOK, LateDelete, faults

(***************************************************************************)
(* The variables of the session move of clustersessionstore.py and          *)
(* sessionstore.py keep their types; in particular no step stores a session *)
(* it did not find before.                                                  *)
(***************************************************************************)
THEOREM TypeCorrect == Spec => []TypeOK
<1>1. TypeOK /\ [Next]_vars => TypeOK'
  <2> SUFFICES ASSUME TypeOK, [Next]_vars PROVE TypeOK'
      OBVIOUS
  <2>1. CASE UNCHANGED vars
    BY <2>1 DEF TypeOK, vars, caches, history, faults
  <2>2. CASE \E l \in Locations : LateDelete(l)
    BY <2>2, LateDeleteType
  <2>3. CASE \E r \in Requests, kind \in Kinds, c \in Routes : Begin(r, kind, c)
    BY <2>3, BeginType
  <2>4. ASSUME NEW r \in Requests,
               \/ GetHits(r) \/ GetMisses(r) \/ PreviousHits(r) \/ PreviousMisses(r)
                  \/ SetCurrent(r) \/ DeletePrevious(r) \/ GetAgain(r)
               \/ Copy(r) \/ DeleteSource(r) \/ GetOwn(r)
               \/ Answer(r) \/ SaveSession(r) \/ Flush(r) \/ Respond(r)
               \/ LoadFails(r) \/ MoveFails(r) \/ DeleteFails(r) \/ DeleteTimesOut(r)
                  \/ AnswerFails(r) \/ Crash(r)
        PROVE  TypeOK'
    BY <2>4, LoadStepsType, MoveStepsType, AnswerStepsType, FaultStepsType
  <2> QED
    BY <2>1, <2>2, <2>3, <2>4 DEF Next
<1> QED
  BY <1>1, InitType, PTL DEF Spec

-----------------------------------------------------------------------------
(***************************************************************************)
(* The session is kept.  A delete is safe because of what was stored before *)
(* it, so the invariant says for each place of a load what is stored where. *)
(***************************************************************************)
Gone == loggedOut \/ overtaken

HasSession ==
  (\E l \in Locations : store[l] # None) \/ (\E c \in Clusters : previous[c] # None)

MovesSafely(q) ==
  /\ q.pc = "deletePrevious" => store[q.src] # None \/ Gone
  /\ q.pc = "delete" => store[q.at] # None \/ Gone
  /\ q.pc \in {"copy", "delete"} => q.at # q.src

MoveInv ==
  /\ HasSession \/ Gone
  /\ \A r \in Requests : MovesSafely(req[r])

LEMMA InitMoves ==
  ASSUME Init PROVE MoveInv
<1>1. cookie \in Locations /\ Host(cookie) \in Clusters
  BY HostType DEF Init
<1>2. HasSession
  BY <1>1, SessionAssumption DEF Init, HasSession, Locations
<1>3. \A r \in Requests : req[r].pc = "idle"
  BY DEF Init, Idle
<1> QED
  BY <1>2, <1>3 DEF MoveInv, MovesSafely

LEMMA KeptByMoveInv ==
  ASSUME MoveInv PROVE SessionKept
BY DEF MoveInv, SessionKept, HasSession, Gone, Copies, CopiesIn

(***************************************************************************)
(* A step that leaves the caches alone can only bring its request to the    *)
(* copy, and then it has found that the source is elsewhere.                *)
(***************************************************************************)
LEMMA QuietMoves ==
  ASSUME TypeOK, MoveInv, NEW r \in Requests, Requests = {r},
         UNCHANGED <<caches, history>>,
         req'[r].pc \notin {"deletePrevious", "delete"},
         req'[r].pc = "copy" => req'[r].at # req'[r].src
  PROVE  MoveInv'
BY DEF MoveInv, HasSession, Gone, MovesSafely, caches, history

LEMMA LoadedMoves ==
  ASSUME TypeOK, NEW r \in Requests, NEW d, Loaded(r, d)
  PROVE  /\ req'[r].pc \in {"view", "copy", "own"}
         /\ req'[r].pc = "copy" => req'[r].at # req'[r].src
BY DEF Loaded, TypeOK, Request

LEMMA WithoutSessionMoves ==
  ASSUME TypeOK, NEW r \in Requests, WithoutSession(r)
  PROVE  req'[r].pc = "view"
BY DEF WithoutSession, TypeOK, Request

LEMMA GoToMoves ==
  ASSUME TypeOK, NEW r \in Requests, NEW pc, GoTo(r, pc)
  PROVE  req'[r].pc = pc /\ req'[r].at = req[r].at /\ req'[r].src = req[r].src
BY DEF GoTo, TypeOK, Request

LEMMA LoadStepsMove ==
  ASSUME TypeOK, MoveInv, NEW r \in Requests, Requests = {r},
         GetHits(r) \/ GetMisses(r) \/ PreviousHits(r) \/ PreviousMisses(r)
           \/ SetCurrent(r) \/ DeletePrevious(r) \/ GetAgain(r)
  PROVE  MoveInv'
<1>1. CASE GetHits(r)
  BY <1>1, LoadedMoves, QuietMoves DEF GetHits
<1>2. CASE GetMisses(r)
  BY <1>2, GoToMoves, QuietMoves DEF GetMisses
<1>3. CASE PreviousHits(r)
  <2>1. req'[r].pc = "set"
    BY <1>3 DEF PreviousHits, TypeOK, Request
  <2> QED BY <1>3, <2>1, QuietMoves DEF PreviousHits
<1>4. CASE PreviousMisses(r)
  BY <1>4, GoToMoves, QuietMoves DEF PreviousMisses
<1>5. CASE SetCurrent(r)
  <2>1. req[r].src \in Locations /\ req[r].data # None
    BY <1>5 DEF SetCurrent, At, TypeOK, Request, WellFormed
  <2>2. store'[req[r].src] # None
    BY <1>5, <2>1 DEF SetCurrent, TypeOK
  <2>3. req'[r].pc = "deletePrevious" /\ req'[r].src = req[r].src
    BY <1>5, GoToMoves DEF SetCurrent
  <2>4. HasSession'
    BY <2>1, <2>2 DEF HasSession
  <2>5. MovesSafely(req[r])'
    BY <2>2, <2>3 DEF MovesSafely
  <2> QED BY <2>4, <2>5 DEF MoveInv
<1>6. CASE DeletePrevious(r)
  <2>1. req[r].src \in Locations
    BY <1>6 DEF DeletePrevious, At, TypeOK, Request, WellFormed
  <2>2. HasSession \/ Gone
    BY DEF MoveInv
  <2>3. store[req[r].src] # None \/ Gone
    BY <1>6 DEF DeletePrevious, At, MoveInv, MovesSafely
  <2>4. (HasSession \/ Gone)'
    BY <1>6, <2>1, <2>3 DEF DeletePrevious, HasSession, Gone, history
  <2>5. req'[r].pc \in {"view", "copy", "own"} /\ (req'[r].pc = "copy" => req'[r].at # req'[r].src)
    BY <1>6, LoadedMoves DEF DeletePrevious
  <2> QED BY <2>4, <2>5 DEF MoveInv, MovesSafely
<1>7. CASE GetAgain(r)
  BY <1>7, LoadedMoves, QuietMoves DEF GetAgain
<1> QED
  BY <1>1, <1>2, <1>3, <1>4, <1>5, <1>6, <1>7

LEMMA MoveStepsMove ==
  ASSUME TypeOK, MoveInv, NEW r \in Requests, Requests = {r},
         Copy(r) \/ DeleteSource(r) \/ GetOwn(r)
  PROVE  MoveInv'
<1>1. CASE Copy(r)
  <2>1. req[r].at \in Locations /\ req[r].data # None /\ req[r].at # req[r].src
    BY <1>1, SessionAssumption
       DEF Copy, At, TypeOK, Request, WellFormed, MoveInv, MovesSafely, Locations
  <2>2. store'[req[r].at] # None
    BY <1>1, <2>1 DEF Copy, TypeOK
  <2>3. req'[r].pc = "delete" /\ req'[r].at = req[r].at /\ req'[r].src = req[r].src
    BY <1>1, GoToMoves DEF Copy
  <2>4. HasSession'
    BY <2>1, <2>2 DEF HasSession
  <2>5. MovesSafely(req[r])'
    BY <2>1, <2>2, <2>3 DEF MovesSafely
  <2> QED BY <2>4, <2>5 DEF MoveInv
<1>2. CASE DeleteSource(r)
  <2>1. req[r].at \in Locations /\ req[r].at # req[r].src
    BY <1>2, SessionAssumption
       DEF DeleteSource, At, TypeOK, Request, WellFormed, MoveInv, MovesSafely, Locations
  <2>2. store[req[r].at] # None \/ Gone
    BY <1>2 DEF DeleteSource, At, MoveInv, MovesSafely
  <2>3. store'[req[r].at] = store[req[r].at]
    BY <1>2, <2>1 DEF DeleteSource, TypeOK
  <2>4. (HasSession \/ Gone)'
    BY <1>2, <2>1, <2>2, <2>3 DEF DeleteSource, HasSession, Gone, history
  <2>5. req'[r].pc = "view"
    BY <1>2, GoToMoves DEF DeleteSource
  <2> QED BY <2>4, <2>5 DEF MoveInv, MovesSafely
<1>3. CASE GetOwn(r)
  <2>1. req'[r].pc = "view"
    BY <1>3 DEF GetOwn, TypeOK, Request
  <2> QED BY <1>3, <2>1, QuietMoves DEF GetOwn
<1> QED
  BY <1>1, <1>2, <1>3

LEMMA AnswerStepsMove ==
  ASSUME TypeOK, MoveInv, NEW r \in Requests, Requests = {r},
         Answer(r) \/ SaveSession(r) \/ Flush(r) \/ Respond(r)
  PROVE  MoveInv'
<1>1. CASE Answer(r)
  <2>1. req'[r].pc = "respond"
    BY <1>1 DEF Answer, TypeOK, Request
  <2> QED BY <1>1, <2>1, QuietMoves DEF Answer
<1>2. CASE SaveSession(r)
  <2>1. req[r].at \in Locations
    BY <1>2, SessionAssumption DEF SaveSession, At, TypeOK, Request, WellFormed, Locations
  <2>2. version + 1 \in Nat
    BY DEF TypeOK, Versions
  <2>3. store'[req[r].at] # None
    BY <1>2, <2>1, <2>2, SessionAssumption DEF SaveSession, TypeOK
  <2>4. HasSession'
    BY <2>1, <2>3 DEF HasSession
  <2>5. req'[r].pc = "respond"
    BY <1>2, GoToMoves DEF SaveSession
  <2> QED BY <2>4, <2>5 DEF MoveInv, MovesSafely
<1>3. CASE Flush(r)
  <2>1. req'[r].pc = "respond"
    BY <1>3 DEF Flush, TypeOK, Request
  <2>2. Gone'
    BY <1>3 DEF Flush, Gone
  <2> QED BY <2>1, <2>2 DEF MoveInv, MovesSafely
<1>4. CASE Respond(r)
  <2>1. req'[r].pc = "idle"
    BY <1>4 DEF Respond, TypeOK, Idle
  <2> QED BY <1>4, <2>1, QuietMoves DEF Respond
<1> QED
  BY <1>1, <1>2, <1>3, <1>4

LEMMA FaultStepsMove ==
  ASSUME TypeOK, MoveInv, NEW r \in Requests, Requests = {r},
         LoadFails(r) \/ MoveFails(r) \/ DeleteFails(r) \/ DeleteTimesOut(r)
           \/ AnswerFails(r) \/ Crash(r)
  PROVE  MoveInv'
<1>1. CASE LoadFails(r)
  <2>1. WithoutSession(r) \/ Loaded(r, None)
    BY <1>1 DEF LoadFails
  <2> QED BY <1>1, <2>1, WithoutSessionMoves, LoadedMoves, QuietMoves DEF LoadFails
<1>2. CASE MoveFails(r) \/ DeleteFails(r) \/ DeleteTimesOut(r)
  BY <1>2, WithoutSessionMoves, QuietMoves DEF MoveFails, DeleteFails, DeleteTimesOut
<1>3. CASE AnswerFails(r) \/ Crash(r)
  <2>1. req'[r].pc = "idle"
    BY <1>3 DEF AnswerFails, Crash, TypeOK, Idle
  <2> QED BY <1>3, <2>1, QuietMoves DEF AnswerFails, Crash
<1> QED
  BY <1>1, <1>2, <1>3

(***************************************************************************)
(* With one request at a time, whatever fails and wherever the worker dies, *)
(* the session data survives its move (clustersessionstore.py:213-251,      *)
(* sessionstore.py:465-506) until the user logs out, unless a delete        *)
(* arrives after its sender was gone.                                       *)
(***************************************************************************)
THEOREM SessionKeptHolds ==
  ASSUME NEW one \in Requests, Requests = {one}
  PROVE  Spec => []SessionKept
<1>1. TypeOK /\ MoveInv /\ [Next]_vars => MoveInv'
  <2> SUFFICES ASSUME TypeOK, MoveInv, [Next]_vars PROVE MoveInv'
      OBVIOUS
  <2>1. CASE UNCHANGED vars
    BY <2>1 DEF MoveInv, MovesSafely, HasSession, Gone, vars, caches, history
  <2>2. CASE \E l \in Locations : LateDelete(l)
    BY <2>2 DEF LateDelete, MoveInv, MovesSafely, Gone
  <2>3. CASE \E kind \in Kinds, c \in Routes : Begin(one, kind, c)
    <3>1. req'[one].pc = "get"
      BY <2>3 DEF Begin, TypeOK, Idle
    <3> QED BY <2>3, <3>1, QuietMoves DEF Begin
  <2>4. CASE \/ GetHits(one) \/ GetMisses(one) \/ PreviousHits(one) \/ PreviousMisses(one)
                \/ SetCurrent(one) \/ DeletePrevious(one) \/ GetAgain(one)
             \/ Copy(one) \/ DeleteSource(one) \/ GetOwn(one)
             \/ Answer(one) \/ SaveSession(one) \/ Flush(one) \/ Respond(one)
             \/ LoadFails(one) \/ MoveFails(one) \/ DeleteFails(one) \/ DeleteTimesOut(one)
                \/ AnswerFails(one) \/ Crash(one)
    BY <2>4, LoadStepsMove, MoveStepsMove, AnswerStepsMove, FaultStepsMove
  <2> QED
    BY <2>1, <2>2, <2>3, <2>4 DEF Next
<1> QED
  BY <1>1, InitMoves, KeptByMoveInv, TypeCorrect, PTL DEF Spec

-----------------------------------------------------------------------------
(***************************************************************************)
(* One session.  With one request at a time, and until a worker dies, every *)
(* copy the browser can still reach is the latest version, and there is one *)
(* of them but while a move is in progress or the cookie is being deleted.  *)
(***************************************************************************)
Reaches(l) == cookie = Standalone \/ l # Standalone

(* The copies are in these caches and in these previous caches.            *)
OnlyIn(ls, cs) ==
  /\ \A l \in Locations : Reaches(l) /\ store[l] # None => l \in ls
  /\ \A c \in Clusters : previous[c] # None => c \in cs

Single == (\E l \in Locations : OnlyIn({l}, {})) \/ (\E c \in Clusters : OnlyIn({}, {c}))

AllLatest ==
  /\ \A l \in Locations : Reaches(l) => store[l] \in {None, version}
  /\ \A c \in Clusters : previous[c] \in {None, version}

PlacesOK(q) ==
  /\ q.pc \in {"idle", "get", "getPrevious", "getAgain"} => Single
  /\ q.pc = "set" => OnlyIn({}, {Host(q.src)}) /\ previous[Host(q.src)] = version
  /\ q.pc = "deletePrevious" => OnlyIn({q.src}, {Host(q.src)}) /\ store[q.src] = version
  /\ q.pc = "copy" => OnlyIn({q.src}, {}) /\ store[q.src] = version
  /\ q.pc = "delete" => OnlyIn({q.src, q.at}, {}) /\ store[q.at] = version
  /\ q.pc = "own" => Single \/ OnlyIn({q.src}, {Host(q.src)})
  /\ q.pc = "view" /\ q.data # None => OnlyIn({q.at}, {}) /\ store[q.at] = version
  /\ q.pc \in {"view", "respond"} /\ ~q.drop =>
       Single \/ (q.src = Standalone /\ OnlyIn({Standalone}, {Default}))

LocalOK(q) ==
  /\ q.pc \in {"set", "deletePrevious", "copy", "delete"} => q.data = version
  /\ q.pc = "view" => q.data \in {None, version}
  /\ q.pc \in {"copy", "delete", "own"} => q.at # q.src
  /\ q.drop => q.pc = "respond" \/ (q.pc = "view" /\ q.data = None)
  /\ (\E l \in Locations : late[l] > 0) => q.drop

Undisturbed == crashes = 0 /\ cookie # None

OneInv(q) ==
  /\ q.pc # "idle" => q.src = cookie
  /\ Undisturbed => AllLatest /\ PlacesOK(q) /\ LocalOK(q)

LEMMA LoadedFields ==
  ASSUME TypeOK, NEW r \in Requests, NEW d, Loaded(r, d)
  PROVE  /\ req'[r].pc = IF req[r].src = req[r].at THEN "view" ELSE IF d # None THEN "copy" ELSE "own"
         /\ req'[r].data = d /\ req'[r].src = req[r].src /\ req'[r].at = req[r].at
         /\ req'[r].drop = req[r].drop
BY DEF Loaded, TypeOK, Request

LEMMA WithoutSessionFields ==
  ASSUME TypeOK, NEW r \in Requests, WithoutSession(r)
  PROVE  /\ req'[r].pc = "view" /\ req'[r].data = None /\ req'[r].drop = TRUE
         /\ req'[r].src = req[r].src /\ req'[r].at = req[r].at
BY DEF WithoutSession, TypeOK, Request

LEMMA GoToFields ==
  ASSUME TypeOK, NEW r \in Requests, NEW pc, GoTo(r, pc)
  PROVE  /\ req'[r].pc = pc /\ req'[r].src = req[r].src /\ req'[r].at = req[r].at
         /\ req'[r].data = req[r].data /\ req'[r].drop = req[r].drop
BY DEF GoTo, TypeOK, Request

LEMMA OneInit == ASSUME Init, NEW r \in Requests PROVE OneInv(req[r])
<1>1. req[r].pc = "idle" /\ req[r].drop = FALSE /\ \A l \in Locations : ~(late[l] > 0)
  BY DEF Init, Idle
<1>2. cookie \in Locations /\ Host(cookie) \in Clusters
  BY HostType DEF Init
<1>3. AllLatest /\ Single
  BY <1>2 DEF Init, AllLatest, Single, OnlyIn
<1>. QED
  BY <1>1, <1>3 DEF OneInv, PlacesOK, LocalOK

(* Steps that change the request only.                                     *)
PlacesFixed == UNCHANGED <<store, previous, cookie, version, late>>

LEMMA QuietOne ==
  ASSUME NEW r \in Requests, OneInv(req[r]), PlacesFixed, crashes' = 0 => crashes = 0,
         req'[r].pc # "idle" => req'[r].src = cookie,
         Undisturbed => PlacesOK(req'[r]) /\ LocalOK(req'[r])
  PROVE  OneInv(req[r])'
<1>1. AllLatest => AllLatest'
  BY DEF PlacesFixed, AllLatest, Reaches
<1>2. Undisturbed' => Undisturbed
  BY DEF PlacesFixed, Undisturbed
<1>3. PlacesOK(req'[r]) => PlacesOK(req[r])'
  BY DEF PlacesFixed, PlacesOK, Single, OnlyIn, Reaches, Host
<1>4. LocalOK(req'[r]) => LocalOK(req[r])'
  BY DEF PlacesFixed, LocalOK
<1>. QED
  BY <1>1, <1>2, <1>3, <1>4 DEF OneInv, PlacesFixed

LEMMA SingleCopy ==
  ASSUME Single, AllLatest, NEW l \in Locations, Reaches(l), store[l] # None
  PROVE  OnlyIn({l}, {}) /\ store[l] = version
BY DEF Single, OnlyIn, AllLatest

LEMMA SinglePrevious ==
  ASSUME Single, AllLatest, NEW c \in Clusters, previous[c] # None
  PROVE  OnlyIn({}, {c}) /\ previous[c] = version
BY DEF Single, OnlyIn, AllLatest

LEMMA LoadStepsOne ==
  ASSUME TypeOK, NEW r \in Requests, OneInv(req[r]),
         GetHits(r) \/ GetMisses(r) \/ PreviousHits(r) \/ PreviousMisses(r) \/ GetAgain(r)
  PROVE  OneInv(req[r])'
<1>. DEFINE q == req[r]
<1>0. q.pc \in {"get", "getPrevious", "getAgain"} /\ PlacesFixed /\ UNCHANGED crashes
  BY DEF GetHits, GetMisses, PreviousHits, PreviousMisses, GetAgain, At, caches, history, faults, PlacesFixed
<1>1. q.src = cookie /\ q.src \in Locations /\ Host(q.src) \in Clusters /\ Reaches(q.src)
  BY <1>0, HostType DEF OneInv, TypeOK, WellFormed, Request, Reaches
<1>2. Undisturbed => AllLatest /\ Single /\ ~q.drop /\ ~\E l \in Locations : late[l] > 0
  BY <1>0 DEF OneInv, PlacesOK, LocalOK
<1>3. CASE GetHits(r) \/ GetAgain(r)
  <2>1. Loaded(r, store[q.src])
    BY <1>3 DEF GetHits, GetAgain
  <2>2. Undisturbed /\ store[q.src] # None => OnlyIn({q.src}, {}) /\ store[q.src] = version
    BY <1>1, <1>2, SingleCopy
  <2>3. Undisturbed => PlacesOK(req'[r]) /\ LocalOK(req'[r])
    BY <1>1, <1>2, <2>1, <2>2, LoadedFields DEF PlacesOK, LocalOK
  <2>. QED
    BY <1>0, <1>1, <2>1, <2>3, QuietOne, LoadedFields
<1>4. CASE GetMisses(r) \/ PreviousMisses(r)
  <2>1. GoTo(r, "getPrevious") \/ GoTo(r, "getAgain")
    BY <1>4 DEF GetMisses, PreviousMisses
  <2>2. /\ req'[r].pc \in {"getPrevious", "getAgain"} /\ req'[r].src = q.src /\ req'[r].drop = q.drop
    BY <2>1, GoToFields
  <2>3. Undisturbed => PlacesOK(req'[r]) /\ LocalOK(req'[r])
    BY <1>2, <2>2 DEF PlacesOK, LocalOK
  <2>. QED
    BY <1>0, <1>1, <2>2, <2>3, QuietOne
<1>5. CASE PreviousHits(r)
  <2>1. /\ req'[r].pc = "set" /\ req'[r].data = previous[Host(q.src)]
        /\ req'[r].src = q.src /\ req'[r].drop = q.drop /\ previous[Host(q.src)] # None
    BY <1>5 DEF PreviousHits, TypeOK, Request
  <2>2. Undisturbed => OnlyIn({}, {Host(q.src)}) /\ previous[Host(q.src)] = version
    BY <1>1, <1>2, <2>1, SinglePrevious
  <2>3. Undisturbed => PlacesOK(req'[r]) /\ LocalOK(req'[r])
    BY <1>2, <2>1, <2>2 DEF PlacesOK, LocalOK
  <2>. QED
    BY <1>0, <1>1, <2>1, <2>3, QuietOne
<1>. QED
  BY <1>3, <1>4, <1>5

LEMMA MoveStepsOne ==
  ASSUME TypeOK, NEW r \in Requests, OneInv(req[r]),
         SetCurrent(r) \/ DeletePrevious(r) \/ Copy(r) \/ DeleteSource(r)
  PROVE  OneInv(req[r])'
<1>. DEFINE q == req[r]
<1>0. /\ q.pc \in {"set", "deletePrevious", "copy", "delete"}
      /\ UNCHANGED <<cookie, late, version, crashes>>
  BY DEF SetCurrent, DeletePrevious, Copy, DeleteSource, At, history, faults
<1>1. /\ q.src = cookie /\ q.src \in Locations /\ Host(q.src) \in Clusters /\ Reaches(q.src)
      /\ q.at \in Clusters /\ q.at \in Locations /\ Reaches(q.at) /\ q.data # None
  BY <1>0, HostType, SessionAssumption DEF OneInv, TypeOK, WellFormed, Request, Reaches, Locations
<1>2. Undisturbed' <=> Undisturbed
  BY <1>0 DEF Undisturbed
<1>3. /\ Undisturbed => /\ AllLatest /\ ~q.drop /\ q.data = version
                        /\ ~\E l \in Locations : late[l] > 0
      /\ \A l \in Locations : Reaches(l)' <=> Reaches(l)
  BY <1>0 DEF OneInv, LocalOK, Reaches
<1>4. /\ store \in [Locations -> Versions \cup {None}] /\ previous \in [Clusters -> Versions \cup {None}]
  BY DEF TypeOK
<1>5. CASE SetCurrent(r)
  <2>1. /\ req'[r].pc = "deletePrevious" /\ req'[r].src = q.src /\ req'[r].at = q.at
        /\ req'[r].data = q.data /\ req'[r].drop = q.drop
    BY <1>5, GoToFields DEF SetCurrent
  <2>2. store' = [store EXCEPT ![q.src] = q.data] /\ previous' = previous
    BY <1>5 DEF SetCurrent
  <2>3. Undisturbed => OnlyIn({}, {Host(q.src)})
    BY <1>5 DEF SetCurrent, At, OneInv, PlacesOK
  <2>4. Undisturbed => AllLatest' /\ store'[q.src] = version
    BY <1>0, <1>1, <1>3, <1>4, <2>2 DEF AllLatest
  <2>5. Undisturbed =>
          /\ \A l \in Locations : Reaches(l)' /\ store'[l] # None => l \in {q.src}
          /\ \A c \in Clusters : previous'[c] # None => c \in {Host(q.src)}
    BY <1>1, <1>3, <1>4, <2>2, <2>3 DEF OnlyIn
  <2>. QED
    BY <1>0, <1>1, <1>2, <1>3, <2>1, <2>4, <2>5 DEF OneInv, PlacesOK, LocalOK, OnlyIn, Host
<1>6. CASE DeletePrevious(r)
  <2>1. /\ req'[r].pc = (IF q.src = q.at THEN "view" ELSE "copy")
        /\ req'[r].src = q.src /\ req'[r].at = q.at
        /\ req'[r].data = q.data /\ req'[r].drop = q.drop
    BY <1>1, <1>6, LoadedFields DEF DeletePrevious
  <2>2. previous' = [previous EXCEPT ![Host(q.src)] = None] /\ store' = store
    BY <1>6 DEF DeletePrevious
  <2>3. Undisturbed => OnlyIn({q.src}, {Host(q.src)}) /\ store[q.src] = version
    BY <1>6 DEF DeletePrevious, At, OneInv, PlacesOK
  <2>4. Undisturbed => AllLatest'
    BY <1>0, <1>1, <1>3, <1>4, <2>2 DEF AllLatest
  <2>5. Undisturbed =>
          /\ \A l \in Locations : Reaches(l)' /\ store'[l] # None => l \in {q.src}
          /\ \A c \in Clusters : previous'[c] # None => c \in {}
    BY <1>1, <1>3, <1>4, <2>2, <2>3 DEF OnlyIn
  <2>6. Undisturbed => Single'
    BY <1>1, <2>5 DEF Single, OnlyIn
  <2>. QED
    BY <1>0, <1>1, <1>2, <1>3, <2>1, <2>2, <2>3, <2>4, <2>5, <2>6
       DEF OneInv, PlacesOK, LocalOK, OnlyIn
<1>7. CASE Copy(r)
  <2>1. /\ req'[r].pc = "delete" /\ req'[r].src = q.src /\ req'[r].at = q.at
        /\ req'[r].data = q.data /\ req'[r].drop = q.drop
    BY <1>7, GoToFields DEF Copy
  <2>2. store' = [store EXCEPT ![q.at] = q.data] /\ previous' = previous
    BY <1>7 DEF Copy
  <2>3. Undisturbed => OnlyIn({q.src}, {}) /\ q.at # q.src
    BY <1>7 DEF Copy, At, OneInv, PlacesOK, LocalOK
  <2>4. Undisturbed => AllLatest' /\ store'[q.at] = version
    BY <1>0, <1>1, <1>3, <1>4, <2>2 DEF AllLatest
  <2>5. Undisturbed =>
          /\ \A l \in Locations : Reaches(l)' /\ store'[l] # None => l \in {q.src, q.at}
          /\ \A c \in Clusters : previous'[c] # None => c \in {}
    BY <1>1, <1>3, <1>4, <2>2, <2>3 DEF OnlyIn
  <2>. QED
    BY <1>0, <1>1, <1>2, <1>3, <2>1, <2>3, <2>4, <2>5 DEF OneInv, PlacesOK, LocalOK, OnlyIn
<1>8. CASE DeleteSource(r)
  <2>1. /\ req'[r].pc = "view" /\ req'[r].src = q.src /\ req'[r].at = q.at
        /\ req'[r].data = q.data /\ req'[r].drop = q.drop
    BY <1>8, GoToFields DEF DeleteSource
  <2>2. store' = [store EXCEPT ![q.src] = None] /\ previous' = previous
    BY <1>8 DEF DeleteSource
  <2>3. Undisturbed => OnlyIn({q.src, q.at}, {}) /\ store[q.at] = version /\ q.at # q.src
    BY <1>8 DEF DeleteSource, At, OneInv, PlacesOK, LocalOK
  <2>4. Undisturbed => AllLatest' /\ store'[q.at] = version
    BY <1>0, <1>1, <1>3, <1>4, <2>2, <2>3 DEF AllLatest
  <2>5. Undisturbed =>
          /\ \A l \in Locations : Reaches(l)' /\ store'[l] # None => l \in {q.at}
          /\ \A c \in Clusters : previous'[c] # None => c \in {}
    BY <1>1, <1>3, <1>4, <2>2, <2>3 DEF OnlyIn
  <2>6. Undisturbed => Single'
    BY <1>1, <2>5 DEF Single, OnlyIn
  <2>. QED
    BY <1>0, <1>1, <1>2, <1>3, <2>1, <2>4, <2>5, <2>6 DEF OneInv, PlacesOK, LocalOK, OnlyIn
<1>. QED
  BY <1>5, <1>6, <1>7, <1>8

LEMMA OwnOne ==
  ASSUME TypeOK, NEW r \in Requests, OneInv(req[r]), GetOwn(r)
  PROVE  OneInv(req[r])'
<1>. DEFINE q == req[r]
            d == store[q.at]
<1>0. q.pc = "own" /\ PlacesFixed /\ UNCHANGED crashes
  BY DEF GetOwn, At, caches, history, faults, PlacesFixed
<1>1. /\ q.src = cookie /\ q.src \in Locations /\ q.at \in Clusters /\ q.at \in Locations
      /\ Reaches(q.at)
  BY <1>0, SessionAssumption DEF OneInv, TypeOK, WellFormed, Request, Reaches, Locations
<1>2. /\ req'[r].pc = "view" /\ req'[r].data = d /\ req'[r].src = q.src /\ req'[r].at = q.at
      /\ req'[r].drop = (d = None /\ Host(q.src) # q.at)
  BY DEF GetOwn, TypeOK, Request
<1>3. Undisturbed =>
        /\ AllLatest /\ q.at # q.src
        /\ ~\E l \in Locations : late[l] > 0
        /\ Single \/ OnlyIn({q.src}, {Host(q.src)})
  BY <1>0 DEF OneInv, PlacesOK, LocalOK
<1>4. ASSUME Undisturbed, d # None PROVE OnlyIn({q.at}, {}) /\ d = version /\ Single
  <2>1. ~OnlyIn({q.src}, {Host(q.src)})
    BY <1>1, <1>3, <1>4 DEF OnlyIn
  <2>. QED
    BY <1>1, <1>3, <1>4, <2>1, SingleCopy
<1>5. ASSUME Undisturbed, d = None, Host(q.src) = q.at
      PROVE  Single \/ (q.src = Standalone /\ OnlyIn({Standalone}, {Default}))
  <2>1. q.src = Standalone /\ Host(q.src) = Default
    BY <1>3, <1>5 DEF Host
  <2>. QED
    BY <1>3, <1>5, <2>1
<1>6. Undisturbed => PlacesOK(req'[r]) /\ LocalOK(req'[r])
  BY <1>2, <1>3, <1>4, <1>5 DEF PlacesOK, LocalOK
<1>. QED
  BY <1>0, <1>1, <1>2, <1>6, QuietOne

LEMMA AnswerStepsOne ==
  ASSUME TypeOK, NEW r \in Requests, OneInv(req[r]),
         Answer(r) \/ SaveSession(r) \/ Flush(r) \/ Respond(r)
  PROVE  OneInv(req[r])'
<1>. DEFINE q == req[r]
<1>0. q.pc \in {"view", "respond"}
  BY DEF Answer, SaveSession, Flush, Respond, At
<1>1. /\ q.src = cookie /\ q.src \in Locations /\ q.at \in Clusters /\ q.at \in Locations
      /\ Reaches(q.at) /\ q.drop \in BOOLEAN
  BY <1>0, SessionAssumption DEF OneInv, TypeOK, WellFormed, Request, Reaches, Locations
<1>2. /\ store \in [Locations -> Versions \cup {None}] /\ previous \in [Clusters -> Versions \cup {None}]
      /\ version \in Nat /\ version + 1 # None
  BY SessionAssumption DEF TypeOK, Versions
<1>3. ASSUME q.data # None, q.pc = "view", Undisturbed
      PROVE  OnlyIn({q.at}, {}) /\ Single /\ ~q.drop /\ ~\E l \in Locations : late[l] > 0
  BY <1>1, <1>3 DEF OneInv, PlacesOK, LocalOK, Single
<1>4. CASE Answer(r)
  <2>1. PlacesFixed /\ UNCHANGED crashes /\ q.pc = "view"
    BY <1>4 DEF Answer, At, caches, history, faults, PlacesFixed
  <2>2. /\ req'[r].pc = "respond" /\ req'[r].src = q.src
        /\ req'[r].drop = (q.drop \/ q.kind = "logout")
    BY <1>4 DEF Answer, TypeOK, Request
  <2>3. Undisturbed => PlacesOK(req'[r]) /\ LocalOK(req'[r])
    BY <1>1, <1>3, <2>1, <2>2 DEF OneInv, PlacesOK, LocalOK
  <2>. QED
    BY <1>1, <2>1, <2>2, <2>3, QuietOne
<1>5. CASE SaveSession(r)
  <2>1. /\ req'[r].pc = "respond" /\ req'[r].src = q.src /\ req'[r].at = q.at
        /\ req'[r].drop = q.drop
    BY <1>5, GoToFields DEF SaveSession
  <2>2. /\ store' = [store EXCEPT ![q.at] = version'] /\ version' = version + 1
        /\ UNCHANGED <<previous, cookie, late, crashes>> /\ q.pc = "view" /\ q.data # None
    BY <1>5 DEF SaveSession, At, faults
  <2>3. ASSUME Undisturbed
        PROVE  /\ AllLatest'
               /\ \A l \in Locations : Reaches(l)' /\ store'[l] # None => l \in {q.at}
               /\ \A c \in Clusters : previous'[c] # None => c \in {}
    BY <1>1, <1>2, <1>3, <2>2, <2>3 DEF OnlyIn, AllLatest, Reaches
  <2>4. ASSUME Undisturbed PROVE Single'
    BY <1>1, <2>3, <2>4 DEF Single, OnlyIn
  <2>. QED
    BY <1>1, <1>3, <2>1, <2>2, <2>3, <2>4 DEF OneInv, PlacesOK, LocalOK, Undisturbed
<1>6. CASE Flush(r)
  <2>1. req'[r].pc = "respond" /\ req'[r].src = q.src /\ req'[r].drop = TRUE
    BY <1>6 DEF Flush, TypeOK, Request
  <2>2. store' = [store EXCEPT ![q.at] = None] /\ UNCHANGED <<previous, cookie, late, version, crashes>>
    BY <1>6 DEF Flush, faults
  <2>3. Undisturbed => AllLatest'
    BY <1>1, <1>2, <2>2 DEF OneInv, AllLatest, Reaches
  <2>. QED
    BY <1>1, <2>1, <2>2, <2>3 DEF OneInv, PlacesOK, LocalOK, Undisturbed
<1>7. CASE Respond(r)
  <2>1. /\ req'[r].pc = "idle" /\ req'[r].drop = FALSE
        /\ cookie' = (IF q.drop THEN None ELSE q.at)
        /\ UNCHANGED <<store, previous, version, late, crashes>> /\ q.pc = "respond"
    BY <1>7 DEF Respond, TypeOK, Idle, At, caches, history, faults
  <2>2. cookie # None
    BY <1>1, SessionAssumption
  <2>3. ASSUME Undisturbed' PROVE Undisturbed /\ ~q.drop /\ cookie' = q.at /\ cookie' # Standalone
    BY <1>1, <2>1, <2>2, <2>3, SessionAssumption DEF Undisturbed
  <2>4. ASSUME Undisturbed' PROVE AllLatest' /\ ~\E l \in Locations : late[l] > 0
    BY <2>1, <2>3, <2>4 DEF OneInv, AllLatest, Reaches, LocalOK
  <2>5. ASSUME Undisturbed' PROVE Single'
    <3>1. Single \/ OnlyIn({Standalone}, {Default})
      BY <2>1, <2>3, <2>5 DEF OneInv, PlacesOK
    <3>2. CASE Single
      BY <2>1, <2>3, <2>5, <3>2 DEF Single, OnlyIn, Reaches
    <3>3. CASE OnlyIn({Standalone}, {Default})
      BY <2>1, <2>3, <2>5, <3>3, SessionAssumption DEF Single, OnlyIn, Reaches
    <3>. QED
      BY <3>1, <3>2, <3>3
  <2>. QED
    BY <2>1, <2>3, <2>4, <2>5 DEF OneInv, PlacesOK, LocalOK
<1>. QED
  BY <1>4, <1>5, <1>6, <1>7

LEMMA FaultStepsOne ==
  ASSUME TypeOK, NEW r \in Requests, OneInv(req[r]),
         LoadFails(r) \/ MoveFails(r) \/ DeleteFails(r) \/ AnswerFails(r)
  PROVE  OneInv(req[r])'
<1>. DEFINE q == req[r]
<1>0. PlacesFixed /\ UNCHANGED crashes /\ q.pc # "idle"
  BY DEF LoadFails, MoveFails, DeleteFails, AnswerFails, At, Fail, caches, history, PlacesFixed
<1>1. /\ q.src = cookie /\ q.src \in Locations /\ q.at \in Clusters /\ q.at \in Locations
  BY <1>0, SessionAssumption DEF OneInv, TypeOK, WellFormed, Request, Locations
<1>2. ASSUME WithoutSession(r) PROVE OneInv(req[r])'
  <2>1. /\ req'[r].pc = "view" /\ req'[r].data = None /\ req'[r].drop = TRUE /\ req'[r].src = q.src
    BY <1>2, WithoutSessionFields
  <2>2. PlacesOK(req'[r]) /\ LocalOK(req'[r])
    BY <2>1 DEF PlacesOK, LocalOK
  <2>. QED
    BY <1>0, <1>1, <2>1, <2>2, QuietOne
<1>3. CASE LoadFails(r)
  <2>1. CASE q.src = q.at
    BY <1>2, <1>3, <2>1 DEF LoadFails
  <2>2. CASE q.src # q.at
    <3>1. /\ req'[r].pc = "own" /\ req'[r].data = None /\ req'[r].src = q.src /\ req'[r].at = q.at
          /\ req'[r].drop = q.drop
      BY <1>3, <2>2, LoadedFields DEF LoadFails
    <3>2. Undisturbed => ~q.drop /\ ~\E l \in Locations : late[l] > 0
      BY <1>3 DEF LoadFails, OneInv, LocalOK
    <3>3. Undisturbed => Single \/ OnlyIn({q.src}, {Host(q.src)})
      BY <1>3 DEF LoadFails, OneInv, PlacesOK, OnlyIn
    <3>4. Undisturbed => PlacesOK(req'[r]) /\ LocalOK(req'[r])
      BY <2>2, <3>1, <3>2, <3>3 DEF PlacesOK, LocalOK
    <3>. QED
      BY <1>0, <1>1, <3>1, <3>4, QuietOne
  <2>. QED
    BY <2>1, <2>2
<1>4. CASE MoveFails(r) \/ DeleteFails(r)
  BY <1>2, <1>4 DEF MoveFails, DeleteFails
<1>5. CASE AnswerFails(r)
  <2>1. req'[r].pc = "idle" /\ req'[r].drop = FALSE /\ q.pc = "view" /\ q.data # None
    BY <1>5 DEF AnswerFails, At, TypeOK, Idle
  <2>2. Undisturbed => Single /\ ~\E l \in Locations : late[l] > 0
    BY <1>1, <2>1 DEF OneInv, PlacesOK, LocalOK, Single
  <2>3. Undisturbed => PlacesOK(req'[r]) /\ LocalOK(req'[r])
    BY <2>1, <2>2 DEF PlacesOK, LocalOK
  <2>. QED
    BY <1>0, <2>1, <2>3, QuietOne
<1>. QED
  BY <1>3, <1>4, <1>5

LEMMA LateStepsOne ==
  ASSUME TypeOK, NEW r \in Requests, OneInv(req[r]),
         DeleteTimesOut(r) \/ Crash(r) \/ \E l \in Locations : LateDelete(l)
  PROVE  OneInv(req[r])'
<1>. DEFINE q == req[r]
<1>1. CASE DeleteTimesOut(r)
  <2>1. UNCHANGED <<store, previous, cookie, version, crashes>> /\ WithoutSession(r) /\ q.pc # "idle"
    BY <1>1 DEF DeleteTimesOut, At, Fail, caches, history
  <2>2. /\ req'[r].pc = "view" /\ req'[r].data = None /\ req'[r].drop = TRUE /\ req'[r].src = q.src
    BY <2>1, WithoutSessionFields
  <2>3. AllLatest => AllLatest'
    BY <2>1 DEF AllLatest, Reaches
  <2>. QED
    BY <2>1, <2>2, <2>3 DEF OneInv, PlacesOK, LocalOK, Undisturbed
<1>2. CASE Crash(r)
  <2>1. crashes' # 0 /\ req'[r].pc = "idle"
    BY <1>2 DEF Crash, TypeOK, Idle
  <2>. QED
    BY <2>1 DEF OneInv, Undisturbed
<1>3. ASSUME NEW l \in Locations, LateDelete(l) PROVE OneInv(req[r])'
  <2>1. /\ late[l] > 0 /\ store' = [store EXCEPT ![l] = None]
        /\ UNCHANGED <<previous, cookie, version, crashes, req>>
    BY <1>3 DEF LateDelete, faults
  <2>2. Undisturbed => q.drop
    BY <2>1 DEF OneInv, LocalOK
  <2>3. AllLatest => AllLatest'
    BY <2>1 DEF AllLatest, Reaches, TypeOK
  <2>. QED
    BY <2>1, <2>2, <2>3 DEF OneInv, PlacesOK, LocalOK, Undisturbed
<1>. QED
  BY <1>1, <1>2, <1>3

LEMMA QuietStepsOne ==
  ASSUME TypeOK, NEW r \in Requests, OneInv(req[r]),
         (\E kind \in Kinds, c \in Routes : Begin(r, kind, c)) \/ UNCHANGED vars
  PROVE  OneInv(req[r])'
<1>1. CASE \E kind \in Kinds, c \in Routes : Begin(r, kind, c)
  <2>1. PICK kind \in Kinds, c \in Routes : Begin(r, kind, c)
    BY <1>1
  <2>2. PlacesFixed /\ UNCHANGED crashes /\ req[r].pc = "idle"
    BY <2>1 DEF Begin, At, caches, history, faults, PlacesFixed
  <2>3. req'[r].pc = "get" /\ req'[r].src = cookie /\ req'[r].drop = FALSE
    BY <2>1 DEF Begin, TypeOK, Idle
  <2>4. Undisturbed => Single /\ ~\E l \in Locations : late[l] > 0
    BY <2>2 DEF OneInv, PlacesOK, LocalOK
  <2>. QED
    BY <2>2, <2>3, <2>4, QuietOne DEF PlacesOK, LocalOK
<1>2. CASE UNCHANGED vars
  BY <1>2, QuietOne DEF vars, caches, history, faults, PlacesFixed, OneInv
<1>. QED
  BY <1>1, <1>2

LEMMA OneNext ==
  ASSUME TypeOK, NEW one \in Requests, Requests = {one}, OneInv(req[one]), [Next]_vars
  PROVE  OneInv(req[one])'
<1>1. CASE Next
  BY <1>1, QuietStepsOne, LoadStepsOne, MoveStepsOne, OwnOne, AnswerStepsOne, FaultStepsOne,
     LateStepsOne DEF Next
<1>2. CASE UNCHANGED vars
  BY <1>2, QuietStepsOne
<1>. QED
  BY <1>1, <1>2

(* The browser can reach a copy of the session.                            *)
Present ==
  /\ cookie # None
  /\ \/ \E l \in Locations : Reaches(l) /\ store[l] # None
     \/ \E c \in Clusters : previous[c] # None

(***************************************************************************)
(* What auth2 would show of the session is its latest version, or nothing.  *)
(***************************************************************************)
LEMMA LatestIsVersion ==
  ASSUME TypeOK, NEW r \in Requests, OneInv(req[r]), crashes = 0
  PROVE  Latest = IF Present THEN version ELSE None
<1>1. CASE cookie = None
  BY <1>1 DEF Latest, Reachable, Present
<1>2. CASE cookie # None
  <2>1. AllLatest
    BY <1>2 DEF OneInv, Undisturbed
  <2>2. \A l \in Locations : Reaches(l) <=> l \in (IF cookie = Standalone THEN Locations ELSE Clusters)
    BY SessionAssumption DEF Reaches, Locations
  <2>3. Reachable \subseteq {version} /\ (Present <=> Reachable # {})
    BY <1>2, <2>1, <2>2 DEF Reachable, CopiesIn, Present, AllLatest, Locations
  <2>4. CASE Present
    <3>1. Reachable = {version}
      BY <2>3, <2>4
    <3>2. version \in Nat
      BY DEF TypeOK, Versions
    <3>. QED
      BY <2>4, <3>1, <3>2 DEF Latest
  <2>5. CASE ~Present
    BY <2>3, <2>5 DEF Latest
  <2>. QED
    BY <2>4, <2>5
<1>. QED
  BY <1>1, <1>2

LEMMA LatestIsVersionNext ==
  ASSUME TypeOK', NEW r \in Requests, OneInv(req[r])', crashes' = 0
  PROVE  Latest' = IF Present' THEN version' ELSE None
<1>1. (TypeOK /\ OneInv(req[r]) /\ crashes = 0 => Latest = IF Present THEN version ELSE None)'
  BY LatestIsVersion, PTL
<1>. QED
  BY <1>1

LEMMA LostOrKept ==
  ASSUME TypeOK, TypeOK', NEW r \in Requests, OneInv(req[r]), OneInv(req[r])',
         crashes = 0, crashes' = 0, version' = version, Present' => Present
  PROVE  Latest' \in {Latest, None}
BY LatestIsVersion, LatestIsVersionNext

(***************************************************************************)
(* Moving the session is a stutter of the abstract session, or loses it.    *)
(***************************************************************************)
LEMMA MoveIsInvisible ==
  ASSUME TypeOK, TypeOK', NEW r \in Requests, OneInv(req[r]), OneInv(req[r])',
         crashes = 0, crashes' = 0, version' = version, Present' => Present, seen' = seen
  PROVE  OneSession!End \/ UNCHANGED OneSession!vars
<1>1. Latest' \in {Latest, None}
  BY LostOrKept
<1>. QED
  BY <1>1 DEF OneSession!End, OneSession!vars

(* A step that leaves the caches and the cookie alone.                     *)
LEMMA QuietPresent ==
  ASSUME UNCHANGED <<store, previous, cookie>>
  PROVE  Present' => Present
BY DEF Present, Reaches

LEMMA LoadStepsPresent ==
  ASSUME TypeOK, NEW r \in Requests, OneInv(req[r]), crashes = 0,
         GetHits(r) \/ GetMisses(r) \/ PreviousHits(r) \/ PreviousMisses(r) \/ GetAgain(r)
         \/ SetCurrent(r) \/ DeletePrevious(r) \/ Copy(r) \/ DeleteSource(r) \/ GetOwn(r)
  PROVE  UNCHANGED <<version, seen>> /\ (Present' => Present)
<1>. DEFINE q == req[r]
<1>1. UNCHANGED <<version, seen>>
  BY DEF GetHits, GetMisses, PreviousHits, PreviousMisses, GetAgain, SetCurrent,
         DeletePrevious, Copy, DeleteSource, GetOwn, history
<1>2. CASE GetHits(r) \/ GetMisses(r) \/ PreviousHits(r) \/ PreviousMisses(r) \/ GetAgain(r) \/ GetOwn(r)
  BY <1>1, <1>2, QuietPresent
     DEF GetHits, GetMisses, PreviousHits, PreviousMisses, GetAgain, GetOwn, caches
<1>3. CASE DeletePrevious(r) \/ DeleteSource(r)
  <2>1. /\ \A l \in Locations : store'[l] # None => store[l] # None
        /\ \A c \in Clusters : previous'[c] # None => previous[c] # None
        /\ cookie' = cookie
    BY <1>3 DEF DeletePrevious, DeleteSource, TypeOK
  <2>. QED
    BY <1>1, <2>1 DEF Present, Reaches
<1>4. CASE SetCurrent(r) \/ Copy(r)
  <2>1. q.pc \in {"set", "copy"} /\ UNCHANGED <<cookie, previous>>
    BY <1>4 DEF SetCurrent, Copy, At
  <2>2. q.src = cookie /\ cookie \in Locations /\ Host(q.src) \in Clusters /\ Reaches(q.src) /\ version # None
    BY <2>1, HostType, SessionAssumption DEF OneInv, TypeOK, WellFormed, Request, Reaches, Versions
  <2>3. previous[Host(q.src)] = version \/ store[q.src] = version
    BY <2>1, <2>2, SessionAssumption DEF OneInv, PlacesOK, Undisturbed
  <2>4. Present
    BY <2>2, <2>3, SessionAssumption DEF Present
  <2>. QED
    BY <1>1, <2>4
<1>. QED
  BY <1>2, <1>3, <1>4

LEMMA FaultStepsPresent ==
  ASSUME TypeOK, NEW r \in Requests, OneInv(req[r]),
         LoadFails(r) \/ MoveFails(r) \/ DeleteFails(r) \/ DeleteTimesOut(r) \/ AnswerFails(r)
         \/ Respond(r) \/ (\E kind \in Kinds, c \in Routes : Begin(r, kind, c))
         \/ \E l \in Locations : LateDelete(l)
  PROVE  UNCHANGED <<version, seen>> /\ (Present' => Present)
<1>. DEFINE q == req[r]
<1>1. UNCHANGED <<version, seen>>
  BY DEF LoadFails, MoveFails, DeleteFails, DeleteTimesOut, AnswerFails, Respond, Begin, LateDelete,
         history
<1>2. CASE \/ LoadFails(r) \/ MoveFails(r) \/ DeleteFails(r) \/ DeleteTimesOut(r) \/ AnswerFails(r)
           \/ \E kind \in Kinds, c \in Routes : Begin(r, kind, c)
  BY <1>1, <1>2, QuietPresent
     DEF LoadFails, MoveFails, DeleteFails, DeleteTimesOut, AnswerFails, Begin, caches
<1>3. CASE Respond(r)
  <2>1. q.pc = "respond" /\ UNCHANGED <<store, previous>> /\ cookie' \in {None, q.at}
    BY <1>3 DEF Respond, At, caches
  <2>2. cookie # None /\ q.at # Standalone
    BY <2>1, SessionAssumption DEF OneInv, TypeOK, WellFormed, Request, Locations
  <2>3. \A l \in Locations : cookie' # None /\ Reaches(l)' => Reaches(l)
    BY <2>1, <2>2 DEF Reaches
  <2>. QED
    BY <1>1, <2>1, <2>2, <2>3 DEF Present
<1>4. CASE \E l \in Locations : LateDelete(l)
  <2>1. /\ \A l \in Locations : store'[l] # None => store[l] # None
        /\ UNCHANGED <<previous, cookie>>
    BY <1>4 DEF LateDelete, TypeOK
  <2>. QED
    BY <1>1, <2>1 DEF Present, Reaches
<1>. QED
  BY <1>2, <1>3, <1>4

(***************************************************************************)
(* The view answers from the latest version, or from nothing.               *)
(***************************************************************************)
LEMMA AnswersLatest ==
  ASSUME TypeOK, NEW r \in Requests, OneInv(req[r]), crashes = 0, At(r, "view")
  PROVE  /\ req[r].data \in {None, Latest}
         /\ req[r].data # None => Present /\ Latest = version
<1>. DEFINE q == req[r]
<1>1. /\ q.src = cookie /\ cookie # None /\ q.at \in Clusters /\ q.at \in Locations /\ Reaches(q.at)
      /\ version # None
  BY SessionAssumption DEF At, OneInv, TypeOK, WellFormed, Request, Reaches, Locations, Versions
<1>2. q.data \in {None, version} /\ (q.data # None => store[q.at] = version)
  BY <1>1 DEF At, OneInv, Undisturbed, PlacesOK, LocalOK
<1>3. q.data # None => Present
  BY <1>1, <1>2 DEF Present
<1>. QED
  BY <1>2, <1>3, LatestIsVersion

LEMMA AnswerStepsSession ==
  ASSUME TypeOK, TypeOK', NEW r \in Requests, OneInv(req[r]), OneInv(req[r])',
         crashes = 0, crashes' = 0, Answer(r) \/ SaveSession(r) \/ Flush(r)
  PROVE  OneSession!Next
<1>. DEFINE q == req[r]
<1>1. At(r, "view") /\ q.at \in Clusters /\ q.at \in Locations /\ seen' = q.data /\ q.src = cookie /\ cookie # None
  BY SessionAssumption
     DEF Answer, SaveSession, Flush, At, OneInv, TypeOK, WellFormed, Request, Locations
<1>2. q.data \in {None, Latest} /\ (q.data # None => Present /\ Latest = version)
  BY <1>1, AnswersLatest
<1>3. version \in Nat /\ version + 1 # None /\ None \notin Nat
  BY SessionAssumption DEF TypeOK, Versions
<1>4. CASE Answer(r)
  <2>1. Latest' = Latest
    BY <1>4 DEF Answer, caches, Latest, Reachable, CopiesIn
  <2>. QED
    BY <1>1, <1>2, <2>1 DEF OneSession!Next, OneSession!Read
<1>5. CASE SaveSession(r)
  <2>1. /\ q.data # None /\ version' = version + 1 /\ cookie' = cookie
        /\ store' = [store EXCEPT ![q.at] = version']
    BY <1>5 DEF SaveSession
  <2>2. Present'
    <3>1. store'[q.at] # None
      BY <1>1, <1>3, <2>1 DEF TypeOK
    <3>2. \E l \in Locations : Reaches(l)' /\ store'[l] # None
      BY <1>1, <3>1, SessionAssumption DEF Reaches
    <3>. QED
      BY <1>1, <2>1, <3>2 DEF Present
  <2>3. Latest' = Latest + 1
    BY <1>2, <2>1, <2>2, LatestIsVersionNext
  <2>. QED
    BY <1>1, <1>2, <2>1, <2>3 DEF OneSession!Next, OneSession!Write
<1>6. CASE Flush(r)
  <2>1. q.data # None /\ UNCHANGED <<version, cookie, previous>>
    BY <1>6 DEF Flush
  <2>2. Latest' \in {Latest, None}
    BY <1>2, <2>1, LostOrKept
  <2>. QED
    BY <1>1, <1>2, <2>1, <2>2 DEF OneSession!Next, OneSession!Read, OneSession!End
<1>. QED
  BY <1>4, <1>5, <1>6

LEMMA SessionInit ==
  ASSUME TypeOK, NEW one \in Requests, OneInv(req[one]), Init
  PROVE  OneSession!Init
<1>1. cookie \in Locations /\ Host(cookie) \in Clusters /\ cookie # None /\ 1 # None
  BY HostType, SessionAssumption DEF Init
<1>2. (\E l \in Locations : Reaches(l) /\ store[l] # None) \/ \E c \in Clusters : previous[c] # None
  BY <1>1 DEF Init, Reaches
<1>3. Present /\ crashes = 0 /\ version = 1 /\ seen = None
  BY <1>1, <1>2 DEF Init, Present
<1>. QED
  BY <1>3, LatestIsVersion DEF OneSession!Init

LEMMA CrashesGrow ==
  ASSUME TypeOK, [Next]_vars, crashes' = 0
  PROVE  crashes = 0 /\ ~\E r \in Requests : Crash(r)
<1>1. crashes \in Nat
  BY DEF TypeOK
<1>2. CASE \E r \in Requests : Crash(r)
  BY <1>1, <1>2 DEF Crash
<1>3. CASE ~\E r \in Requests : Crash(r)
  BY <1>3 DEF Next, vars, caches, history, faults, Begin, GetHits, GetMisses, PreviousHits,
     PreviousMisses, SetCurrent, DeletePrevious, GetAgain, Copy, DeleteSource, GetOwn, Answer,
     SaveSession, Flush, Respond, LoadFails, MoveFails, DeleteFails, DeleteTimesOut, AnswerFails,
     Fail, LateDelete
<1>. QED
  BY <1>2, <1>3

LEMMA SessionStep ==
  ASSUME TypeOK, TypeOK', NEW one \in Requests, Requests = {one}, OneInv(req[one]),
         OneInv(req[one])', [Next]_vars, crashes' = 0
  PROVE  OneSession!Next \/ UNCHANGED OneSession!vars
<1>1. crashes = 0 /\ ~Crash(one)
  BY CrashesGrow
<1>2. CASE Answer(one) \/ SaveSession(one) \/ Flush(one)
  BY <1>1, <1>2, AnswerStepsSession
<1>3. CASE \/ GetHits(one) \/ GetMisses(one) \/ PreviousHits(one) \/ PreviousMisses(one)
              \/ GetAgain(one) \/ SetCurrent(one) \/ DeletePrevious(one) \/ Copy(one)
              \/ DeleteSource(one) \/ GetOwn(one)
           \/ LoadFails(one) \/ MoveFails(one) \/ DeleteFails(one) \/ DeleteTimesOut(one)
              \/ AnswerFails(one) \/ Respond(one)
           \/ (\E kind \in Kinds, c \in Routes : Begin(one, kind, c))
           \/ \E l \in Locations : LateDelete(l)
  <2>1. UNCHANGED <<version, seen>> /\ (Present' => Present)
    BY <1>1, <1>3, LoadStepsPresent, FaultStepsPresent
  <2>. QED
    BY <1>1, <2>1, MoveIsInvisible DEF OneSession!Next
<1>4. CASE UNCHANGED vars
  BY <1>4 DEF vars, caches, OneSession!vars, Latest, Reachable, CopiesIn
<1>. QED
  BY <1>1, <1>2, <1>3, <1>4 DEF Next

(***************************************************************************)
(* For any number of clusters, failures and versions, a user with one       *)
(* request at a time sees one session, wherever clustersessionstore.py has  *)
(* moved its copies: every step implements a step of Session, or none,      *)
(* until a worker dies.                                                     *)
(***************************************************************************)
THEOREM ImplementsOneSession ==
  ASSUME NEW one \in Requests, Requests = {one}
  PROVE  Spec => ActsAsOneSession
<1>1. Init => TypeOK /\ OneInv(req[one]) /\ OneSession!Init
  BY InitType, OneInit, SessionInit
<1>2. TypeOK /\ OneInv(req[one]) /\ [Next]_vars => OneInv(req[one])'
  BY OneNext
<1>3. TypeOK /\ TypeOK' /\ OneInv(req[one]) /\ OneInv(req[one])' /\ [Next]_vars =>
        [crashes' = 0 => OneSession!Next]_(OneSession!vars)
  BY SessionStep
<1>. QED
  BY <1>1, <1>2, <1>3, TypeCorrect, PTL DEF Spec, ActsAsOneSession

=============================================================================
