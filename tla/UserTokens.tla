------------------------------ MODULE UserTokens ------------------------------
(***************************************************************************)
(* The access token of one user: created, enabled, disabled and revoked by  *)
(* the user (selfservice.py) or an administrator (admin.py), cached in the  *)
(* Redis of each cluster (patch.py, the listeners of models.py and          *)
(* clustermodels.py), and checked by '/sso/auth_basic' (views.py), which    *)
(* keeps its answers in each worker (cache.py).                             *)
(*                                                                         *)
(* Each cluster has several workers for clients and one for whoever changes *)
(* the token.  Each step is one call of Redis, of the database or of the    *)
(* other clusters.  UserToken.save has a transaction of its own, and the    *)
(* listeners run in it: caches are written and clusters are told before the *)
(* row is committed.  A request that the token does not admit may be        *)
(* admitted by its session, which this module does not follow.              *)
(***************************************************************************)
EXTENDS Naturals

CONSTANTS
  Clusters,
  Reached,      \* the clusters that clients reach; a request shares nothing but
                \*   the row with those of other clusters
  Servers,      \* the workers for clients of a cluster
  None,
  MaxTokens,    \* bound: tokens generated
  MaxBegun,     \* bound: changes and requests started, together
  MaxFaults     \* bound: calls of Redis or of a cluster that fail

Tokens  == 1..MaxTokens
NoToken == 0          \* also the token of a client that makes one up

Processes == Reached \X Servers
Home(w) == w[1]

(* A row of UserToken, and an instance of it.                              *)
UserToken == [enabled : BOOLEAN, token : Tokens \cup {NoToken}]

VARIABLES
  system,       \* whether it is a system user's token
  perRequest,   \* settings.CHECK_AUTH_BASIC_PER_REQUEST
  usertoken,    \* the row, or None
  lapsed,       \* tokens whose last day is over
  tokencache,   \* GET_USERTOKEN_KEY in the Redis of each cluster, or None
  authmap,      \* _basic_auth_map of each worker: the token of the answer
                \*   cached for the user's email, or None
  login,        \* the client's request in each worker
  edit,         \* the change in each cluster
  tokens, started, faults,   \* counters
  late,         \* history: an instance was cached that was not the row, or one
                \*   was left in the cache by a call that failed
  intruders,    \* history: tokens admitted although not valid at any moment of
                \*   their request
  revoked       \* history: tokens the row had once

settings == <<system, perRequest>>
counts   == <<tokens, started, faults>>
history  == <<late, intruders, revoked>>
vars     == <<settings, usertoken, lapsed, tokencache, authmap,
              login, edit, counts, history>>

NoLogin == [pc |-> "idle", token |-> NoToken, row |-> None, genuine |-> FALSE]
NoEdit  == [pc |-> "idle", kind |-> "enable", row |-> None, new |-> None]

Init ==
  /\ system \in BOOLEAN /\ perRequest \in BOOLEAN
  /\ usertoken \in {None, [enabled |-> FALSE, token |-> NoToken], [enabled |-> TRUE, token |-> 1]}
  /\ lapsed = {}
  /\ tokencache = [c \in Clusters |-> None]
  /\ authmap = [w \in Processes |-> None]
  /\ login = [w \in Processes |-> NoLogin]
  /\ edit = [c \in Clusters |-> NoEdit]
  /\ tokens = 1 /\ started = 0 /\ faults = 0
  /\ late = FALSE /\ intruders = {} /\ revoked = {}

(* is_valid, of a row or a cached instance; today is the same for all.      *)
Valid(ut, t) ==
  /\ ut # None
  /\ ut.enabled /\ ut.token # NoToken /\ ut.token = t
  /\ t \notin lapsed

(* The row, and what an open transaction has written over it.               *)
Rows == {usertoken} \cup {edit[c].new : c \in Clusters}

Fault == faults < MaxFaults /\ faults' = faults + 1

-----------------------------------------------------------------------------
(* A client presents a token.                                               *)
At(w, pc) == login[w].pc = pc

GoTo(w, pc) == login' = [login EXCEPT ![w].pc = pc]

(* Another answer than that of the token: the session's, or a demand for a  *)
(* token.                                                                   *)
Refused(w) == login' = [login EXCEPT ![w] = NoLogin]

PresentTrustsCache(w, t, fresh) ==
  LET hit == authmap[w] # None /\ authmap[w] = t /\ fresh IN
  /\ At(w, "idle") /\ started < MaxBegun
  /\ started' = started + 1
  /\ IF hit
       THEN UNCHANGED authmap
       ELSE authmap' = [authmap EXCEPT ![w] = None]
  /\ login' = [login EXCEPT ![w] = [NoLogin EXCEPT
       !.pc = IF hit THEN "admit" ELSE "user",
       !.token = t, !.genuine = \E ut \in Rows : Valid(ut, t)]]
  /\ UNCHANGED <<settings, usertoken, lapsed, tokencache, edit,
                 tokens, faults, history>>

(* get_basic_auth: the answer of another token, or one that has expired, is *)
(* removed.  Without a check for each request the answer is given at once.  *)
Present(w, t, fresh) ==
  LET hit == authmap[w] # None /\ authmap[w] = t /\ fresh IN
  /\ At(w, "idle") /\ started < MaxBegun
  /\ started' = started + 1
  /\ IF hit
       THEN UNCHANGED authmap
       ELSE authmap' = [authmap EXCEPT ![w] = None]
  /\ login' = [login EXCEPT ![w] = [NoLogin EXCEPT
       !.pc = IF hit /\ ~ perRequest THEN "admit" ELSE "user",
       !.token = t, !.genuine = \E ut \in Rows : Valid(ut, t)]]
  /\ UNCHANGED <<settings, usertoken, lapsed, tokencache, edit,
                 tokens, faults, history>>

(* An inactive user loses the cached answer.  An administrator can change   *)
(* whether the user is active at any time.                                  *)
CheckUser(w, active) ==
  /\ At(w, "user")
  /\ IF active
       THEN GoTo(w, "token") /\ UNCHANGED authmap
       ELSE Refused(w) /\ authmap' = [authmap EXCEPT ![w] = None]
  /\ UNCHANGED <<settings, usertoken, lapsed, tokencache, edit, counts, history>>

(* load_usertoken(user) goes to the database and never to the cache, as the *)
(* parameter refresh is taken the wrong way round ...                       *)
ReadToken(w) ==
  /\ At(w, "token") \/ At(w, "tokenAgain")
  /\ login' = [login EXCEPT ![w].row = usertoken,
                            ![w].pc = IF usertoken = None THEN "decide"
                                      ELSE IF At(w, "token") THEN "cache" ELSE "cacheAgain"]
  /\ UNCHANGED <<settings, usertoken, lapsed, tokencache, authmap, edit, counts, history>>

Decided(w, first) == IF first /\ system /\ ~ Valid(login[w].row, login[w].token)
                       THEN "again" ELSE "decide"

(* ... and what it read is put into the cache.                             *)
CacheToken(w) ==
  /\ At(w, "cache") \/ At(w, "cacheAgain")
  /\ tokencache' = [tokencache EXCEPT ![Home(w)] = login[w].row]
  /\ late' = (late \/ login[w].row # usertoken)
  /\ GoTo(w, Decided(w, At(w, "cache")))
  /\ UNCHANGED <<settings, usertoken, lapsed, authmap, edit, counts, intruders, revoked>>

CacheTokenFails(w) ==
  /\ At(w, "cache") \/ At(w, "cacheAgain")
  /\ Fault
  /\ late' = (late \/ tokencache[Home(w)] \notin {None, login[w].row})
  /\ GoTo(w, Decided(w, At(w, "cache")))
  /\ UNCHANGED <<settings, usertoken, lapsed, tokencache, authmap, edit,
                 tokens, started, intruders, revoked>>

(* load_usertoken(user, refresh=True), for a system user whose token was    *)
(* not valid, goes to the cache first.                                      *)
GetToken(w) ==
  /\ At(w, "again")
  /\ login' = [login EXCEPT ![w].row = tokencache[Home(w)],
                            ![w].pc = IF tokencache[Home(w)] = None THEN "tokenAgain" ELSE "decide"]
  /\ UNCHANGED <<settings, usertoken, lapsed, tokencache, authmap, edit, counts, history>>

GetTokenFails(w) ==
  /\ At(w, "again") /\ Fault
  /\ GoTo(w, "tokenAgain")
  /\ UNCHANGED <<settings, usertoken, lapsed, tokencache, authmap, edit,
                 tokens, started, history>>

(* A valid token is answered, and the answer is cached for its email.       *)
Decide(w) ==
  LET valid == Valid(login[w].row, login[w].token) IN
  /\ At(w, "decide")
  /\ authmap' = [authmap EXCEPT ![w] = IF valid THEN login[w].token ELSE None]
  /\ IF valid THEN GoTo(w, "admit") ELSE Refused(w)
  /\ UNCHANGED <<settings, usertoken, lapsed, tokencache, edit, counts, history>>

Admit(w) ==
  /\ At(w, "admit")
  /\ intruders' = IF login[w].genuine THEN intruders ELSE intruders \cup {login[w].token}
  /\ login' = [login EXCEPT ![w] = NoLogin]
  /\ UNCHANGED <<settings, usertoken, lapsed, tokencache, authmap, edit,
                 counts, late, revoked>>

-----------------------------------------------------------------------------
(* The token is changed.                                                    *)
Editing(c, pc) == edit[c].pc = pc

BeginEdit(c, kind) ==
  /\ Editing(c, "idle") /\ started < MaxBegun
  /\ started' = started + 1
  /\ edit' = [edit EXCEPT ![c] =
                 [pc |-> "write", kind |-> kind, row |-> usertoken, new |-> None]]
  /\ UNCHANGED <<settings, usertoken, lapsed, tokencache, authmap, login,
                 tokens, faults, history>>

(* What the user or the administrator asked for is true already.            *)
Needless(c) ==
  LET row == edit[c].row IN
  CASE edit[c].kind = "enable"  -> row # None /\ row.enabled
    [] edit[c].kind = "disable" -> row # None => ~ row.enabled
    [] edit[c].kind = "revoke"  -> row # None => row.token = NoToken
    [] edit[c].kind = "create"  -> FALSE

LeaveIt(c) ==
  /\ Editing(c, "write") /\ Needless(c)
  /\ edit' = [edit EXCEPT ![c] = NoEdit]
  /\ UNCHANGED <<settings, usertoken, lapsed, tokencache, authmap, login, counts, history>>

Writing(c) ==
  /\ Editing(c, "write") /\ ~ Needless(c)
  /\ tokens' = IF edit[c].kind = "create" THEN tokens + 1 ELSE tokens
  /\ tokens' \in Tokens

(* The instance that is saved.                                              *)
Instance(c) ==
  LET old == IF edit[c].row = None THEN [enabled |-> TRUE, token |-> NoToken] ELSE edit[c].row
  IN  CASE edit[c].kind = "enable"  -> [old EXCEPT !.enabled = TRUE]
        [] edit[c].kind = "disable" -> [old EXCEPT !.enabled = FALSE]
        [] edit[c].kind = "revoke"  -> [old EXCEPT !.token = NoToken]
        [] edit[c].kind = "create"  -> [enabled |-> TRUE, token |-> tokens']

OverAll(row, c) == Instance(c)

(* save(update_fields=...) writes the columns that were changed, and        *)
(* enabled only if the token that was read was disabled; save() of a token  *)
(* that was not found writes all of them.                                   *)
Over(row, c) ==
  LET old == edit[c].row  inst == Instance(c) IN
  IF old = None THEN inst
  ELSE [enabled |-> IF inst.enabled # old.enabled THEN inst.enabled ELSE row.enabled,
        token   |-> IF inst.token # old.token THEN inst.token ELSE row.token]

(* The history of the requests in progress: their token becomes valid.      *)
Written(ut) == login' = [w \in Processes |->
  [login[w] EXCEPT !.genuine = @ \/ Valid(ut, login[w].token)]]

(* A row that is created announces nothing, and is committed at once.       *)
Insert(c) ==
  /\ Writing(c) /\ usertoken = None
  /\ usertoken' = Instance(c)
  /\ edit' = [edit EXCEPT ![c] = NoEdit]
  /\ Written(Instance(c))
  /\ UNCHANGED <<settings, lapsed, tokencache, authmap, started, faults, history>>

(* Another request inserts the row after save() has looked for it.          *)
InsertConflicts(c) ==
  /\ Editing(c, "write") /\ ~ Needless(c) /\ edit[c].row = None /\ usertoken # None
  /\ edit' = [edit EXCEPT ![c] = NoEdit]
  /\ UNCHANGED <<settings, usertoken, lapsed, tokencache, authmap, login, counts, history>>

(* The row is locked until the transaction ends, and shows what it was.     *)
Open(c) == edit[c].new # None

Update(c) ==
  /\ Writing(c) /\ usertoken # None /\ ~ \E d \in Clusters : Open(d)
  /\ edit' = [edit EXCEPT ![c].pc = "postGet", ![c].row = Instance(c), ![c].new = Over(usertoken, c)]
  /\ Written(Over(usertoken, c))
  /\ UNCHANGED <<settings, usertoken, lapsed, tokencache, authmap,
                 started, faults, history>>

(* The listeners: the instance replaces a cached one, and the other         *)
(* clusters are told to remove theirs.                                      *)
PostGet(c) ==
  /\ Editing(c, "postGet")
  /\ edit' = [edit EXCEPT ![c].pc = IF tokencache[c] = None THEN "notify" ELSE "postSet"]
  /\ UNCHANGED <<settings, usertoken, lapsed, tokencache, authmap, login, counts, history>>

PostSet(c) ==
  /\ Editing(c, "postSet")
  /\ tokencache' = [tokencache EXCEPT ![c] = edit[c].row]
  /\ late' = (late \/ edit[c].row # edit[c].new)
  /\ edit' = [edit EXCEPT ![c].pc = "notify"]
  /\ UNCHANGED <<settings, usertoken, lapsed, authmap, login, counts, intruders, revoked>>

Notify(c) ==
  /\ Editing(c, "notify")
  /\ tokencache' = [d \in Clusters |-> IF d = c THEN tokencache[d] ELSE None]
  /\ edit' = [edit EXCEPT ![c].pc = "commit"]
  /\ UNCHANGED <<settings, usertoken, lapsed, authmap, login, counts, history>>

NotifyFails(c) ==
  /\ Editing(c, "notify") /\ Fault
  /\ edit' = [edit EXCEPT ![c].pc = "commit"]
  /\ UNCHANGED <<settings, usertoken, lapsed, tokencache, authmap, login,
                 tokens, started, history>>

Commit(c) ==
  /\ Editing(c, "commit")
  /\ usertoken' = edit[c].new
  /\ revoked' = revoked \cup ({usertoken.token} \ {NoToken, edit[c].new.token})
  /\ edit' = [edit EXCEPT ![c] = NoEdit]
  /\ UNCHANGED <<settings, lapsed, tokencache, authmap, login, counts,
                 late, intruders>>

(* A call of a listener raises, or the commit fails; what was cached stays. *)
RollBack(c) ==
  /\ Open(c) /\ Fault
  /\ edit' = [edit EXCEPT ![c] = NoEdit]
  /\ UNCHANGED <<settings, usertoken, lapsed, tokencache, authmap, login,
                 tokens, started, history>>

(* A token's last day ends.                                                 *)
Lapse ==
  /\ usertoken # None /\ usertoken.token \notin lapsed \cup {NoToken}
  /\ lapsed' = lapsed \cup {usertoken.token}
  /\ UNCHANGED <<settings, usertoken, tokencache, authmap, login, edit, counts, history>>

Kinds == {"enable", "disable", "revoke", "create"}

Next ==
  \/ Lapse
  \/ \E w \in Processes :
       \/ \E t \in 0..tokens, fresh \in BOOLEAN : Present(w, t, fresh)
       \/ \E active \in BOOLEAN : CheckUser(w, active)
       \/ ReadToken(w) \/ CacheToken(w) \/ CacheTokenFails(w)
       \/ GetToken(w) \/ GetTokenFails(w) \/ Decide(w) \/ Admit(w)
  \/ \E c \in Clusters :
       \/ \E kind \in Kinds : BeginEdit(c, kind)
       \/ LeaveIt(c) \/ Insert(c) \/ InsertConflicts(c) \/ Update(c)
       \/ PostGet(c) \/ PostSet(c) \/ Notify(c) \/ NotifyFails(c)
       \/ Commit(c) \/ RollBack(c)

Spec == Init /\ [][Next]_vars

-----------------------------------------------------------------------------
TypeOK ==
  /\ usertoken \in UserToken \cup {None}
  /\ tokencache \in [Clusters -> UserToken \cup {None}]
  /\ authmap \in [Processes -> Tokens \cup {None}]
  /\ \A w \in Processes : login[w].row \in UserToken \cup {None}
  /\ \A c \in Clusters : edit[c].new \in UserToken \cup {None}
  /\ intruders \subseteq Tokens \cup {NoToken}
  /\ revoked \subseteq Tokens

(* A token that is disabled, revoked, replaced or expired before a request  *)
(* does not admit it, whatever Redis and the worker have cached, if tokens  *)
(* are checked for each request; nor does one of a change that was rolled   *)
(* back before.  A system user's token is looked up in the cache a second   *)
(* time, right after what was read from the database was put there: it is   *)
(* admitted where another request puts an older row there meanwhile, where  *)
(* that call failed and left an older one, or where a change caches an      *)
(* instance with columns it read before another change.                     *)
RevokedTokenRefused == intruders # {} => ~ perRequest \/ (system /\ late)

(* Only tokens that were generated are admitted, also when answers are      *)
(* given from the worker's map without checking the token again.            *)
OnlyIssuedTokens == NoToken \notin intruders

(* A token that was revoked or replaced is never the row's again, whatever  *)
(* another change that had read the row before writes: save() is given the  *)
(* columns that the request changed.                                       *)
RevokedForGood == \A ut \in Rows \ {None} : ut.token \notin revoked

=============================================================================
