----------------------------- MODULE Interconnect -----------------------------
(***************************************************************************)
(* The reserved user whose token the clusters show each other (ReservedUser *)
(* of models.py), and the call that shows it (_send_request_to_cluster of   *)
(* clustercache.py): a worker creates, activates, renews and enables        *)
(* whatever an administrator or another worker has deleted or changed, and  *)
(* a call that is refused is repeated once with what the database holds.    *)
(* The called cluster finds the user in its user cache (patch.py), which    *)
(* nobody tells that a worker has made the user active.                     *)
(*                                                                         *)
(* Each step is one statement of the database or one call.  The workers are *)
(* those of one cluster, which call another one.  The calls that announce a *)
(* token that is enabled, made before it is committed, are not followed.    *)
(***************************************************************************)
EXTENDS Naturals, Functions

CONSTANTS
  Workers,
  None,
  MaxTokens,   \* bound: tokens generated
  MaxUsers,    \* bound: times the user is created
  MaxEvents,   \* bound: changes by administrators and days that make a token due
  MaxCalls     \* bound: calls begun

NoToken == 0

VARIABLES
  row,         \* the user: [id, active], or None
  tokenRow,    \* its UserToken: [token, enabled], or None
  ending,      \* tokens whose last day is tomorrow or before
  permanent,   \* tokens that have no last day
  user,        \* self.user of each worker, or None
  usertoken,   \* self.usertoken of each worker, or None
  call,        \* the call of each worker
  emailKey,    \* GET_USEREMAIL_KEY in the called cluster: an id, or None
  userKeys,    \* GET_USER_KEY of each id there: a user, or None
  made, users, events, calls,  \* counters
  renewals,    \* history: tokens renewed
  expiries,    \* history: tokens that came due or were revoked
  refused      \* history: calls refused twice although nobody intervened and
               \*   the called cluster found the user as it is

reserved == <<row, tokenRow, ending, permanent>>
cached   == <<user, usertoken>>
called   == <<emailKey, userKeys>>
counts   == <<made, users, events, calls>>
history  == <<renewals, expiries, refused>>
vars     == <<reserved, cached, called, call, counts, history>>

Idle == [pc |-> "idle", try |-> 1, after |-> "renew", disturbed |-> FALSE]

NewToken(t) == [token |-> t, enabled |-> TRUE]

Due(ut) == ut.token = NoToken \/ ut.token \in ending

Init ==
  /\ row = [id |-> 1, active |-> TRUE]
  /\ tokenRow = NewToken(1) /\ ending = {} /\ permanent = {}
  /\ user = [w \in Workers |-> row]
  /\ usertoken = [w \in Workers |-> tokenRow]
  /\ call = [w \in Workers |-> Idle]
  /\ emailKey = None /\ userKeys = [id \in 1..MaxUsers |-> None]
  /\ made = 1 /\ users = 1 /\ events = 0 /\ calls = 0
  /\ renewals = 0 /\ expiries = 0 /\ refused = 0

At(w, pc) == call[w].pc = pc

GoTo(w, pc) == call' = [call EXCEPT ![w].pc = pc]

Begin(w) ==
  /\ At(w, "idle") /\ calls < MaxCalls
  /\ calls' = calls + 1
  /\ call' = [call EXCEPT ![w] = [Idle EXCEPT !.pc = "user"]]
  /\ UNCHANGED <<reserved, cached, called, made, users, events, history>>

-----------------------------------------------------------------------------
(* loaduser.                                                                *)

(* User.objects.get_or_create, by email.                                    *)
GetOrCreateUser(w) ==
  /\ IF row # None THEN UNCHANGED <<row, users>>
     ELSE /\ users < MaxUsers
          /\ users' = users + 1
          /\ row' = [id |-> users', active |-> TRUE]
  /\ user' = [user EXCEPT ![w] = row']

LoadUser(w) ==
  /\ At(w, "user")
  /\ IF user[w] = None THEN GetOrCreateUser(w) ELSE UNCHANGED <<row, users, user>>
  /\ GoTo(w, IF user'[w].active THEN "token" ELSE "activate")
  /\ UNCHANGED <<tokenRow, ending, permanent, usertoken, called, made, events, calls, history>>

Exists(w) == row # None /\ user[w].id = row.id

(* A user that is gone is created again.                                   *)
Activate(w) ==
  /\ At(w, "activate")
  /\ IF Exists(w)
       THEN /\ row' = [row EXCEPT !.active = TRUE]
            /\ user' = [user EXCEPT ![w].active = TRUE]
            /\ UNCHANGED users
       ELSE GetOrCreateUser(w)
  /\ GoTo(w, "token")
  /\ UNCHANGED <<tokenRow, ending, permanent, usertoken, called, made, events, calls, history>>

-----------------------------------------------------------------------------
(* loadusertoken.                                                           *)

(* UserToken.objects.get_or_create.  A new token needs no further check.    *)
GetOrCreateToken(w, next) ==
  IF ~ Exists(w)
    THEN \* the foreign key fails: the user is loaded again, then the token
         /\ user' = [user EXCEPT ![w] = None]
         /\ usertoken' = [usertoken EXCEPT ![w] = None]
         /\ call' = [call EXCEPT ![w].pc = "user", ![w].after = next]
         /\ UNCHANGED <<tokenRow, made>>
  ELSE IF tokenRow # None
    THEN /\ usertoken' = [usertoken EXCEPT ![w] = tokenRow]
         /\ GoTo(w, next)
         /\ UNCHANGED <<tokenRow, user, made>>
  ELSE /\ made < MaxTokens
       /\ made' = made + 1
       /\ tokenRow' = NewToken(made')
       /\ usertoken' = [usertoken EXCEPT ![w] = tokenRow']
       /\ GoTo(w, "send")
       /\ UNCHANGED user

LoadToken(w) ==
  /\ At(w, "token")
  /\ IF usertoken[w] = None
       THEN GetOrCreateToken(w, call[w].after)
       ELSE GoTo(w, "renew") /\ UNCHANGED <<tokenRow, cached, made>>
  /\ UNCHANGED <<row, ending, permanent, called, users, events, calls, history>>

InTime(w) ==
  /\ At(w, "renew") /\ ~ Due(usertoken[w]) /\ usertoken[w].token \notin permanent
  /\ GoTo(w, IF usertoken[w].enabled THEN "send" ELSE "enable")
  /\ UNCHANGED <<reserved, cached, called, counts, history>>

(* The last day of a permanent token, None, is compared with a date: the    *)
(* call ends with a TypeError.                                              *)
RenewRaises(w) ==
  /\ At(w, "renew") /\ usertoken[w].token \in permanent
  /\ call' = [call EXCEPT ![w] = Idle]
  /\ UNCHANGED <<reserved, cached, called, counts, history>>

(* The update is conditional on the token that was read.                    *)
StillMine(w) ==
  Exists(w) /\ tokenRow # None /\ tokenRow.token = usertoken[w].token

Renew(w) ==
  /\ At(w, "renew") /\ Due(usertoken[w]) /\ StillMine(w)
  /\ made < MaxTokens
  /\ made' = made + 1
  /\ tokenRow' = NewToken(made')
  /\ usertoken' = [usertoken EXCEPT ![w] = tokenRow']
  /\ renewals' = renewals + 1
  /\ GoTo(w, "send")
  /\ UNCHANGED <<row, ending, permanent, user, called, users, events, calls, expiries, refused>>

RenewFails(w) ==
  /\ At(w, "renew") /\ Due(usertoken[w]) /\ ~ StillMine(w)
  /\ GoTo(w, "reload")
  /\ UNCHANGED <<reserved, cached, called, counts, history>>

(* Another worker was first, and its token is taken, or there is none.      *)
Reload(w) ==
  /\ At(w, "reload")
  /\ GetOrCreateToken(w, "renew")
  /\ UNCHANGED <<row, ending, permanent, called, users, events, calls, history>>

(* save(update_fields=["enabled"]), whose receiver makes the worker load    *)
(* its token again.                                                         *)
Enable(w) ==
  /\ At(w, "enable")
  /\ IF Exists(w) /\ tokenRow # None
       THEN /\ tokenRow' = [tokenRow EXCEPT !.enabled = TRUE]
            /\ usertoken' = [usertoken EXCEPT ![w] = tokenRow']
            /\ GoTo(w, "renew")
            /\ UNCHANGED <<user, made>>
       ELSE GetOrCreateToken(w, "send")
  /\ UNCHANGED <<row, ending, permanent, called, users, events, calls, history>>

-----------------------------------------------------------------------------
(* load_user_by_email and load_user of the called cluster find the user u:  *)
(* by its id in the user cache, by its id in the database, or, if the id is *)
(* not known or nobody's, by its email.  Keys expire.  The id is also known *)
(* from an answer that a worker has cached.                                 *)
FindById(id, u) ==
  \/ u = userKeys[id] /\ u # None /\ UNCHANGED called
  \/ /\ row # None /\ row.id = id /\ u = row
     /\ userKeys' = [userKeys EXCEPT ![id] = row]
     /\ UNCHANGED emailKey

FindByEmail(u) ==
  /\ u = row
  /\ emailKey' = IF row = None THEN emailKey ELSE row.id
  /\ UNCHANGED userKeys

Find(u) ==
  \/ \E id \in {emailKey} \ {None} : FindById(id, u)
  \/ row # None /\ FindById(row.id, u)
  \/ FindByEmail(u)

(* is_usertoken_valid looks into the database first, then, for a system     *)
(* user, into the cache, as the token of an answer may also have been       *)
(* cached: any token that was generated may pass.                           *)
Valid(w, u) ==
  /\ row # None /\ u.id = row.id
  /\ tokenRow # None /\ tokenRow.enabled
  /\ tokenRow.token # NoToken /\ tokenRow.token = usertoken[w].token

Accept(w) ==
  /\ At(w, "send") /\ usertoken[w].token # NoToken
  /\ \/ UNCHANGED called
     \/ \E u \in Range(userKeys) \cup {row} : u # None /\ u.active /\ Find(u)
  /\ call' = [call EXCEPT ![w] = Idle]
  /\ UNCHANGED <<reserved, cached, counts, history>>

(* 401, for want of an active user or of a valid token.                     *)
Refuses(w, u) ==
  /\ At(w, "send")
  /\ Find(u)
  /\ u # None /\ u.active => ~ Valid(w, u)

ResetKeepsToken(w, u) ==
  /\ Refuses(w, u) /\ call[w].try = 1
  /\ user' = [user EXCEPT ![w] = None]
  /\ usertoken' = usertoken
  /\ call' = [call EXCEPT ![w] = [Idle EXCEPT !.pc = "user", !.try = 2,
                                           !.disturbed = call[w].disturbed]]
  /\ UNCHANGED <<reserved, counts, history>>

(* Reset, and once more.                                                    *)
Reset(w, u) ==
  /\ Refuses(w, u) /\ call[w].try = 1
  /\ user' = [user EXCEPT ![w] = None]
  /\ usertoken' = [usertoken EXCEPT ![w] = None]
  /\ call' = [call EXCEPT ![w] = [Idle EXCEPT !.pc = "user", !.try = 2,
                                           !.disturbed = call[w].disturbed]]
  /\ UNCHANGED <<reserved, counts, history>>

(* raise_for_status.                                                        *)
Fail(w, u) ==
  /\ Refuses(w, u) /\ call[w].try = 2
  /\ refused' = IF call[w].disturbed \/ u # row THEN refused ELSE refused + 1
  /\ call' = [call EXCEPT ![w] = Idle]
  /\ UNCHANGED <<reserved, cached, counts, renewals, expiries>>

-----------------------------------------------------------------------------
(* Whatever an administrator does to the user or its token, and the day     *)
(* before the token's last day.                                             *)
Event ==
  /\ events < MaxEvents
  /\ events' = events + 1
  /\ call' = [w \in Workers |-> [call[w] EXCEPT !.disturbed = ~ At(w, "idle")]]

ChangeToken(new) ==
  /\ Event /\ tokenRow # None
  /\ tokenRow' = new
  /\ UNCHANGED <<row, ending, cached, called, users, calls, renewals, refused>>

(* The day before the last day of a token, which the row or a worker has.   *)
ComeDue(t) ==
  /\ t \notin ending \cup permanent \cup {NoToken} /\ Event
  /\ ending' = ending \cup {t}
  /\ expiries' = IF tokenRow # None /\ tokenRow.token = t THEN expiries + 1 ELSE expiries
  /\ UNCHANGED <<row, tokenRow, permanent, cached, called, made, users, calls, renewals, refused>>

Held == {ut.token : ut \in ({tokenRow} \cup Range(usertoken)) \ {None}}

Revoke ==
  /\ tokenRow # None /\ tokenRow.token # NoToken
  /\ ChangeToken([tokenRow EXCEPT !.token = NoToken])
  /\ expiries' = expiries + 1
  /\ UNCHANGED <<permanent, made>>

Disable ==
  /\ tokenRow # None /\ tokenRow.enabled
  /\ ChangeToken([tokenRow EXCEPT !.enabled = FALSE])
  /\ UNCHANGED <<permanent, made, expiries>>

Replace(forever) ==
  /\ tokenRow # None /\ made < MaxTokens
  /\ ChangeToken(NewToken(made + 1))
  /\ made' = made + 1
  /\ permanent' = IF forever THEN permanent \cup {made + 1} ELSE permanent
  /\ UNCHANGED expiries

DeleteToken ==
  /\ tokenRow # None
  /\ ChangeToken(None)
  /\ UNCHANGED <<permanent, made, expiries>>

(* The called cluster may be told to remove the cached user, may be where   *)
(* the change is made and cached, or may hear nothing of it.                *)
Heard(id, new) ==
  \E u \in {userKeys[id], None, new} : userKeys' = [userKeys EXCEPT ![id] = u]

Deactivate ==
  /\ row # None /\ row.active /\ Event
  /\ row' = [row EXCEPT !.active = FALSE]
  /\ Heard(row.id, row')
  /\ UNCHANGED <<tokenRow, ending, permanent, cached, emailKey, made, users, calls, history>>

DeleteUser ==
  /\ row # None /\ Event
  /\ row' = None /\ tokenRow' = None
  /\ Heard(row.id, None)
  /\ emailKey' \in {emailKey, None}
  /\ UNCHANGED <<ending, permanent, cached, made, users, calls, history>>

Next ==
  \/ \E w \in Workers :
       \/ Begin(w) \/ LoadUser(w) \/ Activate(w) \/ LoadToken(w)
       \/ InTime(w) \/ RenewRaises(w) \/ Renew(w) \/ RenewFails(w) \/ Reload(w) \/ Enable(w)
       \/ Accept(w)
       \/ \E u \in Range(userKeys) \cup {row} : Reset(w, u) \/ Fail(w, u)
  \/ \E t \in Held : ComeDue(t)
  \/ Revoke \/ Disable \/ DeleteToken
  \/ \E forever \in BOOLEAN : Replace(forever)
  \/ Deactivate \/ DeleteUser

Spec == Init /\ [][Next]_vars

-----------------------------------------------------------------------------
TypeOK ==
  /\ row # None => row.id \in 1..MaxUsers
  /\ emailKey \in 1..MaxUsers \cup {None}
  /\ tokenRow # None => row # None /\ tokenRow.token \in 0..made
  /\ \A w \in Workers :
       /\ user[w] = None => At(w, "idle") \/ At(w, "user")
       /\ usertoken[w] = None => At(w, "idle") \/ At(w, "user") \/ At(w, "activate") \/ At(w, "token")

(* A call is refused for good only if somebody changed the user or its      *)
(* token while it was under way, or if the called cluster has cached the    *)
(* user as it no longer is: what else was changed before, by whomever, is   *)
(* mended by the second attempt.                                            *)
SecondTryAccepted == refused = 0

(* Workers that find the token due at the same time renew it once: the      *)
(* others take the token of the first.                                      *)
RenewedOnce == renewals <= expiries

=============================================================================
