------------------------------- MODULE Passcode -------------------------------
(***************************************************************************)
(* Signing in with a code sent by email ('/sso/auth_local'): a browser's    *)
(* requests send a code, verify what the user typed, and create the account *)
(* of a new user (views.py, auth_local).                                    *)
(*                                                                         *)
(* A request works on the session it loaded when it started and saves all   *)
(* of it when it answers (middleware.py); the number of codes sent in a day *)
(* is in Redis, where it is read and written by different calls.            *)
(*                                                                         *)
(* A code is named by its number, which stands for both the code and the    *)
(* code id of its form.  A code or a token may have expired whenever it is  *)
(* looked at, so that an expired one is an outcome of the action, not a     *)
(* state.                                                                   *)
(***************************************************************************)
EXTENDS Naturals, FiniteSets

CONSTANTS
  Emails,
  Requests,
  None,
  TryTimes,      \* PASSCODE_TRY_TIMES
  DailyLimit,    \* PASSCODE_DAILY_LIMIT
  MaxCodes,      \* bound: codes sent
  MaxKeys,       \* bound: session keys created
  MaxRequests    \* bound: requests begun

Codes == 1..MaxCodes
Keys  == 1..MaxKeys
NoCode == 0
NoKey  == 0

(* What auth_local keeps in the session, for each email, and the user.      *)
Data == [code  : [Emails -> Codes \cup {NoCode}],
         tries : [Emails -> Nat \cup {None}],
         token : [Emails -> Codes \cup {NoCode}],
         user  : Emails \cup {None}]

ASSUME PasscodeAssumption ==
  /\ None \notin Emails /\ None \notin Nat /\ None \notin Data
  /\ IsFiniteSet(Requests)
  /\ TryTimes \in Nat /\ DailyLimit \in Nat
  /\ MaxCodes \in Nat /\ MaxKeys \in Nat /\ MaxRequests \in Nat

VARIABLES
  sessions,    \* the session of each key in Redis, or None
  cookie,      \* the session key the browser sends
  counted,     \* codes of the day, for each email, in Redis
  account,     \* the row of each email: "none", "active" or "disabled"
  post,        \* the requests in progress
  keys, codes, begun,       \* counters
  wrong,       \* history: wrong guesses of each code that were answered
  signins,     \* history: sign-ins by each code
  mailed,      \* history: codes mailed to each email
  verified,    \* history: emails whose code was typed correctly
  lost,        \* history: saves and deletions of a session that had changed
               \*   since the request loaded it
  lostCounts   \* history: counts written over a count that was not read

counters == <<keys, codes, begun>>
history  == <<wrong, signins, mailed, verified, lost, lostCounts>>
stored   == <<sessions, cookie, counted, account>>
vars     == <<stored, post, counters, history>>

NoData == [code  |-> [e \in Emails |-> NoCode],
           tries |-> [e \in Emails |-> None],
           token |-> [e \in Emails |-> NoCode],
           user  |-> None]

Idle == [pc |-> "idle", key |-> NoKey, new |-> NoKey, sent |-> NoKey, data |-> NoData,
         was |-> None, email |-> None, count |-> 0,
         guess |-> NoCode, by |-> NoCode]

Init ==
  /\ sessions = [k \in Keys |-> None]
  /\ cookie = NoKey
  /\ counted = [e \in Emails |-> 0]
  /\ account \in [Emails -> {"none", "active", "disabled"}]
  /\ post = [r \in Requests |-> Idle]
  /\ keys = 0 /\ codes = 0 /\ begun = 0
  /\ wrong = [c \in Codes |-> 0]
  /\ signins = [c \in Codes |-> 0]
  /\ mailed = [e \in Emails |-> 0]
  /\ verified = {}
  /\ lost = 0 /\ lostCounts = 0

At(r, pc) == post[r].pc = pc

GoTo(r, pc) == post' = [post EXCEPT ![r].pc = pc]

(* The request goes on to pc with this session data.                       *)
With(r, pc, data) == post' = [post EXCEPT ![r].pc = pc, ![r].data = data]

(* Writing or deleting a session that is not what the request loaded.       *)
Losing(r, k) == IF sessions[k] = post[r].was THEN lost ELSE lost + 1

(* An answer that saves nothing: a page with a message, or an error.  The   *)
(* cookie of a session that does not exist is deleted.                      *)
Leave(r) ==
  /\ post' = [post EXCEPT ![r] = Idle]
  /\ cookie' = IF post[r].key = NoKey /\ post[r].sent # NoKey THEN NoKey ELSE cookie

-----------------------------------------------------------------------------
(* The session is loaded when request.user is first asked for.  A user who  *)
(* is authenticated already is redirected.                                  *)
Begin(r) ==
  /\ At(r, "idle") /\ begun < MaxRequests
  /\ cookie # NoKey /\ sessions[cookie] # None => sessions[cookie].user = None
  /\ begun' = begun + 1
  /\ post' = [post EXCEPT ![r] =
       IF cookie # NoKey /\ sessions[cookie] # None
         THEN [Idle EXCEPT !.pc = "view", !.key = cookie, !.sent = cookie,
                           !.data = sessions[cookie], !.was = sessions[cookie]]
         ELSE [Idle EXCEPT !.pc = "view", !.sent = cookie]]
  /\ UNCHANGED <<stored, keys, codes, history>>

(* session.get(key) or 0                                                   *)
Tries(d, e) == IF d.tries[e] = None THEN 0 ELSE d.tries[e]

(* The form of the last code is sent again.                                *)
Reuses(r, e, codeid) ==
  /\ codeid # NoCode
  /\ Tries(post[r].data, e) < TryTimes
  /\ post[r].data.code[e] = codeid

SendAgain(r, e, codeid) ==
  /\ At(r, "view") /\ Reuses(r, e, codeid)
  /\ Leave(r)
  /\ UNCHANGED <<sessions, counted, account, counters, history>>

(* A new code is needed: none is wanted again, or it has expired.           *)
SendNew(r, e) ==
  /\ At(r, "view")
  /\ post' = [post EXCEPT ![r].pc = "count", ![r].email = e]
  /\ UNCHANGED <<stored, counters, history>>

ReadCountOnceMore(r) ==
  LET e == post[r].email IN
  /\ At(r, "count")
  /\ IF counted[e] > DailyLimit
       THEN Leave(r)
       ELSE /\ post' = [post EXCEPT ![r].pc = "setCount", ![r].count = counted[e]]
            /\ UNCHANGED cookie
  /\ UNCHANGED <<sessions, counted, account, counters, history>>

ReadCount(r) ==
  LET e == post[r].email IN
  /\ At(r, "count")
  /\ IF counted[e] >= DailyLimit
       THEN Leave(r)
       ELSE /\ post' = [post EXCEPT ![r].pc = "setCount", ![r].count = counted[e]]
            /\ UNCHANGED cookie
  /\ UNCHANGED <<sessions, counted, account, counters, history>>

SetCount(r) ==
  LET e == post[r].email
      d == post[r].data
  IN /\ At(r, "setCount") /\ codes < MaxCodes
     /\ codes' = codes + 1
     /\ counted' = [counted EXCEPT ![e] = post[r].count + 1]
     /\ lostCounts' = IF counted[e] = post[r].count THEN lostCounts ELSE lostCounts + 1
     /\ With(r, "mail", [d EXCEPT !.code[e] = codes + 1, !.tries[e] = 0])
     /\ UNCHANGED <<sessions, cookie, account, keys, begun,
                    wrong, signins, mailed, verified, lost>>

Mail(r) ==
  /\ At(r, "mail")
  /\ mailed' = [mailed EXCEPT ![post[r].email] = @ + 1]
  /\ GoTo(r, "respond")
  /\ UNCHANGED <<stored, counters, wrong, signins, verified, lost, lostCounts>>

(* The code is counted but its session is not saved.                        *)
MailFails(r) ==
  /\ At(r, "mail")
  /\ Leave(r)
  /\ UNCHANGED <<sessions, counted, account, counters, history>>

-----------------------------------------------------------------------------
(* Verifying.                                                               *)

VerifiableOnceMore(r, e, codeid) ==
  /\ codeid # NoCode
  /\ post[r].data.code[e] = codeid
  /\ Tries(post[r].data, e) <= TryTimes

(* The code that a form with this code id is verified with.                *)
Verifiable(r, e, codeid) ==
  /\ codeid # NoCode
  /\ post[r].data.code[e] = codeid
  /\ Tries(post[r].data, e) < TryTimes

(* Nothing typed, an expired or another code, or too many tries.            *)
Refuse(r, e) ==
  /\ At(r, "view")
  /\ Leave(r)
  /\ UNCHANGED <<sessions, counted, account, counters, history>>

VerifyWrong(r, e, codeid) ==
  /\ At(r, "view") /\ Verifiable(r, e, codeid)
  /\ post' = [post EXCEPT ![r].pc = "respond", ![r].guess = codeid,
                          ![r].data.tries[e] = Tries(post[r].data, e) + 1]
  /\ UNCHANGED <<stored, counters, history>>

(* The user's row is updated and the user logs in, is signed out because    *)
(* the account is disabled, or gets a token to sign up with.                *)
VerifyRight(r, e, codeid) ==
  LET d == post[r].data
      used == [d EXCEPT !.code[e] = NoCode, !.tries[e] = None, !.user = e]
  IN /\ At(r, "view") /\ Verifiable(r, e, codeid)
     /\ verified' = verified \cup {e}
     /\ \/ /\ account[e] = "active"
           /\ post' = [post EXCEPT ![r].pc = "login", ![r].data = used,
                                   ![r].email = e, ![r].by = codeid]
        \/ /\ account[e] = "disabled"
           /\ GoTo(r, "flush")
        \/ /\ account[e] = "none"
           /\ With(r, "respond", [d EXCEPT !.token[e] = codeid])
     /\ UNCHANGED <<stored, counters, wrong, signins, mailed, lost, lostCounts>>

RemovedTries(d, e) == [d EXCEPT !.tries[e] = None]

(* The page of a new user: the code and its counter are removed before      *)
(* anything else, and a counter that is missing already ends the request.   *)
Removed(d, e) == [d EXCEPT !.code[e] = NoCode, !.tries[e] = None]

SignupFails(r, e) ==
  /\ At(r, "view") /\ post[r].data.tries[e] = None
  /\ Leave(r)
  /\ UNCHANGED <<sessions, counted, account, counters, history>>

(* A token that is missing, expired or another one, or a missing name.      *)
SignupRefused(r, e) ==
  /\ At(r, "view") /\ post[r].data.tries[e] # None
  /\ With(r, "respond", Removed(post[r].data, e))
  /\ UNCHANGED <<stored, counters, history>>

SignupUnverified(r, e) ==
  LET d == post[r].data IN
  /\ At(r, "view") /\ d.tries[e] # None
  /\ account' = [account EXCEPT ![e] = IF @ = "none" THEN "active" ELSE @]
  /\ post' = [post EXCEPT ![r].pc = "login",
                          ![r].data = [Removed(d, e) EXCEPT !.token[e] = NoCode, !.user = e],
                          ![r].email = e, ![r].by = d.token[e]]
  /\ UNCHANGED <<sessions, cookie, counted, counters, history>>

(* update_or_create leaves is_active of an existing user alone.             *)
Signup(r, e) ==
  LET d == post[r].data IN
  /\ At(r, "view") /\ d.tries[e] # None
  /\ d.token[e] # NoCode
  /\ account' = [account EXCEPT ![e] = IF @ = "none" THEN "active" ELSE @]
  /\ post' = [post EXCEPT ![r].pc = "login",
                          ![r].data = [Removed(d, e) EXCEPT !.token[e] = NoCode, !.user = e],
                          ![r].email = e, ![r].by = d.token[e]]
  /\ UNCHANGED <<sessions, cookie, counted, counters, history>>

-----------------------------------------------------------------------------
(* The session.  login() cycles the key: the data is stored under a new key *)
(* and the old key is deleted.                                              *)
Login(r) ==
  /\ At(r, "login") /\ keys < MaxKeys
  /\ keys' = keys + 1
  /\ sessions' = [sessions EXCEPT ![keys + 1] = post[r].data]
  /\ post' = [post EXCEPT ![r].pc = "deleteOld", ![r].new = keys + 1]
  /\ UNCHANGED <<cookie, counted, account, codes, begun, history>>

DeleteOldKept(r) ==
  /\ At(r, "deleteOld")
  /\ sessions' = sessions
  /\ lost' = Losing(r, post[r].key)
  /\ post' = [post EXCEPT ![r].pc = "respond", ![r].key = post[r].new, ![r].was = post[r].data]
  /\ UNCHANGED <<cookie, counted, account, counters, wrong, signins, mailed,
                 verified, lostCounts>>

DeleteOld(r) ==
  /\ At(r, "deleteOld")
  /\ sessions' = [sessions EXCEPT ![post[r].key] = None]
  /\ lost' = Losing(r, post[r].key)
  /\ post' = [post EXCEPT ![r].pc = "respond", ![r].key = post[r].new, ![r].was = post[r].data]
  /\ UNCHANGED <<cookie, counted, account, counters, wrong, signins, mailed,
                 verified, lostCounts>>

(* logout() of a disabled user: the session and the cookie are deleted.     *)
Flush(r) ==
  /\ At(r, "flush")
  /\ lost' = Losing(r, post[r].key)
  /\ sessions' = [sessions EXCEPT ![post[r].key] = None]
  /\ cookie' = NoKey
  /\ post' = [post EXCEPT ![r] = Idle]
  /\ UNCHANGED <<counted, account, counters, wrong, signins, mailed, verified, lostCounts>>

(* One more event of code c, if it is a code.                               *)
Once(counts, c) == IF c = NoCode THEN counts ELSE [counts EXCEPT ![c] = @ + 1]

(* A modified session is saved under its key, or under a new one.           *)
Respond(r) ==
  LET k == IF post[r].key = NoKey THEN keys + 1 ELSE post[r].key IN
  /\ At(r, "respond") /\ k \in Keys
  /\ keys' = IF k > keys THEN k ELSE keys
  /\ sessions' = [sessions EXCEPT ![k] = post[r].data]
  /\ lost' = Losing(r, k)
  /\ cookie' = IF k = post[r].sent THEN cookie ELSE k
  /\ wrong' = Once(wrong, post[r].guess)
  /\ signins' = Once(signins, post[r].by)
  /\ post' = [post EXCEPT ![r] = Idle]
  /\ UNCHANGED <<counted, account, codes, begun, mailed, verified, lostCounts>>

View(r) ==
  \E e \in Emails :
    \/ SendNew(r, e) \/ Refuse(r, e)
    \/ SignupFails(r, e) \/ SignupRefused(r, e) \/ Signup(r, e)
    \/ \E c \in Codes : SendAgain(r, e, c) \/ VerifyWrong(r, e, c) \/ VerifyRight(r, e, c)

Next ==
  \E r \in Requests :
    \/ Begin(r) \/ View(r)
    \/ ReadCount(r) \/ SetCount(r) \/ Mail(r) \/ MailFails(r)
    \/ Login(r) \/ DeleteOld(r) \/ Flush(r) \/ Respond(r)

Spec == Init /\ [][Next]_vars

-----------------------------------------------------------------------------
(* Every variable has its type, and a code comes with its counter of tries, *)
(* without which 'del request.session[...]' ends a right guess in an error. *)
TypeOK ==
  /\ sessions \in [Keys -> Data \cup {None}]
  /\ cookie \in Keys \cup {NoKey}
  /\ account \in [Emails -> {"none", "active", "disabled"}]
  /\ \A r \in Requests : post[r].data \in Data
  /\ \A r \in Requests, e \in Emails :
       post[r].data.code[e] # NoCode => post[r].data.tries[e] # None

(* A code that was sent can be guessed PASSCODE_TRY_TIMES times, and that   *)
(* many times more for each save that wrote over a session another request  *)
(* had changed: the counter of tries is in the session, which is loaded     *)
(* when a request starts and saved when it ends.                            *)
TriesLimited == \A c \in Codes : wrong[c] <= TryTimes * (lost + 1)

(* No more than PASSCODE_DAILY_LIMIT codes are mailed to an email in a day, *)
(* and as many more each time a request writes a count over one it did not  *)
(* read: the number it read may be from before all of the others.           *)
DailyLimited == \A e \in Emails : mailed[e] <= DailyLimit * (1 + lostCounts)

(* A code signs in once, unless requests of the same session overlap: the   *)
(* second one finds that the session it verified the code with has changed. *)
CodeSignsInOnce == \A c \in Codes : signins[c] <= 1 + lost

(* Whoever is signed in has typed the code that was mailed to this email,   *)
(* and so has whoever got an account, although the form that creates it is  *)
(* a later request, which can come for any email and at any time.           *)
SignedInIsVerified ==
  \A k \in Keys : sessions[k] # None /\ sessions[k].user # None
                    => sessions[k].user \in verified

=============================================================================
