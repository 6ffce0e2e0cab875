------------------------------ MODULE Navigation ------------------------------
(***************************************************************************)
(* The redirects by which one browser signs in and out, over the two kinds  *)
(* of hosts there are: those of the session cookie's domain, which auth2    *)
(* stands for, and those of another domain, which get a cookie of their own *)
(* with the same session key (views.py, middleware.py,                      *)
(* sessionstore/sessionstore.py, pipelines.py).                             *)
(*                                                                         *)
(* Each step is one request and its response, so that those of several tabs *)
(* of the browser interleave.  Azure B2C is external: it remembers a user   *)
(* who has signed in until it is told to sign out.  A session is abstracted *)
(* to the ticks it has left, and its user has a group with a session        *)
(* timeout.  Pages that need nobody to sign in are left out.                *)
(***************************************************************************)
EXTENDS Naturals, FiniteSets

CONSTANTS
  Tabs,
  NoTab,
  Timeout,      \* ticks a session lives without a request
  MaxSessions,  \* bound: sessions of signed in users
  MaxVisits,    \* bound: addresses the user opens, passwords entered
  MaxTicks,     \* bound: ticks
  MaxChanges    \* bound: changes of the user by an administrator

VARIABLES
  tab,      \* where each tab is
  jar,      \* the session cookie the browser has for each host
  ticks,    \* what each session has left, 0 when its cache has no data of it
  began,    \* the tab whose sign-in auth2's session waits for (the state)
  b2c,      \* B2C knows the user
  user,     \* active, inactive or deleted
  visits, time, changes, \* counters
  idle,     \* history: auth2's session timed out, and B2C has not signed out
  slept     \* history: the user was signed in again although idle

counts   == <<visits, time, changes>>
sessions == <<jar, ticks>>
vars     == <<tab, sessions, began, b2c, user, counts, idle, slept>>

Hosts    == {"auth2", "other"}
NoCookie == 0
Keys     == 1..MaxSessions
Guest    == MaxSessions + 1   \* a session without a user
Nested   == MaxSessions + 2   \* a cookie value that names its domain twice

Page(h) == [host |-> h, kind |-> "page"]
Out(h)  == [host |-> h, kind |-> "signedout"]
NoPage  == [host |-> "auth2", kind |-> "none"]

Resting(at) == at \in {"blank", "shown", "signin", "signedout", "failed"}

Init ==
  /\ tab = [t \in Tabs |-> [at |-> "blank", host |-> "auth2", next |-> NoPage,
                            cookie |-> NoCookie]]
  /\ jar = [h \in Hosts |-> NoCookie]
  /\ ticks = [k \in Keys |-> 0]
  /\ began = NoTab
  /\ b2c = FALSE
  /\ user = "active"
  /\ visits = 0 /\ time = 0 /\ changes = 0
  /\ idle = FALSE /\ slept = FALSE

At(t, at) == tab[t].at = at

Go(t, at, h, next) ==
  tab' = [tab EXCEPT ![t] = [at |-> at, host |-> h, next |-> next, cookie |-> NoCookie]]

-----------------------------------------------------------------------------
(* The session of a request (SessionMiddleware, SessionStore.load).         *)

Live(h) == jar[h] \in Keys /\ ticks[jar[h]] > 0

SignedIn(h) == Live(h) /\ user # "deleted"

ExpiredForgotten(h) == FALSE

(* The key of a session that timed out is kept, in the cookie's own domain  *)
(* only: it makes the next visit sign out of B2C.                           *)
Expired(h) == jar[h] \in Keys /\ ~ Live(h) /\ h = "auth2"

(* A load with a user starts the timeout anew.                              *)
Loaded(h) == IF Live(h) THEN [ticks EXCEPT ![jar[h]] = Timeout] ELSE ticks

(* The response deletes the cookie of an empty session.                     *)
Answered(h) ==
  IF Live(h) \/ Expired(h) \/ (h = "auth2" /\ jar[h] = Guest)
    THEN jar ELSE [jar EXCEPT ![h] = NoCookie]

Uses(h) == ticks' = Loaded(h) /\ jar' = Answered(h)

(* django's logout, which flushes the session.                              *)
Flushes(h) ==
  /\ ticks' = IF Live(h) THEN [ticks EXCEPT ![jar[h]] = 0] ELSE ticks
  /\ jar' = [jar EXCEPT ![h] = NoCookie]

-----------------------------------------------------------------------------
(* get_post_b2c_logout_url: the host where the logout ends, and the page to *)
(* sign in again from, of whatever kind, that the request names.            *)
AfterLogout(next, domain) == IF next = NoPage THEN Page(domain) ELSE next

(* logout_view.  On another domain only the cookie goes, and auth2 does the *)
(* rest; its session may be another one by now.                             *)
LogoutView(t, h, next, domain) ==
  IF h = "other"
    THEN /\ jar' = [jar EXCEPT !["other"] = NoCookie]
         /\ ticks' = Loaded("other")
         /\ Go(t, "logout", "auth2", AfterLogout(next, "other"))
         /\ UNCHANGED began
    ELSE LET after == AfterLogout(next, domain) IN
         /\ Flushes("auth2")
         /\ began' = NoTab
         /\ Go(t, "b2cLogout", after.host, after)

Logout(t) ==
  /\ At(t, "logout")
  /\ LogoutView(t, tab[t].host, tab[t].next, tab[t].host)
  /\ UNCHANGED <<b2c, user, counts, idle, slept>>

(* B2C signs out, and goes to the page of the identity provider's logout    *)
(* method: auth2's page of social media, or at once the signed out page.    *)
B2CLogout(t) ==
  /\ At(t, "b2cLogout")
  /\ b2c' = FALSE /\ idle' = FALSE
  /\ \E at \in {"toSignedOut", "toSocialMedia"} : Go(t, at, tab[t].host, tab[t].next)
  /\ UNCHANGED <<sessions, began, user, counts, slept>>

(* The views signedout and signout_socialmedia sign a user out who is       *)
(* signed in (again); a user who was deleted is handler400's.               *)
SignedOutPage(t) ==
  LET h == tab[t].host IN
  /\ At(t, "toSignedOut") \/ At(t, "toSocialMedia")
  /\ IF Live(h)
       THEN LogoutView(t, h, NoPage, h)
       ELSE /\ Uses(h)
            /\ Go(t, IF At(t, "toSocialMedia") THEN "toSignedOut" ELSE "signedout",
                  h, tab[t].next)
            /\ UNCHANGED began
  /\ UNCHANGED <<b2c, user, counts, idle, slept>>

-----------------------------------------------------------------------------
(* A page behind auth2: the view auth lets it show, or it redirects to home. *)
ShowPage(t) ==
  LET h == tab[t].host IN
  /\ At(t, "page")
  /\ Uses(h)
  /\ IF SignedIn(h) /\ user = "active"
       THEN Go(t, "shown", h, Page(h))
       ELSE Go(t, "home", h, Page(h))
  /\ UNCHANGED <<began, b2c, user, counts, idle, slept>>

(* The view home, of a user who may have to sign in.  The first request of  *)
(* a sign-in keeps its state in auth2's session, which is a new one unless  *)
(* the user has one.                                                        *)
BeginSignIn(t, next) ==
  /\ began' = t
  /\ jar' = [jar EXCEPT !["auth2"] = IF Live("auth2") THEN @ ELSE Guest]
  /\ ticks' = Loaded("auth2")
  /\ Go(t, "b2c", "auth2", IF next = NoPage THEN Page("auth2") ELSE next)

HomeSignedOut(t) ==
  LET h == tab[t].host
      next == tab[t].next
      refused == Live(h) /\ user # "active"
  IN
  /\ At(t, "home")
  /\ ~ SignedIn(h) \/ user = "inactive"
  /\ IF Live(h) /\ user = "deleted" THEN LogoutView(t, h, next, h)
     ELSE IF h = "other" /\ ~ refused
       THEN /\ Go(t, "home", "auth2", IF next = NoPage THEN Page(h) ELSE next)
            /\ Uses(h)
            /\ UNCHANGED began
     ELSE IF next.kind = "signedout" \/ Expired(h) \/ refused
       THEN LogoutView(t, h, next, h)
     ELSE BeginSignIn(t, next)
  /\ UNCHANGED <<b2c, user, counts, idle, slept>>

(* ... and of a user who is signed in: the next page, or, in another        *)
(* domain, the form that posts the value of the cookie to it.               *)
HomeSignedIn(t) ==
  LET h == tab[t].host
      to == IF tab[t].next = NoPage THEN Page(h) ELSE Page(tab[t].next.host)
  IN
  /\ At(t, "home")
  /\ SignedIn(h) /\ user = "active"
  /\ Uses(h)
  /\ IF to.host = "auth2"
       THEN Go(t, "page", "auth2", NoPage)
       ELSE tab' = [tab EXCEPT ![t] =
              [at |-> "form", host |-> "other", next |-> to,
               cookie |-> IF h = "auth2" THEN jar[h] ELSE Nested]]
  /\ UNCHANGED <<began, b2c, user, counts, idle, slept>>

LoginDomainKeepsCookie(t) ==
  /\ At(t, "form")
  /\ jar' = jar
  /\ Go(t, "page", "other", NoPage)
  /\ UNCHANGED <<ticks, began, b2c, user, counts, idle, slept>>

(* The view login_domain sets the cookie it was given.                      *)
LoginDomain(t) ==
  /\ At(t, "form")
  /\ jar' = [jar EXCEPT !["other"] = tab[t].cookie]
  /\ Go(t, "page", "other", NoPage)
  /\ UNCHANGED <<ticks, began, b2c, user, counts, idle, slept>>

-----------------------------------------------------------------------------
(* B2C answers at once for a user it knows, or asks for a password.         *)
B2CAnswers(t) ==
  /\ At(t, "b2c")
  /\ Go(t, IF b2c THEN "complete" ELSE "signin", "auth2", tab[t].next)
  /\ UNCHANGED <<sessions, began, b2c, user, counts, idle, slept>>

(* The sign-in comes back to auth2.  Its state is of the tab that began     *)
(* last; another's fails (handler400).                                      *)
CompleteFails(t) ==
  /\ At(t, "complete") /\ began # t
  /\ Uses("auth2")
  /\ Go(t, "failed", "auth2", tab[t].next)
  /\ UNCHANGED <<began, b2c, user, counts, idle, slept>>

(* check_idp_and_usergroup signs out a user who is inactive, or who came by *)
(* an identity provider that the user's group does not allow; a user who is *)
(* new is created (create_user).                                            *)
Accepts == user # "inactive"

CompleteRefused(t) ==
  /\ At(t, "complete") /\ began = t
  /\ user # "deleted"
  /\ user = "active" => changes < MaxChanges
  /\ changes' = IF user = "active" THEN changes + 1 ELSE changes
  /\ Flushes("auth2")
  /\ began' = NoTab
  /\ Go(t, "logout", tab[t].next.host, tab[t].next)
  /\ UNCHANGED <<b2c, user, visits, time, idle, slept>>

(* A user who was deleted since the session began is handler400's.          *)
CompleteDeleted(t) ==
  /\ At(t, "complete")
  /\ Live("auth2") /\ user = "deleted"
  /\ LogoutView(t, "auth2", NoPage, "auth2")
  /\ UNCHANGED <<b2c, user, counts, idle, slept>>

Free(k) == \A h \in Hosts, t \in Tabs : k # jar[h] /\ k # tab[t].cookie

(* A sign-in gets a new session key, unless the session has its user.       *)
Complete(t) ==
  /\ At(t, "complete") /\ began = t
  /\ ~ (Live("auth2") /\ user # "active")
  /\ Accepts
  /\ user' = "active"
  /\ IF Live("auth2")
       THEN Uses("auth2") /\ UNCHANGED slept
       ELSE \E k \in Keys :
              /\ Free(k) /\ \A q \in Keys : Free(q) => k <= q
              /\ jar' = [jar EXCEPT !["auth2"] = k]
              /\ ticks' = [ticks EXCEPT ![k] = Timeout]
              /\ slept' = (slept \/ (idle /\ \A o \in Tabs : ~ At(o, "b2cLogout")))
  /\ Go(t, IF tab[t].next.host = "auth2" THEN "page" ELSE "home", "auth2", tab[t].next)
  /\ UNCHANGED <<began, b2c, counts, idle>>

Move(t) ==
  \/ Logout(t) \/ B2CLogout(t) \/ SignedOutPage(t)
  \/ ShowPage(t) \/ HomeSignedOut(t) \/ HomeSignedIn(t) \/ LoginDomain(t)
  \/ B2CAnswers(t) \/ CompleteFails(t) \/ CompleteRefused(t) \/ CompleteDeleted(t)
  \/ Complete(t)

-----------------------------------------------------------------------------
(* The user opens an address in a tab, or signs in.                         *)
Visit(t) ==
  /\ Resting(tab[t].at) /\ visits < MaxVisits
  /\ visits' = visits + 1
  /\ UNCHANGED <<sessions, began, b2c, user, time, changes, idle, slept>>

Open(t) == Visit(t) /\ \E h \in Hosts : Go(t, "page", h, NoPage)

OpenHome(t) ==
  Visit(t) /\ \E h \in Hosts : \E next \in {NoPage, Out(h)} : Go(t, "home", h, next)

OpenLogout(t) == Visit(t) /\ \E h \in Hosts : Go(t, "logout", h, NoPage)

EnterPassword(t) ==
  /\ At(t, "signin") /\ visits < MaxVisits
  /\ visits' = visits + 1
  /\ b2c' = TRUE
  /\ idle' = FALSE
  /\ Go(t, "complete", "auth2", tab[t].next)
  /\ UNCHANGED <<sessions, began, user, time, changes, slept>>

(* The link of the signed out page.                                         *)
SignInAgain(t) ==
  /\ At(t, "signedout")
  /\ Visit(t)
  /\ Go(t, IF tab[t].next.kind = "page" THEN "page" ELSE "toSignedOut",
        tab[t].next.host, NoPage)

(* A session that times out takes the state of a sign-in with it.           *)
Tick ==
  /\ time < MaxTicks
  /\ time' = time + 1
  /\ ticks' = [k \in Keys |-> IF ticks[k] = 0 THEN 0 ELSE ticks[k] - 1]
  /\ LET ends == Live("auth2") /\ ticks[jar["auth2"]] = 1 IN
       /\ began' = IF ends THEN NoTab ELSE began
       /\ idle' = (idle \/ ends)
  /\ UNCHANGED <<tab, jar, b2c, user, visits, changes, slept>>

ChangeUser ==
  /\ changes < MaxChanges
  /\ changes' = changes + 1
  /\ user # "deleted"
  /\ user' \in {"active", "inactive", "deleted"} \ {user}
  /\ UNCHANGED <<tab, sessions, began, b2c, visits, time, idle, slept>>

Next ==
  \/ \E t \in Tabs :
       Move(t) \/ EnterPassword(t) \/ Open(t) \/ OpenHome(t) \/ OpenLogout(t) \/ SignInAgain(t)
  \/ Tick \/ ChangeUser

(* The browser follows every redirect, and auth2 and B2C answer.            *)
Spec == Init /\ [][Next]_vars
FairSpec == Spec /\ \A t \in Tabs : WF_vars(Move(t))

-----------------------------------------------------------------------------
TypeOK ==
  /\ \A t \in Tabs : tab[t].host \in Hosts /\ tab[t].cookie \in 0..Nested
  /\ \A h \in Hosts : jar[h] \in 0..Nested
  /\ \A k \in Keys : ticks[k] \in 0..Timeout
  /\ began \in Tabs \cup {NoTab}
  /\ user \in {"active", "inactive", "deleted"}
  /\ visits <= MaxVisits /\ time <= MaxTicks /\ changes <= MaxChanges

(* Every chain of redirects ends at a page, whatever the other tabs do in   *)
(* between, unless home keeps being asked in the other domain by a tab that *)
(* another one has signed in: it posts a cookie value that names its domain *)
(* twice, which signs both out there (views.py:1519).                       *)
PostsNested == \E t \in Tabs : At(t, "form") /\ tab[t].cookie = Nested

AllRest == \A t \in Tabs : Resting(tab[t].at)

NavigationEnds == []<> (PostsNested \/ AllRest)

(* A user whose session timed out is asked for the password again, though   *)
(* B2C still knew the user, unless a tab is just on its way to sign out of  *)
(* B2C.                                                                     *)
SleptSessionAsksPassword == ~ slept

=============================================================================
