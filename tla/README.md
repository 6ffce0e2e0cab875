# auth2 in TLA+

Specifications of auth2 (`src/authome`), the Django service behind nginx's
`auth_request` that signs users in and decides which user may access which
domain and path. Every module translates Python code; `PROJECT.json` gives the
lines each definition stands for.

## 1. Inventory

| Component | State | Operations | Hard behaviour | Correct when |
|---|---|---|---|---|
| User groups and rules (`models/models.py`) | tables UserGroup, UserGroupAuthorization | `find_groups`, `find_authorizations`, `check_authorization`, `can_access` | a tree walked by one loop over three variables; rules implemented twice | the deepest matching groups are found; both implementations decide alike |
| User email patterns (`models.py`) | patterns of a group | `match`, `contain` | containment of patterns by one loop with two indexes | what is said to be contained is |
| Administration of groups (`models.py` `clean`, `admin.py`) | rows with a parent, the cached public group | validate, save, delete | checks read rows that another administrator changes before the save | the groups are one tree in which each fits into its parent |
| Authorization cache (`cache/cache.py`, `models/models.py`) | the two tables, four maps derived from them, the next check time, load times | `refresh_authorization_cache`, `refresh_cache`, `get/set_email_groups`, `get/set_authorizations`, `initialize` | requests of a cooperative worker interleave at each Redis or database call; failures in the middle of a reload; eviction | derived maps agree with the cached tables; an announced change is loaded |
| Change announcements (`ModelChange`, receivers in `models.py`) | time of the last change of each table, in Redis; without Redis, the times in the rows | `change`, `is_changed`, `status` | announced before the commit; lost with Redis | an unchanged table is fresh |
| Session store (`sessionstore/`) | one Redis cache per cluster, the standalone cache and each cluster's previous cache | `load`, `save`, `delete`, `flush`, `create` | sessions move between clusters and caches in several calls, any of which can fail, time out or be the last of a dying worker | the session acts as one session; it is never lost |
| Session middleware (`middleware.py`) | the cookie: load balancer key, cluster, session key, signature | `process_request`, `process_response` | cookie and data are updated in different places at different times | the cookie leads to the session |
| Sign-in and sign-out (`views.py`, `pipelines.py`) | cookies of two domains, sessions, B2C's memory of the user | `home`, `login_domain`, `logout_view`, `signedout`, `signout`, `handler400` | chains of redirects of several tabs | every chain ends at a page; a session that timed out asks for the password |
| Cluster registry and interconnection (`clusterviews.py`, `clustercache.py`, `clustermodels.py`) | rows and registry of clusters, time of each one's last change | register, refresh, broadcast a configuration change, get and delete a remote session | HTTP calls that time out and are carried out later; clusters that come and go | a change reaches every cluster, or its absence is shown |
| Interconnection user (`models.py` ReservedUser) | a user and its token, cached in each worker | `loaduser`, `loadusertoken`, renewal, `reset` | compare and set by several workers, against administrators | the second attempt is accepted; a due token is renewed once |
| Auth response caches and auth views (`views.py`, `cache.py`) | responses by session key and by basic token | `_auth`, `auth_basic`, `clean_auth_cache` | answers outlive the rules, token or session they were made from | an answer is not older than its timeout |
| User cache, user tokens (`patch/patch.py`, `selfservice.py`, receivers) | users and tokens in Redis | load, replace, delete, revoke | set after a read races with a change | the cached user is the saved one; a revoked token is refused |
| Local sign-in (`views.py` `auth_local`) | code, tries, token in the session; codes per day in Redis | send, resend, verify, sign up | counters read and written in different steps; sessions overwritten | limits hold; a code works once; only verified emails sign in |
| Captcha (`views.py`, `captchautil.py`) | code, file and allowance in the session; files by the hour | require, draw, check, pass | as above; subprocesses that sweep directories | an allowance is spent once; the file is there |
| TOTP (`views.py`) | secret and last code | generate, verify | check and store in different steps | a code is not repeated; the shown secret works |
| Redis failover (`redis/cluster.py`) | master per group, per process | `_execute_command`, `switch_masternode`, `masternode_failover` | several processes take over at once | the command ends at a master or fails; every replica is tried |
| Task schedules (`cache.py`) | next run time | `can_run` | boundaries of the day | once per slot |
| Identity provider and userflow caches | as the tables of the authorization cache; fields remembered on rows | `_find_userflows`, `_init_userflow_*` | filled in on first use | the configured answer, whatever was asked before |
| Traffic data (`cache.py`, `monitorviews.py`, `trafficdata.py`) | counters, a list in Redis, rows, reports | log, push, save, populate reports | counters cleaned before a call that yields; a list trimmed inside a transaction; runs that overlap | each request counts once, in its interval; reports add up |
| Health checks and monitoring (`monitorviews.py`, `healthcheckviews.py`) | what a cluster knows of the others | `ping`, health check, status, online status | answers of different times combined during an outage | the lone cluster stays in service; what is reported working worked |
| Administration pages, performance, migration script, forms, mail, templates | statistics, pages, tools | | | |

How they interact: nginx sends every request to `_auth`. The middleware names
the session by the cookie; the session store loads it, from another cluster if
need be. The view answers from the auth response cache or asks `can_access`,
which answers from the authorization cache of its process. Administrators save
groups and rules in any process; receivers put the time of the change into
Redis, where all processes look at their next check time. A user who logs in,
out or is changed is put into or removed from the user cache in Redis. All Redis access
goes through the failover client. Clusters call each other over HTTP with the token of the
interconnection user. Outside a request, a command saves the traffic of each cluster, and
Kubernetes asks each cluster's ping.

Hazards, each with its line and the properties aimed at it, are in
`PROJECT.json`.

## 2. Modules

### GroupTree, FindGroups, Authorize

`GroupTree` holds the two tables as data and the rules as operators. A tree has
`live` rows, `parent`, and for each group the emails its `users` and
`excluded_users` patterns match: patterns are abstracted to match sets. The
same holds for paths. `MatchedGroups`, `FindAuthorizations` and
`CheckAuthorization` are the reference definitions; the last is
`check_authorization` itself, less its exemption of paths under `/sso/`
(`Paths` are the others).

`FindGroups` is the loop of `find_groups`, one action per branch of its body,
with the closure `_add_group` in the actions that call it. `Authorize` is the
loop of `find_authorizations` with the early returns on `allow_all` and
`deny_all`, and `CanAccess` the decision taken from its result.

### AuthorizationCache

One worker process with its requests, the administrators, the database and
Redis. State and code:

| Variable | Code |
|---|---|
| `db`, `txn` | committed content of each table, content of an open `transaction.atomic()` |
| `lastMod` | `ModelChange` keys in Redis |
| `cached`, `cachedTs` | `_usergrouptree`, `_usergroupauthorization` and their `_ts` |
| `emailMap`, `groupsMap`, `authMap` | `_email_groups_map` and its public counterpart, `_groups_map`, `_groups_authorization_map` |
| `checkTime` | `_authorization_cache_check_time` |
| `req`, `rows` | locals of `can_access` and of the refresh it runs, rows of its query |
| `cpu` | the request that runs |

A request's actions follow `can_access`: look up the groups key, compute the
groups if it is missing (loading the tree if need be), run the refresh if it is
due, look up the authorizations, else compute and file them. A refresh is
check, clear, query, set, for each table. `Yield` and `Resume` switch between
requests at Redis and database calls; they exist when `Cooperative` is TRUE.
`bin/start_app` chooses by RUNNING_MODE between `gunicorn_sync.py`,
`gunicorn_gevent.py` and `gunicorn_eventlet.py`, so both kinds of worker are
real. The loops of `find_groups` and `find_authorizations`, which make no call
that waits, are single steps here, by the operators that `FindGroups` and
`Authorize` show them to compute.

Assumptions: every group but the public one is a child of the public group
(Django reads `parent_group` lazily; with this hierarchy what it reads later is
what the cached tree says), and the tables are not empty (the code takes an
empty table for one not loaded). One clock orders announcements and loads.

### Session, ClusterSession

`Session` says what a user is promised: one value, of which a request sees the
latest version or nothing, and nothing once it has ended.

`ClusterSession` is the code of `load` in `sessionstore.py` and
`clustersessionstore.py`, `save`, `flush`, the middleware's two halves and the
cluster views, one step per call of Redis or of another cluster. The session
data is a version number. A request goes

    get -> getPrevious -> set -> deletePrevious      (or getAgain)
        -> copy -> delete                            (or own)
        -> view -> respond

and each call can fail: `LoadFails`, `MoveFails`, `DeleteFails`, `AnswerFails`
are the `except` branches, `DeleteTimesOut` with `LateDelete` the call whose
sender stops waiting, `Crash` the death of a worker. `DeleteFails` takes the
branch where reporting the failure raises an exception itself:
`clustercache.py:476` calls `utils.get_source_sessioin_cookie`, which does not
exist.

Abstractions: sessions do not expire; all hosts share the cookie's domain; a
default cluster exists; the standalone cache uses another prefix than the
clusters and shares the default cluster's previous cache; a remote load ends
with the request that asked for it; a session is not created, nor its key
cycled.

### UserCache

One user's record in the database, in the user cache of each cluster (Redis),
and in the answers each worker keeps. State and code:

| Variable | Code |
|---|---|
| `db`, `txn`, `owner` | row of `auth_user`, row in the transaction of an admin page, its worker, which locks the row |
| `cached` | the key `GET_USER_KEY(userid)` in each cluster's `get_usercache` |
| `answers` | `_staff_auth_map` and `_auth_map` of each worker, for the user's session |
| `req` | `request.user` and where the request is |
| `raced` | not in the code: clusters that missed a change, and so may be stale |
| `undone` | not in the code: times of records that were rolled back |

A request of `/sso/auth` goes get -> (read -> set) -> answer -> respond; a change
goes get or readRow -> write -> postGet -> (postSet) -> notify or store, which is
`load_user`, `save`, `post_save_user` and `cache.user_changed` in turn. `load_user`
guards its calls of Redis; `post_save_user` and the sign-in do not, and the project sets no
ATOMIC_REQUESTS, so `PostFails` and `StoreFails` end a request whose row is committed
already. (In an admin page the same failure is a `Rollback`.) The three ways of changing a user differ: the profile page saves names and `modified`, but
caches what `clean()` made of `is_staff`; a sign-in saves `is_staff`, tells no
other cluster and caches the user in any case; an admin page saves every
column and tells the other clusters before its transaction commits.

Abstractions: a record is its time of modification (for the names an answer
shows) and `is_staff`; the user is active, has one session and keeps the same
groups, so that the comparison of `X-groups` finds no difference; timeouts may
end at any moment; the database does not fail; workers are sync. Tokens, the
cache of ids by email and deleted users are left out.

### Passcode, Captcha, Totp

A request of these views works on the session it loaded when it began and saves
all of it when it answers. In `Passcode`, `post[r]` is the request with its copy
of the session, `sessions` the keys of Redis, `counted` the codes of the day. The
branches of `auth_local` after `View` are the operators `SendAgain`, `SendNew`,
`Refuse`, `VerifyWrong`, `VerifyRight`, `Signup` and so on, which change the copy; a
new code goes ReadCount -> SetCount -> Mail, one call each; a sign-in goes
Login -> DeleteOld, as Django's `login` cycles the key, and finds out there
whether the session it deletes still exists. Codes and tokens expire by an
outcome of each look at them. `Captcha` has the three keys of the session as one
`Entry`, and the subprocess as FindDir -> Sweep -> MakeDir -> Write. `Totp` has
the row of one email, read when a request begins and written when it ends.

What overlapping requests lose is counted in history variables (`lost`,
`lostCounts`, `overwrites`, `crossed`), and the limits are stated with them: each
lost save is worth one more round of tries, each lost count another day's limit of
mails, as the number a request read before may be from before all of them.

### UserTokens, Interconnect

`UserTokens` follows one user's token through the database, the Redis of each
cluster (`tokencache`) and the answers of each worker (`authmap`); a cluster has workers
for clients (`Servers`, in the clusters that are `Reached`) and one for whoever changes the
token. Whether the user is active is any answer (`CheckUser`). A login goes
Present -> CheckUser -> ReadToken (-> CacheToken) (-> GetToken) -> Decide -> Admit. A
change goes BeginEdit -> Insert, which is committed at once, or BeginEdit -> Update ->
PostGet -> PostSet -> Notify -> Commit: `UserToken.save` has a transaction of its own
(models.py:1858), and the listeners cache the new instance and tell the other clusters in
it. Until `Commit` the row is what it was for everybody else, `edit[c].new` is what
will be, the row is locked, and any step may be the last one (`RollBack`). `Over` is
`save(update_fields=...)`: of the row as it is, only the columns are replaced that the
request changed in the row it read. The
setting `CHECK_AUTH_BASIC_PER_REQUEST` and the two kinds of user are initial
states. The history `genuine` of a login says whether its token was valid at some
moment since the request began, in the row or in what an open transaction has written; a
login without it that is admitted is an intruder.

`Interconnect` is `ReservedUser`, one action per statement with its WHERE
clause, and the call that resets it and tries again; an administrator may disable,
revoke, delete and replace user and token in between, and tokens may come due. The called
cluster is `basic_auth_wrapper`, `_auth_basic` and the lookups of patch.py: `Find` takes
the user from the called cluster's user cache (`emailKey`, `userKeys`) or from the database,
and the call is refused (`Refuses`) if that user is not active or the token is not the
database's. As `post_save_user` of clustermodels.py is commented out, nobody
tells that cluster that a worker has made the user active again, and the second attempt
is refused like the first until the key expires: `SecondTryAccepted` excepts calls
answered from a cached user that is not the row. `Accept` is not the negation of
`Refuses`, as a cached token or answer may still admit a call.

### RedisFailover

One group of nodes and several processes. The cluster (`up`, `master`, `flagged`,
`listed`) is external, `primary`, `default` and `recognized` are what each process
believes, `cmd[p]` is its command. `Round` is one round of `switch_masternode`:
the nodes it tries depend on what CLUSTER NODES said, round by round. `Takeover`,
`AlreadyMaster`, `TakeoverFails`, `Confirm` and `ConfirmFails` are the outcomes of
`masternode_failover`; `PingNode`, `Promote` and `NoDefault` those of
`find_another_default_node`.

Only a node that stops is out of reach, for all processes alike; networks that part
some processes from some nodes are left out. `Promote` is the takeover and the check
after it in one step.

### Navigation

A browser with tabs, the cookies it has for auth2's domain and for another one
(`jar`), the sessions' remaining time, Azure B2C's memory of the user and the tab
that auth2's session waits for (`began`). One action is one request with its
response: `ShowPage` (nginx with `_auth`), `HomeSignedOut`, `HomeSignedIn`,
`BeginSignIn`, `LoginDomain`, `LogoutView`, `B2CLogout`, `SignedOutPage`, and the
answers of B2C, `Complete` and its failures. Between them the user opens pages and
enters passwords, time passes and an administrator changes the user.

### Clusters, PolledTables

`Clusters` has the registry of each worker, one table with the time of each of
its rows, and what each cluster has announced and loaded. An administrator's
request goes BeginEdit -> Announce -> Send to each cluster -> Finish, which
commits; `Disturbed` is the exception of an iteration whose dictionary another
request refreshed. Clusters stop, start, are unregistered and miss calls.
`PolledTables` is `ModelChange` without Redis: a row is stamped, then committed; a
load is stamped, then reads.

The table of both is that of the groups, whose rows also change without a stamp: a
new name is saved with the old `modified` (`UserGroup.is_changed`), and deleting an
identity provider sets the groups that name it to null in the database
(`DeleteProvider`), which stamps no row, sends no signal and announces nothing. What the
other three tables do is a part of this. `altered` says whose copy lacks such a change.

### GroupAdmin, EmailPatterns

An edit goes Post -> (Climb)* -> CompareParent -> CompareChildren -> Compare ->
Write, each a query of `clean` or `save`, with deletions, a second administrator and
the refresh of the cached public group in between. What `contain` answers for two
patterns is a parameter, yes, no or None, so that nothing depends on the answers being
right: `TreeSound` says that groups fit into their parents as `contain` answers. Where its
answers are too often no (`*a@a` and `*aa@a`), a group may be refused that fits, and one that
has the users but not the exclusion of its parent may pass (models.py:1003).

`EmailPatterns` says what the answers are worth. It is the loop itself, one action per
branch. The regular expression of a pattern with stars is `Ends`, where in an email what
the first characters of the pattern match can end: a "*" stands for the characters of
`[a-zA-Z0-9\._\-\+#]` (models.py:813), which are `Letters`, and an email may have
`Others`, such as the apostrophe of o'brien@x. The loop lets a "*" pass over any character
of the contained pattern, so that `*@x` is said to contain `@x` and does not match that
email. `ContainsIsSound` says what is so: an answer of the loop holds of emails made of
`Letters`, an answer of the branches before it of all. Patterns have no characters with a
meaning in regular expressions but ".", which the code quotes.

### TrafficData

A counter is the set of requests that it counts, so that a request lost or
counted twice can be named. Logging goes Begin -> Log, or RollOver -> Push when an
interval is over; saving goes ReadList -> Trim -> CommitRows in one database
transaction around a call of Redis; a run of the command saves each cluster, then
adds rows to reports in memory (AddRow) and commits them batch by batch. Requests are of
the four methods of `sso_requests_keys` or `Others`, such as captchas: an
interval with only the latter makes no row (`Rowless`) and is trimmed all the same. The
other things that make a row, calls of Redis, the database and remote sessions, are
measured where monitoring of them is configured, and are left out. The
sharing of a dictionary between a row and reports is kept (`of`).

### Health, OnlineStatus

`Health` has the database, each cluster's Redis and model caches, and each
cluster's knowledge of the others; a check asks the clusters one by one.
`OnlineStatus` is the two loops of the page: the periods of one cluster, then the
merge of all of them. The servers of the rows are put on the list as
`_populate_onlinestatus` does it: those that ended before the earliest day are left
out (`Monitored`), and a recent heartbeat is one of now (`Beats`).

### Userflows, TaskSchedule

`Userflows` has rows, which are their positions in the order of the sort keys, what
was filled in on them (`memo`) and the rows remembered for a domain (`found`); a
request looks at these from its position on (`Coming`). Pages, mails and signed-out
pages are the three values of `part`. `TaskSchedule` has both kinds of `can_run`, for
every list of hours.

## 3. Runs

Components that do not share state are checked side by side. The modules
Decisions, MCRecovery, MCCredentials and MCOperations have the variables of
several components and one more, `which`: a behaviour is a behaviour of one of
them, and the others stay in an initial state, or have no value. `MCDecisions` gives
the inputs that TLC runs Decisions on. The state graph is the
disjoint union of theirs; nothing is lost and nothing interleaves that does not
in the code. Components that do share state are composed in one module.

| Run | Instance | Shows |
|---|---|---|
| Decisions | every forest of four groups below a public group and at most a second root; chains and stars of three groups with two domains, two paths and up to two rules each; pairs of patterns of up to three characters, and emails with one that no "*" stands for; two clusters of up to two servers; two userflows, and one over two domains; intervals of 1 to 8 hours of a 6-hour day and lists of hours, over three days | groups, authorizations, containment, online periods, userflows and next runs are what is defined for them; the four loops end |
| Recovery | two processes, three Redis nodes, three events, two commands; two tabs, four visits, three sessions, two ticks, one change of the user; under fairness | failover tries every node and no process takes a master from another; a slept session asks for the password; commands end and redirects end |
| Credentials | two overlapping requests with 3 codes, 2 of them a day, and 6 requests; two with 2 captchas, up to 2 passes each and 6 visits; two callers with 2 secrets; one cluster of two workers that clients reach, and another one, with changes of the token and logins, three in all, and one fault; two workers with two calls, three interventions and four tokens; two tabs rerouted to one cluster and a crash | limits of codes, tries and passes; verified emails; TOTP codes; refused tokens, and revoked ones that stay so; the second attempt of a call and the renewal of its token; the cookie leads to the session |
| Operations | two administrators, two edits and a deletion; two clusters, two requests and a fault; three requests of one cluster or two of two, two intervals or one, with two runs in the second case; two clusters with two outages; two administrators without Redis | the tree, stale tables and their display, counts, reports, health checks |
| AuthorizationCache | sync worker, 3 groups, 2 emails, 2 contents of each table, one change, one failed call, email map of one entry; under fairness | email maps agree with the cached tree; at most one misfiled authorization; every announced change is loaded |
| AuthorizationCacheGevent | cooperative worker, two requests | an unchanged table is stale only through an announcement before its commit, or a lost one |
| AuthorizationCacheMisfiled | sync worker, one change | *violated:* authorizations come from the user's groups |
| AuthorizationCacheGeventStale | cooperative worker | *violated:* the same invariant as in the sync worker |
| ClusterSession | 3 clusters, one request at a time, 3 versions, 3 failures, one crash | until a worker dies `ClusterSession` implements `Session`; the session is kept whether or not one dies |
| UserCache | 2 clusters with one worker each, one change by any of the three ways, one failure, under fairness | between requests a cached user is the database's unless its cluster missed a change in one of the ways listed; an answer made from the record of its moment is not shown after a change; what was missed is gone when the timeouts have passed |
| ClusterSessionOverwrite | two requests | *violated:* the move of a session loses no change |
| ClusterSessionLogout | two requests | *violated:* no request brings a session back after logout |

Bounds. Every constant that starts with Max bounds a history: a counter in the
guard of one kind of step, and in no other. Two of each actor are enough for
the hazards listed, which are all races of two: two requests of a session, two
workers, two runs, two administrators. Third ones appear where a race has a
victim (three nodes: a master, one that is promoted and one that is left; three
clusters, of which a session comes back to one). Limits are as small as they can
be and still be exceeded (`TryTimes` 2, `DailyLimit` 2 with three codes, maps of
one or two entries). Four groups allow a chain of three below a root, two siblings under an
inner node and two roots, which are the shapes that the branches of `_add_group`
tell apart; three are enough for the rules and for cycles of parents. Patterns of
three letters before the "@" let a star be followed by a false start of what comes
next. A day of six hours has intervals that divide it and one that is longer.
Three events of the Redis cluster stop all of its nodes, which is when a switch
gives up; four visits of two tabs are what the exception `PostsNested` of `ComesToRest`
takes, without which the property is violated. Logins in different clusters share nothing
but the row, so that clients reach one of them, while the token is changed in either. Six visits of a captcha's session are
enough to require, draw and solve it and to be let through three times, once more than
an allowance of two. The run of `SignedInIsVerified` has one email; that a form for
another email signs nobody in is in theorem `OnlyVerifiedSignIn` only, whose number of
emails is any.
One change of a user
shows each way a cluster can miss it on its own; two at once make the instance of
the liveness property too large.

Symmetry is used in three runs that check no liveness: over requests of an
invariant that names none, over clusters that nothing tells apart, and in Credentials
over two values that are its requests, visitors, callers, servers and workers alike, as
a behaviour is one component's.

Deadlock is not checked where histories are bounded: a behaviour stops when its
counters are used up. In the cluster runs a browser without a cookie sends no more
requests of this session. Whether somebody waits for somebody is asked by
`ComesToRest`, `ChangesAreLoaded` and `Terminates` instead.

Fairness. In `FairSpec` of AuthorizationCache the clock advances
(`WF CheckTimeArrives`), a worker initializes and goes on with the request it
has (`WF`), and users' requests are taken again and again (`SF`, as an admin page
can take the worker in between). The administrators and the failures have no
fairness. In `UserCache` (`FairSpec`) workers carry requests out and timeouts
end (`WF`); no request has to come. `FindGroups`, `Authorize`, `contain` and the
loops of the online page are sequential: `WF` of the next step. In `RedisFailover`
a process goes on with its command (`WF Step`): Redis answers or its client times
out. In `Navigation` the browser follows redirects (`WF Move`); the user does
nothing that must happen. MCRecovery assumes less than these two: some process or
some tab goes on.

## 4. What the violated runs say

* The request whose check reloads the tables files the authorizations of the
  user's new groups under the user's old groups key. Another user of the old
  groups gets them. `AtMostOneMisfiled` bounds the damage in a sync worker to one entry
  until the next reload.
* In a cooperative worker another request refills the maps from the old tree
  while the refresh waits for its query.
* The copy of a moving session overwrites what another request has saved
  since it moved the session first.
* `save` never raises `UpdateError`, so the middleware's interruption of a
  request whose session was deleted by a logout does not happen.

The passing runs name what goes wrong as the exceptions of their properties:

* A second root group (which deleting a parent with `SET_NULL` leaves, or a cycle
  of two edits) makes `find_groups` raise AttributeError (`FailsOnlyWithTwoRoots`,
  `TreeSound`).
* The loop of `contain` reads patterns as text, so that the users of a group need not be
  users of its parent (models.py:990 says it checks that) when an email has a character
  that "*" does not stand for (`ContainsIsSound`).
* An answer is stamped when it is made, not when its user was loaded: one that is
  made while the user changes is taken for newer than the change and shown until
  it expires; and a user whose change was rolled back after a cache got it is taken
  for newer than what is true again (`OutdatedOnlyIfLate`).
* Each request that overlaps another of its session gives the guesser of a code
  `PASSCODE_TRY_TIMES` more tries, and can bring a used code back (`TriesLimited`,
  `CodeSignsInOnce`). A count of mails that overtakes others sets the day's number
  back to what it read, so that it is worth the whole limit again (`DailyLimited`).
* A TOTP code is accepted again after another one was (`TotpSound`).
* Without `CHECK_AUTH_BASIC_PER_REQUEST` a revoked token is admitted until its
  answer expires; with it, a system user's is by a cache that got an older row late, from a
  request that read it before the commit or from a change that was rolled back
  (`TokensSound`).
* The interconnection user that a worker has made active again stays inactive in the
  user cache of the called cluster, which refuses both attempts (`InterconnectSound`).
* A failure of Redis in `post_save_user`, when the row is committed, leaves the old user in
  the cache and the other clusters untold (`CachedUserCurrent`).
* A configuration change is sent to the other clusters before it is committed, and
  a refresh of the registry during the iteration ends it with an exception; a group that
  is renamed has no new time, and one that loses its identity provider is not even
  announced (`StaleOnlyIfExcused`).
* A push that fails, and a save that fails after it trimmed the list, lose
  requests; requests of an interval that makes no row are lost without a failure; two reports that begin with one row share its dictionary of status codes
  (`CountedOnce`, `ReportsAddUp`).
* `home` posts `session.cookie_value` to the other domain (views.py:1519), which
  names a domain already when the tab that asks is there: the cookie it gets
  names it twice, and the user is signed out there (`PostsNested`).

Seen while reading, and in no run, as they are plain slips or outside what is
modelled: `check_integrity` uses the undefined `hash_key` (middleware.py:69), so that
rotating the secret key fails every request with an old cookie; `signout` looks up
`get_idp(idp)` with the wrong argument (views.py:1725); the next address stored before
`logout_view` is lost by its flush (views.py:1439-1446); `clean_auth_cache` leaves
`_staff_auth_map`; a signup form that is sent again after "First name is required"
finds its counter deleted and ends in a KeyError (views.py:1044); the status
`UP_TO_DATE` is given without an announcement (clusterviews.py:31-33); without Redis,
cache.py:590 imports a name that models.py:2390 misspells;
`UserEmailPattern("*a@a").contain("*aa@a")` answers False, which refuses a group that
fits; a userflow with css and no layout raises UnboundLocalError
(views.py:1785-1786), and the default css is dropped by an inverted test
(models.py:672); monitorviews.py uses unbound names at 51, 132 and 145;
clustermodels.py:73-74 makes an exception and returns it; clusteradmin.py:108-134
reports the wrong clusters; clustercache.py:324-340 deletes the key of the token
where it means that of the user; two hosts whose clocks differ compare change
and load times (models.py:2159), where the models have one clock.

## 5. Proofs

TLAPS checks the following theorems for every value of the constants that the
assumptions allow: any number of requests, workers, clusters, emails, codes, and
any of the bounds. The assumptions are those the modules declare
(`PasscodeAssumption`, `CredentialsAssumption` and so on: the bounds are naturals, `None`
is no record, the allowances of captchas have a greatest) and those a theorem
names. `DecisionsAssumption` says of the inputs of the algorithms that there are finitely
many groups, that the tables are trees and tables of authorizations, that the characters
"*" and "@" are no letters, that a day has hours, an interval is not 0, and that the page
of the online status has at least the cluster that serves it and begins before now
(healthcheckviews.py:214, 231). TLC evaluates the first and found every inductive invariant below to hold
on the instances of the runs before it was proved. The proofs have one lemma per
action or per group of actions that do the same to the invariant.

| Theorem | Property | Assumes | Inductive invariant, and why it is needed |
|---|---|---|---|
| `AuthorizationCacheProofs` | | | |
| `TypeCorrect` | `TypeOK` | | itself: it says that a request has tables left to refresh exactly while it is in a refresh, and rows when it is about to set one |
| `StaleOnlyThroughWindowHolds` | `StaleOnlyThroughWindow` | | the property extended to requests in progress: rows read by a query are the committed ones, or a change was announced after the query's time, or the read raced; times never exceed the clock |
| `EmailGroupsCurrentHolds` | `EmailGroupsCurrent` | `~Cooperative` | while a request loads the tree the maps are empty; the groups a request has computed are those of the cached tree; only the running request is not idle |
| `AtMostOneMisfiledHolds` | `AtMostOneMisfiled` | `~Cooperative` | `FiledInv`: while no entry is misfiled a request may hold a key of an earlier tree; once one is, the key, groups and tree the request holds are those of the loaded tree. So the request that misfiles is the one that reloaded, and its first entry is its only one |
| `ClusterSessionProofs` | | | |
| `TypeCorrect` | `TypeOK` | | a request about to store session data has some |
| `SessionKeptHolds` | `SessionKept` | one request | what a move has done so far: before it deletes the previous copy the current one is there, before it deletes at the source the copy is there, and source and destination differ |
| `ImplementsOneSession` | `ActsAsOneSession` | one request | `OneInv`: in each step of a move, the places that can still hold a copy; every reachable copy has the version saved last; the cookie is the place the request looks at. Then a step of the move changes nothing `Session` sees, and an answer, a save or a flush is its step |
| `CredentialsProofs`, one-time codes | | | |
| `TypesCorrect` | `TypeOK` | | `TypeInv`: a code in a session or in a request comes with a counter of tries within the limit, belongs to one email and was drawn |
| `OnlyVerifiedSignIn` | `SignedInIsVerified` | | the same of requests in progress, and whoever has a token for the signup form is verified |
| `GuessesLimited` | `TriesLimited` | | `PasscodeInv`: a code that can be used is in one session, the requests that can use it loaded it from there, and a code that was sent and not saved is known to its request only. Then the guesses of a code are at most what its session counts, and a limit more for each overwritten save |
| `OneSigninPerCode` | `CodeSignsInOnce` | | as before, with the requests that signed in with a code and have not answered counted as used |
| `MailsLimited` | `DailyLimited` | | codes mailed and about to be mailed are at most the day's count, and a limit more for each count written over another |
| `UserCacheProofs` | | | |
| `TypesCorrect` | `TypeOK` | | changes that were begun and not written are within the bound on saves, so that the clock is |
| `CachedUsersCurrent` | `CachedUserCurrent` | | `UsersInv`: for a cluster that missed nothing, the cached user is the committed one, or somebody is going to replace or delete it, or the cluster was told of the open transaction; a copy in hand that may still be cached is what its request sees in the database |
| `OutdatedAnswersAreLate` | `OutdatedOnlyIfLate` | | of every copy of the record and every answer that is about, wherever it is: a copy is not later than the row, unless it was rolled back or is in the transaction; an answer that was not late is not between a copy's time and its own stamp |
| `CredentialsProofs`, the others | | | |
| `CodesNotRepeated` | `TotpSound` | | the row remembers the code accepted last, or has a younger secret, as long as no two requests crossed; the secret shown last is in the row, or a new one is about to be shown |
| `RevokedTokensRefused` | `TokensSound` | | `TokenInv`: rows, committed or open, have tokens that were generated and not revoked, and at most one is open; a login whose token was never valid while it was in progress holds no row with that token, and its cluster's cache has such a row only if one was cached late |
| `CaptchasPaidFor` | `CaptchaSound` | | `CaptchaInv`: some set of solved captchas and the overwritten saves pay for the requests passed, for what is left in the session, and for the session's captcha if it has paid already; a captcha drawn and not saved is known to its request only; each file is the session's or an answer's to come |
| `TabsKeepTheirSession` | `CookieLeadsToSession` | one route, no call fails | `TabsInv`: the session is at the cluster all tabs are sent to, if anything leads there, or still at its home; a request that has copied it, or found it nowhere else, finds it there; the cookie names the cluster, or the home from which no request has moved the session without being on its way to answer with a new cookie |
| `SecondTriesAccepted` | `InterconnectSound` | | `RemoteInv`: a second try nobody disturbed starts with nothing cached, and what it has loaded is what the database holds, or a token that is due and will be replaced, so that it is refused only for a user the database does not have; a due token is an expiry that has not been renewed yet |
| `OperationsProofs` | | | |
| `OldTablesAreExcused` | `StaleOnlyIfExcused` | | `RegistryInv`: a cluster an edit has told is announced what it has not loaded, or loaded while an edit was under way, and what any other cluster lacks was modified after it loaded, or stamped no row. `PollInv`: the same of the copy that is checked without Redis, and of the saves that are not committed |
| `ChecksTellTheTruth` | `ReportsWorked` | | `HealthInv`: what works now has worked since the check began, and what the check has found working did |
| `OnlyClusterServes` | `LoneStaysInService` | | a cluster whose last refresh found no other row knows of no other cluster |
| `TreesStaySound` | `TreeSound` | first tables that are one tree | `GroupInv`: every group has a depth greater than its parent's; an edit that is alone has climbed a path that ends and does not meet its group, so that the groups off the path can be made deeper by as much as is needed; it has compared what is still in the rows. A chain of parents that did not end would meet more groups than there are |
| `TrafficCountedOnce` | `CountedOnce` | `TrafficAssumption` | `RequestsCountedOnce`, of both instances |
| `TrafficReportsAddUp` | `ReportsAddUp` | `TrafficAssumption` | `ReportsAreSums`, of both instances |
| `TrafficDataProofs` | | | |
| `RequestsCountedOnce` | `CountedOnce`, `CountedInItsInterval`, `TypeOK` of `TrafficData` | `TrafficConstants` | `CountInv`: a counter, a push, a list and a save hold only logged requests of their cluster; a request alone in its worker pushes no later request with it; unless its list was raced, a save is the only one and holds a prefix of the list until it trims it; and a request that no fault dropped, and no interval without a row, is in exactly one place, once |
| `ReportsAreSums` | `ReportsAddUp` of `TrafficData` | `TrafficConstants` | `ReportsInv`: as long as no two runs overlap, a report is the sum of the committed rows, in the memory of the run of these and the rows of its batch added so far; the rows still to add are of later batches than those committed, and no row of a batch in hand is missing. A dictionary that is the status of one report is the dictionary of a row that will not be added again |
| `DecisionsProofs` | | | |
| `CanAccessAgrees` | `AgreesWithCheckAuthorization` | | `AccessInv`: the groups of the user are those looked at, the one on the way up and the rest; what is matched is the nearest authorizations of those looked at, less the ones that deny all, and none of them allows all. An ancestor on the way has the nearest authorization of the group the way began at |
| `FindAuthorizationsReturns` | `ReturnsFindAuthorizations` | | the same |
| `FindGroupsReturns` | `ReturnsDeepestMatches` | | `FindInv`: each deepest group of the email is found, or the loop has still to visit it, a group above it or a child of it; no group found is above another one; the parents of the groups to visit contain the email |
| `FindGroupsFailsForTwoRoots` | `FailsOnlyWithTwoRoots` | | the same: `_add_group` fails for a root that is not above a group found before, and that group has a root of its own, which contains the email as the parents of the group do |
| `ContainsSound` | `ContainsIsSound` | | `PatternInv`, with `KeepsUp`: for every way in which the contained pattern matches an email of letters, the container matches what was read of the email so far, and its last star can read on from there. The exception is a star that has swallowed the "@": the container never gets to its own "@" then, and the answer is no |
| `TasksRunInEverySlot` | `RunsInEverySlot` | | `ScheduleInv`: the next run is later than the last check, is a time of the schedule, at the hour the index points at, and no time of the schedule is between them. The loop that advances it keeps to the same, and a day is as long as the differences between the hours together |
| `UserflowsAnswer` | `AnswersAsConfigured` | | `FlowInv`: what is remembered on a cached row is blank or as configured, for rows that are not customized, for each class of a page and for each field; the rows of the domain before the one looked at are not customized; the rows remembered for a domain are those that match it |
| `OnlineStatusShows` | `ShowsWhoWasOnline` | | `OnlineInv`: of each cluster (`ClusterRight`), the periods found cover the time up to `begin` and show the servers that were online then, and a server is off the list from its last heartbeat or since one that replaced it was ready; of the merge (`InStep`), the current period of every cluster contains the time the merge has come to, so that no list ends before the others |
| `RecoveryProofs` | | | |
| `FailoversAreSound` | `FailoverSound` | | `FailoverInv`: as long as no node came back, what a process tried in vain is down for good and every node before one that is up is down, so a master that is up is the only node a process can take over; takeovers, and one more if the master is down, are the masters lost. That a switch tries all nodes is a lemma about its rounds, with the least node left out as the counterexample |
| `SleptSessionsAsk` | `SleptSessionAsksPassword` | | `BrowserInv`: from the timeout until B2C signs the user out, no sign-in is waited for and the browser keeps the dead cookie, which makes home log out first, or a tab is on its way to B2C's logout |

The theorems of `CredentialsProofs` are about `UnionSpec`, the
behaviours of MCCredentials, those of `DecisionsProofs`, `OperationsProofs` and `RecoveryProofs` about
those of Decisions, MCOperations and MCRecovery; a step of a component there is a step of its
module. Decisions has the userflows twice, with one domain and with two: the lemmas about
them have the domains, the rows and the bound as parameters and are applied to both.
MCOperations has the traffic statistics twice, with one cluster and with two.
`TrafficDataProofs` proves them for any number of clusters, requests, intervals and runs,
and `OperationsProofs` applies that to both; its hypothesis is that the bounds are numbers
and that `None` is not a row of the table, which TLC evaluates in MCOperations.

The attempts to prove found four properties that were false as they were stated,
although their runs passed. Each was restated as what the code does, and TLC now
finds the old form violated on a larger instance:

* `DailyLimited` said that each lost count is worth one more mail. It is worth the
  limit: the count written may be from before all the others. With a limit of one
  the two are the same.
* `OutdatedOnlyIfLate` left out the record that was rolled back, which takes a
  second worker in a cluster to cache and to show.
* `RevokedTokenRefused` asked for the token to be valid when the request began;
  with more than one change a token may become valid, and be revoked again, during
  it.
* `ReportsAddUp` left out a row forever once a later batch had overtaken it. With
  three runs and two faults the run that overtook it can fail before it commits, and
  the next one reads the row and reports it.

`TabsKeepTheirSession` names what `CookieLeadsToSession` needs. With tabs on two
clusters the answer of the old one can come last and put its name back into the
cookie, and a save that fails after the move is an error page that sets no cookie: in
both cases the session is where the cookie does not lead, and TLC finds it.

What a loop computes over a tree, a word or a list is an induction over data, which
the provers cannot do with an operator as the induction hypothesis. The proofs of
`DecisionsProofs` do not need one. The model's loops are steps, so the invariant is the
induction; and where the reference definition is a recursive function itself (`Ancestor`,
`Ends`, the loop of `Advanced`), a set of counterexamples among its arguments has a
least element, which the theorems about well-founded relations give.

All safety invariants that the passing runs check are theorems (`RevokedForGood` as a part
of `TokensSound`), and so is the refinement
`ActsAsOneSession`. Only model-checked is everything with `<>` or fairness, which TLAPS
cannot prove: `ChangesAreLoaded`, `ComesToRest`, `EventuallyCurrent`, `Terminates`.

## 6. State

Every component of the inventory that decides something has a module, and every
invariant of these is a theorem. The liveness properties stay with TLC. A theorem with a
hypothesis says nothing of behaviours without it: `EmailGroupsCurrent` is false in
a cooperative worker (run AuthorizationCacheGeventStale), sessions do not act as one when two
requests move them (ClusterSessionOverwrite), and the cookie needs one route and no failed
call (section 5).

Not modelled:

* signatures of cookies: a cookie of the models is one the server signed;
* the calls that a worker makes inside the save that enables the interconnection token
  (clustermodels.py:159), which announce it with the token that is not enabled yet;
* a late delete of a session that reaches a cluster where it was saved since: nothing in
  the code prevents it, and `SessionKept` names it as what may lose a session;
* regular expressions as email patterns, how a path matches, and what
  is in a page, a mail or a picture;
* pages of Azure B2C for passwords, profiles and second factors, which only
  redirect there, and social_core, which is a library;
* `performance.py`, `monitordb.py` and the debug log: measurements that nothing depends
  on;
* `migrate_caches.py`: it imports names the package no longer has and stops there;
* the choice among several Redis servers in `redis.py`, whose clients are in a
  dictionary of the class: it is the same for every cache of a process;
* settings, forms, serializers, templates, migrations, policies and tests.
