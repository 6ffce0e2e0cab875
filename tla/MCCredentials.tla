--------------------------- MODULE MCCredentials ---------------------------
(***************************************************************************)
(* The ways in which a caller proves who it is, and what it keeps of it: a  *)
(* code sent by mail, a captcha, a TOTP code, a user token, the token of    *)
(* the calls between clusters, and the session of two tabs.  A behaviour is *)
(* one of them.                                                            *)
(***************************************************************************)
EXTENDS Passcode, FiniteSets, TLC

CONSTANTS
  Visitors, Allowed, MaxCaptchas, MaxHours, MaxVisits,
  Callers, ValidWindow, MaxSecrets, MaxStep, MaxCalls,
  TokenClusters, TokenReached, TokenServers, MaxTokens, MaxBegun, MaxFaults,
  Workers, MaxMade, MaxUsers, MaxEvents, MaxRemoteCalls,
  Clusters, Standalone, Default, Routes, MaxVersion, MaxFailures, MaxCrashes

VARIABLES
  which,   \* the component whose behaviour this is
  entry, visit, dirs, disk, born, hour, drawn, visits, passes, solved,
  overwrites, failed, hasty,
  totp, totpCall, step, secrets, totpCalls, accepted, qrcode, crossed,
  system, perRequest, usertoken, lapsed, tokencache, authmap,
  login, edit, tokens, started, faults, tokenLate, intruders,
  revoked,
  row, tokenRow, ending, permanent, user, remoteToken, call, emailKey,
  userKeys, made, users, events, calls, renewals, expiries, refused,
  store, previous, tabsCookie, version, req, late, seen, loggedOut,
  overtaken, failures, crashes

(***************************************************************************)
(* A user has a valid token or none yet; what a system user's request does  *)
(* differently only matters where tokens are checked for each request.      *)
(***************************************************************************)
UserTokenCase == (system => perRequest) /\ (usertoken # None => usertoken.enabled)

Visit == INSTANCE Captcha
captchaVars == <<entry, visit, dirs, disk, born, hour, drawn, visits,
    passes, solved, overwrites, failed, hasty>>

Otp == INSTANCE Totp WITH call <- totpCall, calls <- totpCalls
totpVars == <<totp, totpCall, step, secrets, totpCalls, accepted, qrcode,
    crossed>>

Token == INSTANCE UserTokens WITH Clusters <- TokenClusters,
  Reached <- TokenReached, Servers <- TokenServers, late <- tokenLate
tokenVars == <<system, perRequest, usertoken, lapsed, tokencache,
    authmap, login, edit, tokens, started, faults, tokenLate,
    intruders, revoked>>

Remote == INSTANCE Interconnect WITH MaxTokens <- MaxMade,
  MaxCalls <- MaxRemoteCalls, usertoken <- remoteToken
remoteVars == <<row, tokenRow, ending, permanent, user, remoteToken, call,
    emailKey, userKeys, made, users, events, calls, renewals, expiries,
    refused>>

Tabs == INSTANCE ClusterSession WITH cookie <- tabsCookie
tabsVars == <<store, previous, tabsCookie, version, req, late, seen,
    loggedOut, overtaken, failures, crashes>>

ASSUME CredentialsAssumption ==
  /\ MaxSecrets \in Nat /\ None \notin Otp!Row /\ None \notin Otp!Code
  /\ MaxTokens \in Nat \ {0} /\ None \notin Token!UserToken /\ TokenReached \subseteq TokenClusters
  /\ MaxUsers \in Nat \ {0}
  /\ None \notin [id : Nat, active : BOOLEAN]
  /\ None \notin [token : Nat, enabled : BOOLEAN]
  /\ Standalone \notin Clusters /\ Default \in Clusters /\ Routes \subseteq Clusters
  /\ None \notin Tabs!Locations /\ None \notin Nat
  /\ MaxVersion \in Nat /\ MaxFailures \in Nat
  /\ Allowed \subseteq Nat /\ MaxCaptchas \in Nat /\ MaxHours \in Nat
  /\ \E a \in Allowed : \A b \in Allowed : b <= a

Components == {"passcode", "captcha", "totp", "token", "interconnect", "tabs"}

UnionInit ==
  /\ which \in Components
  /\ Init
  /\ which # "passcode" =>
       account = [e \in Emails |-> "none"]
  /\ Visit!Init
  /\ Otp!Init
  /\ Token!Init
  /\ which # "token" =>
       system /\ perRequest /\ usertoken = None
  /\ which = "token" => UserTokenCase
  /\ Remote!Init
  /\ Tabs!Init
  /\ which # "tabs" =>
       tabsCookie = Default /\ store[Default] = 1

UnionNext ==
  \/ /\ which = "passcode" /\ Next
     /\ UNCHANGED <<which, captchaVars, totpVars, tokenVars, remoteVars,
                 tabsVars>>
  \/ /\ which = "captcha" /\ Visit!Next
     /\ UNCHANGED <<which, vars, totpVars, tokenVars, remoteVars, tabsVars>>
  \/ /\ which = "totp" /\ Otp!Next
     /\ UNCHANGED <<which, vars, captchaVars, tokenVars, remoteVars,
                 tabsVars>>
  \/ /\ which = "token" /\ Token!Next
     /\ UNCHANGED <<which, vars, captchaVars, totpVars, remoteVars,
                 tabsVars>>
  \/ /\ which = "interconnect" /\ Remote!Next
     /\ UNCHANGED <<which, vars, captchaVars, totpVars, tokenVars, tabsVars>>
  \/ /\ which = "tabs" /\ Tabs!Next
     /\ UNCHANGED <<which, vars, captchaVars, totpVars, tokenVars,
                 remoteVars>>

unionVars == <<which, vars, captchaVars, totpVars, tokenVars, remoteVars,
    tabsVars>>

UnionSpec == UnionInit /\ [][UnionNext]_unionVars

(* The requests, visitors, callers, servers and workers of the instance are *)
(* the same two values: nothing tells them apart in any component.          *)
PairSymmetry == Permutations(Requests)

-----------------------------------------------------------------------------
(* An allowance of requests is spent once for each solved captcha, and the  *)
(* captcha a session names has its file.                                   *)
CaptchaSound ==
  which = "captcha" => Visit!PassesLimited /\ Visit!FileOfSession /\ Visit!TypeOK

(* A TOTP code is not accepted twice in a row, and codes are checked with   *)
(* the secret that was shown last.                                         *)
TotpSound ==
  which = "totp" => Otp!CodeNotRepeated /\ Otp!ShownSecretWorks /\ Otp!TypeOK

(* Basic authentication admits generated tokens only, and refuses those     *)
(* that were disabled, revoked, replaced or had expired; a revoked token    *)
(* does not come back.                                                     *)
TokensSound ==
  which = "token" =>
    /\ Token!RevokedTokenRefused /\ Token!OnlyIssuedTokens
    /\ Token!RevokedForGood /\ Token!TypeOK

(* A call between clusters that is refused succeeds at its second try       *)
(* unless it is disturbed or answered from an outdated cached user, and     *)
(* workers that find the token due together renew it once.                 *)
InterconnectSound ==
  which = "interconnect" =>
    Remote!SecondTryAccepted /\ Remote!RenewedOnce /\ Remote!TypeOK

(* Two tabs rerouted to another cluster at once both move the session: the  *)
(* cookie they are left with names a location that has it.                 *)
CookieLeadsToSession ==
  which = "tabs" => Tabs!CookieLeadsToSession /\ Tabs!SessionKept

=============================================================================
