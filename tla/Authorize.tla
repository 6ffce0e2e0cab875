------------------------------ MODULE Authorize ------------------------------
(***************************************************************************)
(* The loop of AuthorizationMixin.find_authorizations and the decision      *)
(* can_access takes from its result: for each group of the user, walk up    *)
(* parent_group until a group has an authorization for the domain.          *)
(***************************************************************************)
EXTENDS GroupTree, SequencesExt

CONSTANTS
  TreeSet,      \* the group hierarchies
  AuthTables    \* the authorization tables

VARIABLES
  tree, auths,          \* the cached tables, never changed by the loop
  email, domain,
  usergroups,           \* groups of the user not yet looked at
  checkgroup,           \* the group the walk is at, or None
  matched,              \* matched_authorizations
  pc                    \* "run" or "done"

vars == <<tree, auths, email, domain, usergroups, checkgroup, matched, pc>>

inputs == <<tree, auths, email, domain>>

Init ==
  /\ tree \in {t \in TreeSet : Acyclic(t)}
  /\ auths \in AuthTables
  /\ email \in Emails
  /\ domain \in Domains
  /\ usergroups \in SetToSeqs(MatchedGroups(tree, email))
  /\ checkgroup = None
  /\ matched = <<>>
  /\ pc = "run"

(* for usergroup in usergroups                                             *)
TakeGroup ==
  /\ pc = "run"
  /\ checkgroup = None
  /\ usergroups # <<>>
  /\ checkgroup' = Head(usergroups)
  /\ usergroups' = Tail(usergroups)
  /\ UNCHANGED <<inputs, matched, pc>>

Here == FirstAuthorization(auths, checkgroup, domain)

AtMatch == pc = "run" /\ checkgroup # None /\ HasAuthorization(auths, checkgroup, domain)

DenyGoesOn ==
  /\ AtMatch
  /\ DenyAll(Here)
  /\ checkgroup' = tree.parent[checkgroup]
  /\ UNCHANGED <<inputs, usergroups, matched, pc>>

(* deny_all: this user group contributes nothing.                          *)
Deny ==
  /\ AtMatch
  /\ DenyAll(Here)
  /\ checkgroup' = None
  /\ UNCHANGED <<inputs, usergroups, matched, pc>>

ReturnAllAddsNothing ==
  /\ AtMatch
  /\ ~DenyAll(Here)
  /\ AllowAll(Here)
  /\ pc' = "done"
  /\ UNCHANGED <<inputs, usergroups, checkgroup, matched>>

(* allow_all: return [authorization].                                      *)
ReturnAll ==
  /\ AtMatch
  /\ ~DenyAll(Here)
  /\ AllowAll(Here)
  /\ matched' = <<Here>>
  /\ pc' = "done"
  /\ UNCHANGED <<inputs, usergroups, checkgroup>>

Collect ==
  /\ AtMatch
  /\ ~DenyAll(Here)
  /\ ~AllowAll(Here)
  /\ matched' = Append(matched, Here)
  /\ checkgroup' = None
  /\ UNCHANGED <<inputs, usergroups, pc>>

(* No authorization here: checkgroup = checkgroup.parent_group.            *)
GoUp ==
  /\ pc = "run"
  /\ checkgroup # None
  /\ ~HasAuthorization(auths, checkgroup, domain)
  /\ checkgroup' = tree.parent[checkgroup]
  /\ UNCHANGED <<inputs, usergroups, matched, pc>>

Return ==
  /\ pc = "run"
  /\ checkgroup = None
  /\ usergroups = <<>>
  /\ pc' = "done"
  /\ UNCHANGED <<inputs, usergroups, checkgroup, matched>>

Next == TakeGroup \/ Deny \/ ReturnAll \/ Collect \/ GoUp \/ Return

Spec == Init /\ [][Next]_vars /\ WF_vars(Next)

(* can_access: any(obj.allow(path) for obj in authorizations).             *)
CanAccess(p) == \E i \in DOMAIN matched : Allow(matched[i], p)

-----------------------------------------------------------------------------
TypeOK ==
  /\ tree \in TreeSet /\ auths \in AuthTables
  /\ email \in Emails /\ domain \in Domains
  /\ usergroups \in Seq(Groups)
  /\ checkgroup \in Groups \cup {None}
  /\ matched \in Seq(Authorization)
  /\ pc \in {"run", "done"}

(***************************************************************************)
(* The two decision procedures of models.py agree: can_access (1593), which *)
(* shortcuts on allow_all and drops deny_all, answers every path as         *)
(* check_authorization (1568), which keeps one row per user group.          *)
(***************************************************************************)
AgreesWithCheckAuthorization ==
  pc = "done" =>
    \A p \in Paths :
      CanAccess(p)
        <=> CheckAuthorization(tree, auths, MatchedGroups(tree, email), domain, p)

(***************************************************************************)
(* The list find_authorizations returns is the set AuthorizationCache       *)
(* caches: equal to it, or another authorization that allows everything.    *)
(***************************************************************************)
ReturnsFindAuthorizations ==
  pc = "done" =>
    LET found == {matched[i] : i \in DOMAIN matched}
        spec  == FindAuthorizations(tree, auths, MatchedGroups(tree, email), domain)
    IN  \/ found = spec
        \/ /\ Cardinality(found) = 1 /\ \A a \in found : AllowAll(a)
           /\ \E a \in spec : AllowAll(a)

(***************************************************************************)
(* The walk towards the root ends for every group of the user.              *)
(***************************************************************************)
Terminates == <>(pc = "done")

=============================================================================
