------------------------------ MODULE GroupTree ------------------------------
(***************************************************************************)
(* The user group hierarchy and the authorization rules of models/models.py *)
(* as plain operators.  A tree is the content of the table UserGroup, an    *)
(* authorization table the content of UserGroupAuthorization.  Email and    *)
(* path patterns are abstracted to the set of emails or paths they match.   *)
(***************************************************************************)
EXTENDS Naturals, FiniteSets, Sequences

CONSTANTS
  Groups,     \* ids a row of UserGroup may have
  Emails,
  Domains,
  Paths,
  All,        \* the path pattern "*" (RequestPath.match_all)
  None        \* Python's None

ASSUME GroupTreeAssumption ==
  /\ None \notin Groups
  /\ All \notin Paths
  /\ IsFiniteSet(Groups)

(***************************************************************************)
(* The two tables.  "live" are the rows that exist; "parent" is             *)
(* parent_group; "users" and "excluded" are what the email patterns match.  *)
(***************************************************************************)
Tree == [live : SUBSET Groups,
         parent : [Groups -> Groups \cup {None}],
         users : [Groups -> SUBSET Emails],
         excluded : [Groups -> SUBSET Emails]]

Authorization == [domains : SUBSET Domains,
                  paths : SUBSET (Paths \cup {All}),
                  excluded : SUBSET (Paths \cup {All})]

(* One list per group, ordered by sortkey as refresh_cache reads it.       *)
AuthTable == [Groups -> Seq(Authorization)]

Children(t, g) == {h \in t.live : t.parent[h] = g}

Roots(t) == {g \in t.live : t.parent[g] = None}

(* UserGroup.contain: both of its branches compute the same predicate.     *)
Contain(t, g, e) == e \in t.users[g] /\ e \notin t.excluded[g]

(* parent_group followed n times; the chain ends at a root (None).         *)
Ancestor(t, g) ==
  LET up[n \in 0..Cardinality(Groups)] ==
        IF n = 0 THEN g
        ELSE IF up[n - 1] = None THEN None ELSE t.parent[up[n - 1]]
  IN  up

AncestorsOrSelf(t, g) ==
  {Ancestor(t, g)[n] : n \in 0..Cardinality(Groups)} \ {None}

(* UserGroup.is_group: g is h or a descendant of h.                        *)
IsGroup(t, g, h) == h \in AncestorsOrSelf(t, g)

(* What UserGroup.clean accepts: every row reaches a root.                 *)
Acyclic(t) ==
  \A g \in t.live :
    /\ t.parent[g] \in t.live \cup {None}
    /\ Ancestor(t, g)[Cardinality(Groups)] = None

(***************************************************************************)
(* What UserGroup.find_groups promises: the groups reached from a root      *)
(* through groups that contain the email and that have no such child.       *)
(***************************************************************************)
PathMatched(t, g, e) == \A h \in AncestorsOrSelf(t, g) : Contain(t, h, e)

MatchedGroups(t, e) ==
  {g \in t.live : /\ PathMatched(t, g, e)
                  /\ \A h \in Children(t, g) : ~Contain(t, h, e)}

-----------------------------------------------------------------------------
(* AuthorizationMixin.allow_all, deny_all and allow.                       *)
Matches(patterns, p) == p \in patterns \/ All \in patterns

AllowAll(a) == (a.paths = {} \/ All \in a.paths) /\ a.excluded = {}

DenyAll(a) == All \in a.excluded

Allow(a, p) ==
  \/ AllowAll(a)
  \/ /\ ~DenyAll(a)
     /\ a.paths = {} \/ Matches(a.paths, p)
     /\ ~Matches(a.excluded, p)

(* The first authorization of group g, in sortkey order, for domain d.     *)
HasAuthorization(tab, g, d) == \E i \in DOMAIN tab[g] : d \in tab[g][i].domains

FirstAuthorization(tab, g, d) ==
  LET i == CHOOSE i \in DOMAIN tab[g] :
             /\ d \in tab[g][i].domains
             /\ \A j \in 1..(i - 1) : d \notin tab[g][j].domains
  IN  tab[g][i]

(* The nearest group at or above g with an authorization for d, or None.   *)
NearestGroup(t, tab, g, d) ==
  LET hits == {n \in 0..Cardinality(Groups) :
                 /\ Ancestor(t, g)[n] # None
                 /\ HasAuthorization(tab, Ancestor(t, g)[n], d)}
  IN  IF hits = {} THEN None
      ELSE Ancestor(t, g)[CHOOSE n \in hits : \A k \in hits : n <= k]

NearestAuthorizations(t, tab, gs, d) ==
  {FirstAuthorization(tab, NearestGroup(t, tab, g, d), d) :
     g \in {h \in gs : NearestGroup(t, tab, h, d) # None}}

(***************************************************************************)
(* What find_authorizations returns for the groups gs, as a set: one        *)
(* authorization that allows everything if there is one, otherwise those    *)
(* that do not deny everything.                                             *)
(***************************************************************************)
FindAuthorizations(t, tab, gs, d) ==
  LET near == NearestAuthorizations(t, tab, gs, d)
  IN  IF \E a \in near : AllowAll(a)
      THEN {CHOOSE a \in near : AllowAll(a)}
      ELSE {a \in near : ~DenyAll(a)}

(***************************************************************************)
(* check_authorization: for each group of the user the first authorization  *)
(* met on the way to the root decides; a group that meets none denies.      *)
(***************************************************************************)
CheckAuthorization(t, tab, gs, d, p) ==
  \E g \in gs :
    /\ NearestGroup(t, tab, g, d) # None
    /\ Allow(FirstAuthorization(tab, NearestGroup(t, tab, g, d), d), p)

=============================================================================
