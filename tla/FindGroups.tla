------------------------------ MODULE FindGroups ------------------------------
(***************************************************************************)
(* The loop of UserGroup.find_groups: a queue of subtrees still to visit    *)
(* and the list of groups found so far.  One action per branch of the loop  *)
(* body, each with the call of _add_group the branch makes.  The database   *)
(* returns rows in no particular order, so a group's subgroups enter the    *)
(* queue in any order.                                                      *)
(***************************************************************************)
EXTENDS GroupTree, SequencesExt

CONSTANTS TreeSet   \* the tables the loop is run on

VARIABLES
  tree,         \* the cached group tree (never changed by the loop)
  email,
  queue,        \* trees
  usergroups,   \* the groups found so far
  pc            \* "run", "done" or "error" (an AttributeError escapes)

vars == <<tree, email, queue, usergroups, pc>>

Init ==
  /\ tree \in {t \in TreeSet : Acyclic(t)}
  /\ email \in Emails
  /\ queue \in SetToSeqs(Roots(tree))
  /\ usergroups = <<>>
  /\ pc = "run"

(* _add_group looks from the last group found towards the first for one    *)
(* that is the new group or a descendant of it (nothing to add) or a proper *)
(* ancestor of it (replaced).  A root has no parent_group to ask.           *)
Covers(i, g) == IsGroup(tree, usergroups[i], g)

ReplacesNothing(i, g) == FALSE

Replaces(i, g) ==
  /\ ~Covers(i, g)
  /\ tree.parent[g] # None
  /\ IsGroup(tree, tree.parent[g], usergroups[i])

CrashesBeforeCovering(i, g) == tree.parent[g] = None

Crashes(i, g) == ~Covers(i, g) /\ tree.parent[g] = None

StopsAt(g) ==
  {i \in DOMAIN usergroups : Covers(i, g) \/ Replaces(i, g) \/ Crashes(i, g)}

AddGroup(g) ==
  LET last == CHOOSE i \in StopsAt(g) : \A j \in StopsAt(g) : j <= i
  IN  \/ /\ StopsAt(g) = {}
         /\ usergroups' = Append(usergroups, g)
         /\ pc' = pc
      \/ /\ StopsAt(g) # {}
         /\ Covers(last, g)
         /\ UNCHANGED <<usergroups, pc>>
      \/ /\ StopsAt(g) # {}
         /\ Replaces(last, g)
         /\ usergroups' = [usergroups EXCEPT ![last] = g]
         /\ pc' = pc
      \/ /\ StopsAt(g) # {}
         /\ Crashes(last, g)
         /\ pc' = "error"
         /\ UNCHANGED usergroups

Visiting == pc = "run" /\ queue # <<>>

(* trees.pop(0) is a matched group with subgroups.                         *)
VisitInner ==
  /\ Visiting
  /\ Contain(tree, Head(queue), email)
  /\ Children(tree, Head(queue)) # {}
  /\ \E s \in SetToSeqs(Children(tree, Head(queue))) : queue' = Tail(queue) \o s
  /\ UNCHANGED <<tree, email, usergroups, pc>>

(* ... a matched group without subgroups.                                  *)
VisitLeaf ==
  /\ Visiting
  /\ Contain(tree, Head(queue), email)
  /\ Children(tree, Head(queue)) = {}
  /\ AddGroup(Head(queue))
  /\ queue' = Tail(queue)
  /\ UNCHANGED <<tree, email>>

VisitUnmatchedKeepsGroup ==
  /\ Visiting
  /\ ~Contain(tree, Head(queue), email)
  /\ UNCHANGED vars

(* ... a group that does not contain the email: its parent did.            *)
VisitUnmatched ==
  /\ Visiting
  /\ ~Contain(tree, Head(queue), email)
  /\ IF tree.parent[Head(queue)] # None
     THEN AddGroup(tree.parent[Head(queue)])
     ELSE UNCHANGED <<usergroups, pc>>
  /\ queue' = Tail(queue)
  /\ UNCHANGED <<tree, email>>

Finish ==
  /\ pc = "run"
  /\ queue = <<>>
  /\ pc' = "done"
  /\ UNCHANGED <<tree, email, queue, usergroups>>

Next == VisitInner \/ VisitLeaf \/ VisitUnmatched \/ Finish

Spec == Init /\ [][Next]_vars /\ WF_vars(Next)

-----------------------------------------------------------------------------
TypeOK ==
  /\ tree \in TreeSet
  /\ email \in Emails
  /\ queue \in Seq(Groups)
  /\ usergroups \in Seq(Groups)
  /\ pc \in {"run", "done", "error"}

(***************************************************************************)
(* find_groups (models.py:1190) returns exactly the deepest groups whose    *)
(* whole path from a root contains the email, each of them once, whatever   *)
(* the order in which the database returned the rows.                       *)
(***************************************************************************)
ReturnsDeepestMatches ==
  pc = "done" =>
    /\ {usergroups[i] : i \in DOMAIN usergroups} = MatchedGroups(tree, email)
    /\ \A i, j \in DOMAIN usergroups : usergroups[i] = usergroups[j] => i = j

(***************************************************************************)
(* At every turn of the loop no group found so far is above another one:    *)
(* _add_group's scan may then stop at the first group it finds related.     *)
(***************************************************************************)
FoundGroupsUnrelated ==
  \A i, j \in DOMAIN usergroups :
    i # j => ~IsGroup(tree, usergroups[i], usergroups[j])

(***************************************************************************)
(* The only hierarchies on which the loop fails are those with two roots    *)
(* that contain the email: on a hierarchy under one public group it never   *)
(* asks None for is_group.  (With two roots it does, and raises an          *)
(* AttributeError, although its docstring promises an empty result when     *)
(* nothing matches.)                                                        *)
(***************************************************************************)
FailsOnlyWithTwoRoots ==
  pc = "error" =>
    \E g, h \in Roots(tree) :
      g # h /\ Contain(tree, g, email) /\ Contain(tree, h, email)

(***************************************************************************)
(* The loop ends on every hierarchy: each group is put in the queue once.   *)
(***************************************************************************)
Terminates == <>(pc # "run")

=============================================================================
