------------------------------ MODULE GroupAdmin ------------------------------
(***************************************************************************)
(* Administrators edit and delete user groups (UserGroupAdmin and           *)
(* UserGroup.clean).  An edit reads the chosen parent, walks up the chain   *)
(* of its ancestors, compares the email patterns of the group with those    *)
(* of the parent and of the children, and writes the row at last; the       *)
(* queries of two edits interleave, since nothing is locked.                *)
(*                                                                         *)
(* What contain answers for two email patterns is a parameter, since the    *)
(* answers are not those of inclusion: it leaves regular expressions open   *)
(* and misses patterns that are contained (see EmailPatterns).             *)
(***************************************************************************)
EXTENDS Naturals, FiniteSets

CONSTANTS
  Groups,       \* ids of rows
  Patterns,     \* email patterns, such as users lists
  All,          \* "*"
  Contain,      \* "yes", "no" or "open" for each two of them
  Configs,      \* the [users, excluded] an administrator may submit
  FirstTables,  \* what the rows may be before the first edit
  Editors,      \* requests of the administration pages
  None,
  MaxEdits,     \* bound: edits
  MaxDeletes,   \* bound: deleted groups
  MaxRefreshes  \* bound: refreshes of the cached public group

VARIABLES
  live,      \* the ids of the rows of UserGroup
  row,       \* [parent, users, excluded] of each row
  public,    \* the id of cache.public_group
  publicRow, \* its cached row
  edit,      \* one record per administrator's request
  edits, deletes, refreshes,
  orphans,   \* history: rows whose parent was deleted
  overlaps,  \* history: two edits were between their first read and their write
  outdated,  \* history: an edit took the cached public group after a change of it
  replaced   \* history: a refresh took another row for the public group

vars == <<live, row, public, publicRow, edit, edits, deletes, refreshes,
          orphans, overlaps, outdated, replaced>>

NoEdit == [pc |-> "idle", group |-> None, new |-> FALSE, form |-> None, parent |-> None, up |-> None]

AllEmails == {All}

(* get_useremails: "*" replaces the other patterns; clean stores "*" for an *)
(* empty list of users.                                                    *)
Normal(patterns) == IF All \in patterns THEN AllEmails ELSE patterns

Submitted(parent, config) ==
  [parent |-> parent,
   users |-> IF config.users = {} THEN AllEmails ELSE Normal(config.users),
   excluded |-> Normal(config.excluded)]

(* "contain(p) is not False", and "contain(p)", for one of the patterns.    *)
NotOutside(p, patterns) == \E q \in patterns : Contain[q][p] # "no"
Inside(p, patterns)     == \E q \in patterns : Contain[q][p] = "yes"

Children(g) == {h \in live : row[h].parent = g}

(* refresh_cache takes the last row it meets that is for all users.        *)
PublicRows == {g \in live : row[g].users = AllEmails /\ row[g].excluded = {}}

(***************************************************************************)
(* The three comparisons of clean.                                         *)
(***************************************************************************)
ExcludesOwn(r) == \A p \in r.excluded : NotOutside(p, r.users)

(* Of a group and its parent.                                              *)
FitsInto(r, parent) ==
  /\ \A p \in r.users : NotOutside(p, parent.users)
  /\ \A p \in parent.excluded : Inside(p, r.users) => NotOutside(p, r.excluded)

Init ==
  /\ \E table \in FirstTables :
       /\ live = DOMAIN table
       /\ row = [g \in Groups |-> IF g \in live THEN table[g]
                                  ELSE [parent |-> None, users |-> {}, excluded |-> {}]]
  /\ public \in PublicRows /\ publicRow = row[public]
  /\ edit = [e \in Editors |-> NoEdit]
  /\ edits = 0 /\ deletes = 0 /\ refreshes = 0
  /\ orphans = {} /\ overlaps = FALSE /\ outdated = FALSE /\ replaced = FALSE

-----------------------------------------------------------------------------
Cached == <<public, publicRow, refreshes>>
Counts == <<edits, deletes>>
History == <<orphans, overlaps, outdated, replaced>>

GoTo(e, pc) == edit' = [edit EXCEPT ![e].pc = pc]
Finish(e) == edit' = [edit EXCEPT ![e] = NoEdit]

Others(e) == {f \in Editors \ {e} : edit[f].pc # "idle"}

(* A row that the add page will insert: ids are not used twice at a time.  *)
Unused(g) == g \notin live \cup {public} /\ \A e \in Editors : edit[e].group # g

(* The form of the change or add page is submitted; its parent is read now. *)
Post(e, g, parent, config) ==
  /\ edit[e].pc = "idle" /\ edits < MaxEdits
  /\ g \in live \/ Unused(g)
  /\ parent \in live \cup {None}
  /\ edits' = edits + 1
  /\ edit' = [edit EXCEPT ![e] =
       [pc |-> "clean", group |-> g, new |-> g \notin live,
        form |-> Submitted(parent, config),
        parent |-> IF parent = None THEN None ELSE row[parent], up |-> parent]]
  /\ overlaps' = (overlaps \/ Others(e) # {})
  /\ UNCHANGED <<live, row, deletes, orphans, outdated, replaced>> /\ UNCHANGED Cached

(* A group without parent other than the public group gets the cached one. *)
TakePublic(e) ==
  /\ edit[e].pc = "clean" /\ edit[e].form.parent = None /\ edit[e].group # public
  /\ edit' = [edit EXCEPT ![e].form.parent = public, ![e].parent = publicRow,
                          ![e].up = public, ![e].pc = "climb"]
  /\ outdated' = (outdated \/ public \notin live \/ publicRow # row[public])
  /\ UNCHANGED <<live, row, orphans, overlaps, replaced>> /\ UNCHANGED <<Counts, Cached>>

TakeParent(e) ==
  /\ edit[e].pc = "clean" /\ (edit[e].form.parent # None \/ edit[e].group = public)
  /\ GoTo(e, "climb")
  /\ UNCHANGED <<live, row>> /\ UNCHANGED <<Counts, Cached, History>>

NextUpStops(e) == None

(* One query per ancestor: the parent was read by the form.                *)
NextUp(e) ==
  IF edit[e].up = edit[e].form.parent THEN edit[e].parent.parent
  ELSE IF edit[e].up \in live THEN row[edit[e].up].parent ELSE None

Climb(e) ==
  /\ edit[e].pc = "climb" /\ edit[e].up # None /\ edit[e].up # edit[e].group
  /\ edit' = [edit EXCEPT ![e].up = NextUp(e)]
  /\ UNCHANGED <<live, row>> /\ UNCHANGED <<Counts, Cached, History>>

(* The group can't be its own parent, nor the parent a descendant of it.   *)
OwnAncestor(e) ==
  /\ edit[e].pc = "climb" /\ edit[e].up = edit[e].group
  /\ Finish(e)
  /\ UNCHANGED <<live, row>> /\ UNCHANGED <<Counts, Cached, History>>

FitsAbove(e) ==
  /\ ExcludesOwn(edit[e].form)
  /\ edit[e].parent # None => FitsInto(edit[e].form, edit[e].parent)

CompareParent(e) ==
  /\ edit[e].pc = "climb" /\ edit[e].up = None
  /\ IF FitsAbove(e) THEN GoTo(e, "children") ELSE Finish(e)
  /\ UNCHANGED <<live, row>> /\ UNCHANGED <<Counts, Cached, History>>

FitsBelow(e) == \A h \in Children(edit[e].group) : FitsInto(row[h], edit[e].form)

CompareChildren(e) ==
  /\ edit[e].pc = "children"
  /\ IF FitsBelow(e) THEN GoTo(e, "compare") ELSE Finish(e)
  /\ UNCHANGED <<live, row>> /\ UNCHANGED <<Counts, Cached, History>>

(* DbObjectMixin.save reads the row again: it may be gone, or unchanged.   *)
Compare(e) ==
  /\ edit[e].pc = "compare"
  /\ IF edit[e].new \/ (edit[e].group \in live /\ row[edit[e].group] # edit[e].form)
     THEN GoTo(e, "write") ELSE Finish(e)
  /\ UNCHANGED <<live, row>> /\ UNCHANGED <<Counts, Cached, History>>

(* check_public_group: the add page makes no second group for all users.   *)
PublicAgain(e) ==
  edit[e].new /\ edit[e].form.users = AllEmails /\ edit[e].form.excluded = {}

(* The foreign key, and users with excluded_users, which are unique.       *)
Constrained(e) ==
  LET r == edit[e].form
  IN  /\ ~ PublicAgain(e)
      /\ r.parent \in live \cup {None}
      /\ r.excluded # {} => \A h \in live \ {edit[e].group} :
           row[h].users # r.users \/ row[h].excluded # r.excluded

(* The update; a row that is gone by now is inserted again.                *)
Write(e) ==
  /\ edit[e].pc = "write"
  /\ IF Constrained(e)
     THEN /\ live' = live \cup {edit[e].group}
          /\ row' = [row EXCEPT ![edit[e].group] = edit[e].form]
          /\ orphans' = orphans \ {edit[e].group}
     ELSE UNCHANGED <<live, row, orphans>>
  /\ Finish(e)
  /\ UNCHANGED <<overlaps, outdated, replaced>> /\ UNCHANGED <<Counts, Cached>>

(* pre_delete_group keeps the cached public group.  on_delete=SET_NULL: the *)
(* children of a deleted group are left without parent.                    *)
Delete(g) ==
  /\ g \in live \ {public} /\ deletes < MaxDeletes
  /\ deletes' = deletes + 1
  /\ live' = live \ {g}
  /\ row' = [h \in Groups |-> IF row[h].parent = g THEN [row[h] EXCEPT !.parent = None]
                              ELSE row[h]]
  /\ orphans' = (orphans \ {g}) \cup Children(g)
  /\ overlaps' = (overlaps \/ \E e \in Editors : edit[e].pc # "idle")
  /\ UNCHANGED <<edit, edits, outdated, replaced>> /\ UNCHANGED Cached

(* UserGroup.refresh_cache raises an exception if no row is for all users. *)
RefreshCache ==
  /\ refreshes < MaxRefreshes
  /\ refreshes' = refreshes + 1
  /\ PublicRows # {}
  /\ public' \in PublicRows /\ publicRow' = row[public']
  /\ replaced' = (replaced \/ public' # public)
  /\ UNCHANGED <<live, row, edit, orphans, overlaps, outdated>> /\ UNCHANGED Counts

PostAny(e) ==
  \E g \in Groups, parent \in Groups \cup {None}, config \in Configs : Post(e, g, parent, config)

Clean(e) == \/ TakePublic(e) \/ TakeParent(e) \/ Climb(e) \/ OwnAncestor(e)
            \/ CompareParent(e) \/ CompareChildren(e)

Next ==
  \/ \E e \in Editors : PostAny(e) \/ Clean(e) \/ Compare(e) \/ Write(e)
  \/ \E g \in Groups : Delete(g)
  \/ RefreshCache

Spec == Init /\ [][Next]_vars

-----------------------------------------------------------------------------
TypeOK ==
  /\ live \subseteq Groups /\ public \in Groups
  /\ \A g \in live : row[g].parent \in Groups \cup {None} /\ row[g].users # {}
  /\ \A e \in Editors :
       edit[e].pc \in {"idle", "clean", "climb", "children", "compare", "write"}

(***************************************************************************)
(* Unless edits overlapped or used an outdated copy of the public group,    *)
(* the chain of parents of every group ends: the loops of clean, is_group   *)
(* and sessiontimeout, which follow it, do too.                             *)
(***************************************************************************)
Above(g) == IF g = None THEN None ELSE row[g].parent

Ancestor(g) ==
  LET up[n \in 0..Cardinality(Groups)] == IF n = 0 THEN g ELSE Above(up[n - 1])
  IN  up[Cardinality(Groups)]

ParentChainsEnd == ~ overlaps /\ ~ outdated => \A g \in live : Ancestor(g) = None

(***************************************************************************)
(* Unless edits overlapped or used an outdated copy of the public group, a  *)
(* group has no pattern of users that is outside those of its parent, and   *)
(* it excludes each pattern of its users that its parent excludes: as       *)
(* contain answers, for whatever contain answers.                           *)
(***************************************************************************)
GroupsFitTheirParents ==
  ~ overlaps /\ ~ outdated =>
    \A g \in live : row[g].parent # None => FitsInto(row[g], row[row[g].parent])

(***************************************************************************)
(* The public group is the only root, unless the parent of a group was      *)
(* deleted or a second group for all users became the public group:         *)
(* find_groups fails on an email that two roots contain.                    *)
(***************************************************************************)
OneRoot ==
  ~ replaced => \A g \in live \ orphans : row[g].parent = None => g = public

=============================================================================
