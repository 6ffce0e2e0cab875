----------------------------- MODULE PolledTables -----------------------------
(***************************************************************************)
(* A configuration table and its copy in the memory of a worker when no     *)
(* Redis announces the changes: ModelChange of models.py without a cache    *)
(* server, and the refreshes of cache.py that ask it.                       *)
(*                                                                         *)
(* A save stamps its row and commits later; the load stamps itself and      *)
(* reads later.  The table is that of the groups, the only one of the four  *)
(* whose rows also change without a stamp, and time is a counter that every *)
(* stamp advances.                                                          *)
(***************************************************************************)
EXTENDS Naturals, FiniteSets

CONSTANTS
  Admins,       \* requests that change rows, each in its transaction
  RowIds,
  MaxChanges,   \* bound: changes of rows
  MaxLoads      \* bound: loads of the table

VARIABLES
  rows,         \* the committed table: when each row was modified
  change,       \* the change each request has under way
  copy, copied, \* the worker's copy, and its time (_usergrouptree, its _ts)
  altered,      \* the copy lacks changes that stamped no row
  loading,      \* the stamp of the load under way, 0 for none
  now,
  changes,      \* counters
  loads,
  crossed       \* history: changes were under way while the copy was read

pollVars == <<rows, change, copy, copied, altered, loading, now, changes, loads, crossed>>

NoChange == [kind |-> "none", row |-> 0, modified |-> 0]

Pending == {a \in Admins : change[a] # NoChange}

Init ==
  /\ \E S \in SUBSET RowIds : rows = [r \in S |-> 1]
  /\ change = [a \in Admins |-> NoChange]
  /\ copy = rows /\ copied = 2 /\ loading = 0
  /\ altered = FALSE
  /\ now = 2 /\ changes = 0 /\ loads = 0
  /\ crossed = FALSE

Save(a, r) ==
  /\ change[a] = NoChange /\ changes < MaxChanges
  /\ changes' = changes + 1 /\ now' = now + 1
  /\ change' = [change EXCEPT ![a] = [kind |-> "save", row |-> r, modified |-> now']]
  /\ UNCHANGED <<rows, copy, copied, altered, loading, loads, crossed>>

(* A row of which only the name is new keeps the stamp it was read with.    *)
Rename(a, r) ==
  /\ change[a] = NoChange /\ changes < MaxChanges /\ r \in DOMAIN rows
  /\ changes' = changes + 1
  /\ change' = [change EXCEPT ![a] = [kind |-> "rename", row |-> r, modified |-> rows[r]]]
  /\ UNCHANGED <<rows, copy, copied, altered, loading, now, loads, crossed>>

(* The rows that name a deleted identity provider are set to null.          *)
DeleteProvider ==
  /\ changes < MaxChanges /\ DOMAIN rows # {}
  /\ changes' = changes + 1
  /\ altered' = TRUE
  /\ UNCHANGED <<rows, change, copy, copied, loading, now, loads, crossed>>

Delete(a, r) ==
  /\ change[a] = NoChange /\ changes < MaxChanges /\ r \in DOMAIN rows
  /\ changes' = changes + 1
  /\ change' = [change EXCEPT ![a] = [NoChange EXCEPT !.kind = "delete", !.row = r]]
  /\ UNCHANGED <<rows, copy, copied, altered, loading, now, loads, crossed>>

(* Rows are locked by the change that writes them: a second change of a row *)
(* waits, and then finds what the first has left.                           *)
Commit(a) ==
  LET c == change[a] IN
  /\ c # NoChange
  /\ rows' = IF c.kind \in {"save", "rename"}
               THEN [r \in DOMAIN rows \cup {c.row} |->
                      IF r = c.row THEN c.modified ELSE rows[r]]
               ELSE [r \in DOMAIN rows \ {c.row} |-> rows[r]]
  /\ altered' = (altered \/ c.kind = "rename")
  /\ change' = [change EXCEPT ![a] = NoChange]
  /\ UNCHANGED <<copy, copied, loading, now, changes, loads, crossed>>

-----------------------------------------------------------------------------
GetCacheTime == copied
GetCacheSize == Cardinality(DOMAIN copy)

IsChanged ==
  \/ \E r \in DOMAIN rows : rows[r] > GetCacheTime
  \/ Cardinality(DOMAIN rows) # GetCacheSize

(* The status the administration page shows of the copy.                    *)
Status ==
  IF Cardinality(DOMAIN rows) # GetCacheSize THEN "OUTDATED"
  ELSE IF DOMAIN rows = {} THEN "UP_TO_DATE"
  ELSE LET newest == CHOOSE r \in DOMAIN rows : \A q \in DOMAIN rows : rows[q] <= rows[r]
       IN IF rows[newest] > GetCacheTime THEN "OUTDATED" ELSE "UP_TO_DATE"

(* refresh_idp_cache and the other refreshes: an empty copy is loaded       *)
(* whatever the table says.                                                 *)
StartLoad ==
  /\ loading = 0 /\ loads < MaxLoads
  /\ copy = << >> \/ IsChanged
  /\ now' = now + 1 /\ loads' = loads + 1
  /\ loading' = now'
  /\ UNCHANGED <<rows, change, copy, copied, altered, changes, crossed>>

Load ==
  /\ loading # 0
  /\ copy' = rows /\ copied' = loading
  /\ loading' = 0 /\ altered' = FALSE
  /\ crossed' = (Pending # {})
  /\ UNCHANGED <<rows, change, now, changes, loads>>

Next ==
  \/ \E a \in Admins : Commit(a) \/ \E r \in RowIds : Save(a, r) \/ Rename(a, r) \/ Delete(a, r)
  \/ DeleteProvider \/ StartLoad \/ Load

Spec == Init /\ [][Next]_pollVars

-----------------------------------------------------------------------------
TypeOK ==
  /\ DOMAIN rows \subseteq RowIds /\ DOMAIN copy \subseteq RowIds
  /\ copied <= now /\ loading <= now /\ changes <= MaxChanges /\ loads <= MaxLoads
  /\ \A a \in Admins : change[a].modified <= now

(* A copy that differs from the table is loaded at the next check, unless   *)
(* the table was last read while a change was under way, whose row carries  *)
(* a time before the load, or has since changed without a stamp, by a       *)
(* rename or a deleted identity provider.                                   *)
PollFindsChange == copy # rows /\ ~ crossed /\ ~ altered => IsChanged

(* The page shows a copy as outdated exactly when a check would load it.    *)
StatusAgrees == (Status = "OUTDATED") = IsChanged

=============================================================================
