------------------------------- MODULE Session -------------------------------
(***************************************************************************)
(* What auth2 promises of a user's session, wherever its copies are: one    *)
(* value, of which every request sees the latest version or nothing at all, *)
(* and nothing ever again once the session has ended.                       *)
(***************************************************************************)
EXTENDS Naturals

CONSTANT None

VARIABLES
  value,      \* the version of the session data, None once it has ended
  seen        \* what the last request was answered from

vars == <<value, seen>>

Init == value = 1 /\ seen = None

(* A request may find nothing; it never finds an old version.              *)
Read ==
  /\ seen' \in {value, None}
  /\ UNCHANGED value

(* A request that changes the session changes the latest version.          *)
Write ==
  /\ value # None
  /\ seen' = value
  /\ value' = value + 1

(* The user logs out, or auth2 loses track of the session.                 *)
End ==
  /\ value # None
  /\ value' = None
  /\ seen' \in {seen, value}

Next == Read \/ Write \/ End

Spec == Init /\ [][Next]_vars
=============================================================================
