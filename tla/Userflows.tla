------------------------------ MODULE Userflows ------------------------------
(***************************************************************************)
(* The customizable userflows (models.py, CustomizableUserflow) and how the *)
(* pages, mails and signed-out pages of a domain are taken from them        *)
(* (the functions _get_userflow... of views.py).  The rows of the table are *)
(* cached in the order of their sort keys; what a row leaves out is filled  *)
(* in from the default row "*" the first time it is asked for, and          *)
(* remembered on the cached row.                                           *)
(*                                                                         *)
(* One behaviour follows one of the three uses, the "part".                *)
(***************************************************************************)
EXTENDS Naturals

CONSTANTS
  NRows,       \* userflows other than the default one
  Domains,
  Classes,     \* the container classes of a page
  None,
  MaxRequests, \* bound: requests
  MaxChanges   \* bound: rows edited

Fields(part) == CASE part = "page"    -> {"layout", "css"}
                  [] part = "email"   -> {"from", "subject", "body"}
                  [] part = "signout" -> {"signedout", "relogin", "body"}

(* What is remembered for a cached row.                                    *)
Slots(part) == IF part = "page" THEN Classes \cup {"css"} ELSE Fields(part)

(* Rows are their positions in the order of the sort keys; the default row  *)
(* is the last one unless it was given a key of its own.                   *)
AllRows == 1..NRows
Broken == NRows + 2  \* the answer of a request that failed

VARIABLES
  part,
  first,     \* the sort key of the default row was changed to the lowest one
  table,     \* position -> [domains, has]
  cached,    \* the rows in the cache, or None
  memo,      \* position -> [state, slot] of the cached rows
  found,     \* _userflows_map: domain -> the positions of its rows, or None
  request,   \* the domain and class asked for, and from where its rows are looked at
  answer,    \* of the last request
  requests, changes

vars == <<part, first, table, cached, memo, found, request, answer, requests, changes>>

D == IF first THEN 0 ELSE NRows + 1
InUse == AllRows \cup {D}

Blank == [state |-> "unknown", slot |-> [s \in Slots(part) |-> None]]
Idle == [domain |-> None, class |-> None, at |-> 0]
NoAnswer == [row |-> None, slot |-> None]

(* clean: the default row has every mandatory field.                       *)
DefaultFields(p) ==
  CASE p = "page"    -> {{"layout"}, {"layout", "css"}}
    [] p = "email"   -> {Fields("email")}
    [] p = "signout" -> {{"body"} \cup f : f \in SUBSET {"signedout", "relogin"}}

RowsOf(p) == [domains : (SUBSET Domains) \ {{}}, has : SUBSET Fields(p)]

Init ==
  /\ part \in {"page", "email", "signout"} /\ first \in BOOLEAN
  /\ \E own \in [AllRows -> RowsOf(part)], fields \in DefaultFields(part) :
       table = [r \in InUse |-> IF r = D THEN [domains |-> Domains, has |-> fields] ELSE own[r]]
  /\ cached = None /\ memo = [r \in InUse |-> Blank]
  /\ found = [d \in Domains |-> None]
  /\ request = Idle /\ answer = NoAnswer
  /\ requests = 0 /\ changes = 0

-----------------------------------------------------------------------------
(* refresh_cache: the default's own css is emptied unless it has none.     *)
Loaded ==
  [r \in InUse |-> IF r = D THEN [table[r] EXCEPT !.has = @ \ {"css"}] ELSE table[r]]

Has(r, f) == f \in cached[r].has

Keep(m, r, s, value) == [m EXCEPT ![r].slot[s] = value]
Done(m, r) == [m EXCEPT ![r].state = "done"]

(***************************************************************************)
(* _init_userflow_pagelayout of the default row: its layout is rendered     *)
(* once per class, its css once.                                           *)
(***************************************************************************)
InitDefaultPage(m, class) ==
  IF m[D].state = "done" /\ m[D].slot[class] # None THEN m
  ELSE LET m1 == Keep(m, D, class, D)
       IN  IF m[D].state = "done" THEN m1
           ELSE Done(Keep(m1, D, "css", IF Has(D, "css") THEN D ELSE None), D)

(* The layout of a row for a class, own or the default's.                  *)
WithLayout(m, r, class) ==
  IF Has(r, "layout") THEN Keep(m, r, class, r)
  ELSE LET m1 == InitDefaultPage(m, class) IN Keep(m1, r, class, m1[D].slot[class])

(* The css of a row, own or the default's; once.                           *)
WithCss(m, r, class) ==
  IF Has(r, "css") THEN Done(Keep(m, r, "css", r), r)
  ELSE LET m1 == InitDefaultPage(m, class) IN Done(Keep(m1, r, "css", m1[D].slot["css"]), r)

(* The template context is assigned only where the row has its own layout.  *)
PageFails(m, r) == m[r].state # "done" /\ Has(r, "css") /\ ~ Has(r, "layout")

InitPage(m, r, class) ==
  IF m[r].state = "done" THEN WithLayout(m, r, class)
  ELSE IF PageFails(m, r) THEN WithLayout(m, r, class)
  ELSE WithCss(WithLayout(m, r, class), r, class)

(***************************************************************************)
(* _init_userflow_verifyemail and _init_userflow_signout.                  *)
(***************************************************************************)
InitDefaultFields(m) ==
  IF m[D].state = "done" THEN m
  ELSE Done([m EXCEPT ![D].slot = [f \in Fields(part) |-> IF Has(D, f) THEN D ELSE None]], D)

InitFields(m, r) ==
  LET m1 == IF Fields(part) \subseteq cached[r].has THEN m ELSE InitDefaultFields(m)
  IN  Done([m1 EXCEPT ![r].slot =
              [f \in Fields(part) |-> IF Has(r, f) THEN r ELSE m1[D].slot[f]]], r)

(* Not customized: nothing is configured, and it is not the default row.   *)
Plain(r) == r # D /\ cached[r].has = {}

Remembered(m, r, class) ==
  m[r].state = "done" /\ (part = "page" => m[r].slot[class] # None)

InitRow(m, r, class) ==
  IF m[r].state = "plain" \/ Remembered(m, r, class) THEN m
  ELSE IF m[r].state = "unknown" /\ Plain(r) THEN [m EXCEPT ![r].state = "plain"]
  ELSE IF part = "page"
       THEN IF r = D THEN InitDefaultPage(m, class) ELSE InitPage(m, r, class)
       ELSE IF r = D THEN InitDefaultFields(m) ELSE InitFields(m, r)

Slot(m, r, class) ==
  IF part = "page" THEN [layout |-> m[r].slot[class], css |-> m[r].slot["css"]]
  ELSE m[r].slot

-----------------------------------------------------------------------------
(* An administrator edits a row.                                           *)
Change ==
  /\ changes < MaxChanges
  /\ changes' = changes + 1
  /\ \E r \in AllRows : \E new \in RowsOf(part) : table' = [table EXCEPT ![r] = new]
  /\ UNCHANGED <<part, first, cached, memo, found, request, answer, requests>>

RefreshKeepsFound ==
  /\ request = Idle /\ cached # Loaded
  /\ cached' = Loaded
  /\ memo' = [r \in InUse |-> Blank]
  /\ found' = found
  /\ answer' = NoAnswer
  /\ UNCHANGED <<part, first, table, request, requests, changes>>

(* refresh_userflow_cache: no rows yet, or a check that finds a change.    *)
Refresh ==
  /\ request = Idle /\ cached # Loaded
  /\ cached' = Loaded
  /\ memo' = [r \in InUse |-> Blank]
  /\ found' = [d \in Domains |-> None]
  /\ answer' = NoAnswer
  /\ UNCHANGED <<part, first, table, request, requests, changes>>

Ask(d, class) ==
  /\ request = Idle /\ cached # None /\ requests < MaxRequests
  /\ requests' = requests + 1
  /\ request' = [domain |-> d, class |-> class, at |-> 0]
  /\ answer' = NoAnswer
  /\ UNCHANGED <<part, first, table, cached, memo, found, changes>>

(* _find_userflows: the matching rows, which are in the order of their keys. *)
Matching(d) == {r \in InUse : d \in cached[r].domains}

Find ==
  /\ request # Idle /\ found[request.domain] = None
  /\ found' = [found EXCEPT ![request.domain] = Matching(request.domain)]
  /\ UNCHANGED <<part, first, table, cached, memo, request, answer, requests, changes>>

Coming == {r \in found[request.domain] : r >= request.at}

(* One turn of the loop of _get_userflow...                               *)
Visit ==
  /\ request # Idle /\ found[request.domain] # None
  /\ LET r == CHOOSE r \in Coming : \A q \in Coming : r <= q
         m == InitRow(memo, r, request.class)
     IN  /\ memo' = m
         /\ IF m[r].state = "plain"
            THEN /\ request' = [request EXCEPT !.at = r + 1]
                 /\ UNCHANGED answer
            ELSE /\ answer' = [row |-> IF m[r].state = "done" THEN r ELSE Broken,
                               slot |-> IF m[r].state = "done" THEN Slot(m, r, request.class)
                                        ELSE None,
                               domain |-> request.domain]
                 /\ request' = Idle
  /\ UNCHANGED <<part, first, table, cached, found, requests, changes>>

AskAny == \E d \in Domains : \E c \in (IF part = "page" THEN Classes ELSE {None}) : Ask(d, c)

Next == Change \/ Refresh \/ AskAny \/ Find \/ Visit

Spec == Init /\ [][Next]_vars

-----------------------------------------------------------------------------
TypeOK ==
  /\ request.at \in 0..(NRows + 2)
  /\ \A r \in InUse : memo[r].state \in {"unknown", "plain", "done"}
  /\ answer.row \in InUse \cup {None, Broken}

(***************************************************************************)
(* Whatever was asked for before, a domain is shown the first of its        *)
(* userflows that customizes anything, with the fields of the default where *)
(* that one has none; the default's css never shows, and a userflow with    *)
(* css of its own but no layout fails each time.                            *)
(***************************************************************************)
FirstCustomized(d) ==
  CHOOSE r \in InUse : /\ d \in cached[r].domains /\ ~ Plain(r)
                       /\ \A q \in InUse : q < r /\ d \in cached[q].domains => Plain(q)

Expected(r) ==
  [f \in Fields(part) |-> IF Has(r, f) THEN r ELSE IF Has(D, f) THEN D ELSE None]

AnswersAsConfigured ==
  answer # NoAnswer =>
    LET r == FirstCustomized(answer.domain)
    IN  IF part = "page" /\ r # D /\ Has(r, "css") /\ ~ Has(r, "layout")
        THEN answer.row = Broken
        ELSE answer.row = r /\ answer.slot = Expected(r)

=============================================================================
