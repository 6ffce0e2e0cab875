--------------------------- MODULE DecisionsProofs ---------------------------
(***************************************************************************)
(* What the sequential computations return, for every table, pattern and    *)
(* list of rows.                                                            *)
(***************************************************************************)
EXTENDS Decisions, FiniteSetTheorems, SequenceTheorems, WellFoundedInduction,
  TLAPS

Elements(s) == {s[i] : i \in DOMAIN s}

(* Naturals are well ordered.                                              *)
LEMMA LeastExists ==
  ASSUME NEW S, S \subseteq Nat, S # {}
  PROVE  \E n \in S : \A m \in S : n <= m
<1> DEFINE R == {q \in Nat \X Nat : q[1] < q[2]}
<1>1. OpToRel(<, Nat) = R
  BY DEF OpToRel
<1>2. IsWellFoundedOn(R, Nat)
  BY <1>1, NatLessThanWellFounded
<1>3. PICK n \in S : \A m \in S : ~(<<m, n>> \in R)
  <2> HIDE DEF R
  <2>. QED
    BY <1>2, WFMin
<1>4. \A m \in S : ~(m < n)
  BY <1>3
<1>. QED
  BY <1>4

(* The element of a set of numbers that CHOOSE takes.                       *)
LEMMA LeastChosen ==
  ASSUME NEW S, S \subseteq Nat, S # {}
  PROVE  LET n == CHOOSE n \in S : \A k \in S : n <= k
         IN  n \in S /\ \A k \in S : n <= k
BY LeastExists

-----------------------------------------------------------------------------
(***************************************************************************)
(* Chains of parents.                                                       *)
(***************************************************************************)
Size == Cardinality(Groups)

Up(t, g) == IF g = None THEN None ELSE t.parent[g]

LEMMA SizeType == Size \in Nat
BY FS_CardinalityType, DecisionsAssumption DEF Size

LEMMA ChainExists ==
  ASSUME NEW t, NEW g, NEW N \in Nat
  PROVE  \E chain : chain = [n \in 0..N |-> IF n = 0 THEN g ELSE Up(t, chain[n - 1])]
<1> DEFINE Chain(k, chain) ==
             chain = [n \in 0..k |-> IF n = 0 THEN g ELSE Up(t, chain[n - 1])]
           Without == {k \in Nat : ~ \E chain : Chain(k, chain)}
<1>1. SUFFICES ASSUME Without # {} PROVE FALSE
  OBVIOUS
<1>2. PICK k \in Without : \A m \in Without : k <= m
  <2>1. Without \subseteq Nat
    OBVIOUS
  <2> HIDE DEF Without
  <2>. QED
    BY <1>1, <2>1, LeastExists
<1>3. k # 0
  <2>1. Chain(0, [n \in 0..0 |-> g])
    OBVIOUS
  <2>. QED
    BY <2>1
<1>4. k - 1 \in Nat /\ k - 1 \notin Without
  <2>1. k \in Nat
    OBVIOUS
  <2> HIDE DEF Without
  <2>. QED
    BY <1>2, <1>3, <2>1
<1>5. PICK chain : Chain(k - 1, chain)
  BY <1>4
<1> DEFINE more == [n \in 0..k |-> IF n = 0 THEN g ELSE Up(t, chain[n - 1])]
<1>6. \A n \in 0..k - 1 : more[n] = chain[n]
  BY <1>4, <1>5
<1>7. more = [n \in 0..k |-> IF n = 0 THEN g ELSE Up(t, more[n - 1])]
  <2>1. \A n \in 0..k : n # 0 => n - 1 \in 0..k - 1
    BY <1>4
  <2>2. \A n \in 0..k : n # 0 => chain[n - 1] = more[n - 1]
    BY <1>6, <2>1
  <2> DEFINE other == [n \in 0..k |-> IF n = 0 THEN g ELSE Up(t, more[n - 1])]
  <2>3. \A n \in 0..k : more[n] = other[n]
    BY <2>2
  <2>. QED
    BY <2>3
<1>8. Chain(k, more)
  BY <1>7
<1> HIDE DEF more
<1>. QED
  BY <1>2, <1>8

(* Ancestor follows parent_group.                                           *)
LEMMA AncestorSteps ==
  ASSUME NEW t, NEW g
  PROVE  /\ Access!Ancestor(t, g)[0] = g
         /\ \A n \in 1..Size : Access!Ancestor(t, g)[n] = Up(t, Access!Ancestor(t, g)[n - 1])
<1> DEFINE chain == CHOOSE f : f = [n \in 0..Size |-> IF n = 0 THEN g ELSE Up(t, f[n - 1])]
<1>1. chain = [n \in 0..Size |-> IF n = 0 THEN g ELSE Up(t, chain[n - 1])]
  BY ChainExists, SizeType
<1>2. Access!Cardinality(Groups) = Size
  BY DEF Access!Cardinality, Cardinality, Access!IsFiniteSet, IsFiniteSet, Size
<1>3. Access!Ancestor(t, g) = chain
  BY <1>2 DEF Access!Ancestor, Up
<1> HIDE DEF chain
<1>. QED
  BY <1>1, <1>3, SizeType

(* The loops of both components climb the same chains.                      *)
LEMMA SameTrees ==
  /\ \A t, g : Find!Ancestor(t, g) = Access!Ancestor(t, g)
  /\ \A t, g : Find!AncestorsOrSelf(t, g) = Access!AncestorsOrSelf(t, g)
  /\ \A t : Find!Acyclic(t) = Access!Acyclic(t)
  /\ Find!Tree = Access!Tree
<1>1. Find!Cardinality(Groups) = Access!Cardinality(Groups)
  BY DEF Access!Cardinality, Find!Cardinality, Access!IsFiniteSet, Find!IsFiniteSet
<1>2. \A t, g : Find!Ancestor(t, g) = Access!Ancestor(t, g)
  BY <1>1 DEF Find!Ancestor, Access!Ancestor
<1>. QED
  BY <1>1, <1>2 DEF Find!AncestorsOrSelf, Access!AncestorsOrSelf, Find!Acyclic,
     Access!Acyclic, Find!Tree, Access!Tree

(* On a table that clean() accepted every chain stays in the table until it *)
(* ends, and ends.                                                          *)
Sound(t) == t \in Access!Tree /\ Access!Acyclic(t)

LEMMA ParentLive ==
  ASSUME NEW t, Sound(t), NEW g \in t.live
  PROVE  g \in Groups /\ g # None /\ t.parent[g] \in t.live \cup {None}
BY DecisionsAssumption DEF Sound, Access!Tree, Access!Acyclic

LEMMA AncestorsLive ==
  ASSUME NEW t, Sound(t), NEW g \in t.live \cup {None}
  PROVE  \A n \in 0..Size : Access!Ancestor(t, g)[n] \in t.live \cup {None}
<1> DEFINE up == Access!Ancestor(t, g)
           Bad == {n \in 0..Size : up[n] \notin t.live \cup {None}}
<1>1. SUFFICES ASSUME Bad # {} PROVE FALSE
  OBVIOUS
<1>2. PICK n \in Bad : \A m \in Bad : n <= m
  <2>1. Bad \subseteq Nat
    OBVIOUS
  <2> HIDE DEF Bad
  <2>. QED
    BY <1>1, <2>1, LeastExists
<1>3. up[0] = g /\ \A m \in 1..Size : up[m] = Up(t, up[m - 1])
  BY AncestorSteps
<1> HIDE DEF up
<1>4. n \in 1..Size /\ n - 1 \in 0..Size /\ n - 1 \notin Bad
  BY <1>2, <1>3, SizeType
<1>5. up[n - 1] \in t.live \cup {None} /\ up[n] = Up(t, up[n - 1])
  BY <1>3, <1>4
<1>6. up[n] \in t.live \cup {None}
  BY <1>5, ParentLive DEF Up
<1>. QED
  BY <1>2, <1>6

(* The chain of a group continues with the chain of its parent.             *)
LEMMA AncestorShift ==
  ASSUME NEW t, NEW g, g # None
  PROVE  \A n \in 0..Size : n # Size =>
           Access!Ancestor(t, t.parent[g])[n] = Access!Ancestor(t, g)[n + 1]
<1> DEFINE up == Access!Ancestor(t, g)
           over == Access!Ancestor(t, t.parent[g])
           Bad == {n \in 0..Size : n # Size /\ over[n] # up[n + 1]}
<1>1. SUFFICES ASSUME Bad # {} PROVE FALSE
  OBVIOUS
<1>2. PICK n \in Bad : \A m \in Bad : n <= m
  <2>1. Bad \subseteq Nat
    OBVIOUS
  <2> HIDE DEF Bad
  <2>. QED
    BY <1>1, <2>1, LeastExists
<1>3. up[0] = g /\ \A m \in 1..Size : up[m] = Up(t, up[m - 1])
  BY AncestorSteps
<1>4. over[0] = t.parent[g] /\ \A m \in 1..Size : over[m] = Up(t, over[m - 1])
  BY AncestorSteps
<1> HIDE DEF up, over
<1>5. n # 0
  BY <1>2, <1>3, <1>4, SizeType DEF Up
<1>6. n \in 1..Size /\ n + 1 \in 1..Size /\ n - 1 \in 0..Size /\ n - 1 # Size /\ n - 1 \notin Bad
  BY <1>2, <1>5, SizeType
<1>7. over[n - 1] = up[n]
  BY <1>6
<1>8. over[n] = Up(t, over[n - 1]) /\ up[n + 1] = Up(t, up[n])
  BY <1>3, <1>4, <1>6
<1>. QED
  BY <1>2, <1>7, <1>8

LEMMA AncestorsOfNone ==
  ASSUME NEW t
  PROVE  \A n \in 0..Size : Access!Ancestor(t, None)[n] = None
<1> DEFINE up == Access!Ancestor(t, None)
           Bad == {n \in 0..Size : up[n] # None}
<1>1. SUFFICES ASSUME Bad # {} PROVE FALSE
  OBVIOUS
<1>2. PICK n \in Bad : \A m \in Bad : n <= m
  <2>1. Bad \subseteq Nat
    OBVIOUS
  <2> HIDE DEF Bad
  <2>. QED
    BY <1>1, <2>1, LeastExists
<1>3. up[0] = None /\ \A m \in 1..Size : up[m] = Up(t, up[m - 1])
  BY AncestorSteps
<1> HIDE DEF up
<1>4. n \in 1..Size /\ n - 1 \in 0..Size /\ n - 1 \notin Bad
  BY <1>2, <1>3, SizeType
<1>. QED
  BY <1>2, <1>3, <1>4 DEF Up

(* The nearest group that has an authorization.                             *)
Hits(t, tab, g, d) ==
  {n \in 0..Size : /\ Access!Ancestor(t, g)[n] # None
                   /\ Access!HasAuthorization(tab, Access!Ancestor(t, g)[n], d)}

LEMMA NearestIsLeast ==
  ASSUME NEW t, NEW tab, NEW g, NEW d
  PROVE  /\ Hits(t, tab, g, d) = {} => Access!NearestGroup(t, tab, g, d) = None
         /\ Hits(t, tab, g, d) # {} =>
              \E n \in Hits(t, tab, g, d) :
                /\ \A k \in Hits(t, tab, g, d) : n <= k
                /\ Access!NearestGroup(t, tab, g, d) = Access!Ancestor(t, g)[n]
<1> DEFINE hits == Hits(t, tab, g, d)
           n == CHOOSE n \in hits : \A k \in hits : n <= k
<1>1. Access!Cardinality(Groups) = Size
  BY DEF Access!Cardinality, Cardinality, Access!IsFiniteSet, IsFiniteSet, Size
<1>2. Access!NearestGroup(t, tab, g, d) = IF hits = {} THEN None ELSE Access!Ancestor(t, g)[n]
  BY <1>1 DEF Access!NearestGroup, Hits
<1>3. hits # {} => n \in hits /\ \A k \in hits : n <= k
  <2>1. hits \subseteq Nat
    BY DEF Hits
  <2> HIDE DEF hits
  <2>. QED
    BY <2>1, LeastChosen
<1> HIDE DEF n
<1>. QED
  BY <1>2, <1>3

LEMMA NearestOfNone ==
  ASSUME NEW t, NEW tab, NEW d
  PROVE  Access!NearestGroup(t, tab, None, d) = None
<1>1. Hits(t, tab, None, d) = {}
  BY AncestorsOfNone DEF Hits
<1>. QED
  BY <1>1, NearestIsLeast

LEMMA NearestHere ==
  ASSUME NEW t, NEW tab, NEW g, NEW d, g # None, Access!HasAuthorization(tab, g, d)
  PROVE  Access!NearestGroup(t, tab, g, d) = g
<1>1. Access!Ancestor(t, g)[0] = g
  BY AncestorSteps
<1>2. 0 \in Hits(t, tab, g, d)
  BY <1>1, SizeType DEF Hits
<1>3. PICK n \in Hits(t, tab, g, d) :
        /\ \A k \in Hits(t, tab, g, d) : n <= k
        /\ Access!NearestGroup(t, tab, g, d) = Access!Ancestor(t, g)[n]
  BY <1>2, NearestIsLeast
<1>4. n \in Nat /\ n <= 0
  BY <1>2, <1>3 DEF Hits
<1>. QED
  BY <1>1, <1>3, <1>4

LEMMA NearestAbove ==
  ASSUME NEW t, Sound(t), NEW tab, NEW g \in t.live, NEW d,
         ~ Access!HasAuthorization(tab, g, d)
  PROVE  Access!NearestGroup(t, tab, g, d) = Access!NearestGroup(t, tab, t.parent[g], d)
<1> DEFINE up == Access!Ancestor(t, g)
           over == Access!Ancestor(t, t.parent[g])
           mine == Hits(t, tab, g, d)
           theirs == Hits(t, tab, t.parent[g], d)
<1>1. Access!Cardinality(Groups) = Size
  BY DEF Access!Cardinality, Cardinality, Access!IsFiniteSet, IsFiniteSet, Size
<1>2. up[0] = g /\ up[Size] = None
  BY <1>1, AncestorSteps DEF Sound, Access!Acyclic
<1>3. \A n \in 0..Size : n # Size => over[n] = up[n + 1]
  BY AncestorShift, ParentLive
<1>4. over[Size] = None
  <2>1. CASE t.parent[g] = None
    BY <2>1, AncestorsOfNone, SizeType
  <2>2. CASE t.parent[g] # None
    BY <1>1, <2>2, ParentLive DEF Sound, Access!Acyclic
  <2>. QED
    BY <2>1, <2>2
<1>5. \A n \in theirs : n + 1 \in mine
  BY <1>3, <1>4, SizeType DEF Hits
<1>6. \A n \in mine : n # 0 /\ n # Size /\ n - 1 \in theirs
  <2> SUFFICES ASSUME NEW n \in mine PROVE n # 0 /\ n # Size /\ n - 1 \in theirs
    OBVIOUS
  <2>1. n # 0 /\ n # Size /\ n \in 0..Size
    BY <1>2 DEF Hits
  <2>2. n - 1 \in 0..Size /\ n - 1 # Size /\ (n - 1) + 1 = n
    BY <2>1, SizeType
  <2>3. over[n - 1] = up[n]
    BY <1>3, <2>2
  <2>. QED
    BY <2>1, <2>2, <2>3 DEF Hits
<1>7. CASE mine = {}
  <2>1. theirs = {}
    BY <1>5, <1>7
  <2>. QED
    BY <1>7, <2>1, NearestIsLeast
<1>8. CASE mine # {}
  <2>1. theirs # {}
    BY <1>6, <1>8
  <2>2. PICK n \in mine : (\A k \in mine : n <= k) /\ Access!NearestGroup(t, tab, g, d) = up[n]
    BY <1>8, NearestIsLeast
  <2>3. PICK m \in theirs : (\A k \in theirs : m <= k) /\ Access!NearestGroup(t, tab, t.parent[g], d) = over[m]
    BY <2>1, NearestIsLeast
  <2>4. n \in 0..Size /\ m \in 0..Size
    BY DEF Hits
  <2>5. n <= m + 1 /\ m <= n - 1
    BY <1>5, <1>6, <2>2, <2>3
  <2>6. n = m + 1 /\ m # Size
    BY <1>6, <2>4, <2>5, SizeType
  <2>. QED
    BY <1>3, <2>2, <2>3, <2>4, <2>6
<1>. QED
  BY <1>7, <1>8

(* The nearest authorization is one of the table.                           *)
LEMMA NearestHasOne ==
  ASSUME NEW t, Sound(t), NEW tab, NEW g \in t.live \cup {None}, NEW d,
         Access!NearestGroup(t, tab, g, d) # None
  PROVE  /\ Access!NearestGroup(t, tab, g, d) \in Groups
         /\ Access!HasAuthorization(tab, Access!NearestGroup(t, tab, g, d), d)
<1>1. PICK n \in Hits(t, tab, g, d) : Access!NearestGroup(t, tab, g, d) = Access!Ancestor(t, g)[n]
  BY NearestIsLeast
<1>2. Access!Ancestor(t, g)[n] \in t.live
  BY AncestorsLive DEF Hits
<1>. QED
  BY <1>1, <1>2, ParentLive DEF Hits

LEMMA FirstIsOne ==
  ASSUME NEW tab \in Access!AuthTable, NEW g \in Groups, NEW d,
         Access!HasAuthorization(tab, g, d)
  PROVE  Access!FirstAuthorization(tab, g, d) \in Access!Authorization
<1> DEFINE S == {i \in DOMAIN tab[g] : d \in tab[g][i].domains}
           First(i) == d \in tab[g][i].domains /\ \A j \in 1..(i - 1) : d \notin tab[g][j].domains
<1>1. tab[g] \in Seq(Access!Authorization)
  BY DEF Access!AuthTable
<1>2. S # {} /\ S \subseteq Nat /\ DOMAIN tab[g] = 1..Len(tab[g]) /\ Len(tab[g]) \in Nat
  BY <1>1 DEF Access!HasAuthorization
<1>3. PICK n \in S : \A m \in S : n <= m
  <2> HIDE DEF S
  <2>. QED
    BY <1>2, LeastExists
<1>4. \A j \in 1..(n - 1) : j \in DOMAIN tab[g] /\ j \notin S
  BY <1>2, <1>3
<1>5. n \in DOMAIN tab[g] /\ First(n)
  BY <1>3, <1>4
<1> DEFINE f == CHOOSE i \in DOMAIN tab[g] : First(i)
<1>6. f \in DOMAIN tab[g]
  BY <1>5
<1>7. tab[g][f] \in Access!Authorization
  <2> HIDE DEF f
  <2>. QED
    BY <1>1, <1>6
<1>. QED
  BY <1>7 DEF Access!FirstAuthorization

-----------------------------------------------------------------------------
(***************************************************************************)
(* find_authorizations.                                                     *)
(***************************************************************************)

(* The order in which the rows are read leaves none out.                    *)
LEMMA OrdersAll ==
  ASSUME NEW S, IsFiniteSet(S), NEW s \in Access!SetToSeqs(S)
  PROVE  s \in Seq(S) /\ Elements(s) = S
<1> DEFINE n == Cardinality(S)
<1>1. Access!Cardinality(S) = n
  BY DEF Access!Cardinality, Cardinality, Access!IsFiniteSet, IsFiniteSet
<1>2. n \in Nat
  BY FS_CardinalityType
<1>3. s \in [1..n -> S] /\ \A i, j \in 1..n : i # j => s[i] # s[j]
  BY <1>1 DEF Access!SetToSeqs
<1>4. s \in Injection(1..n, S)
  BY <1>3 DEF Injection, IsInjective
<1>5. IsFiniteSet(1..n) /\ Cardinality(1..n) = n
  BY <1>2, FS_Interval
<1> HIDE DEF n
<1>6. s \in Surjection(1..n, S)
  BY <1>4, <1>5, FS_Injection DEF n
<1>7. \A x \in S : \E i \in 1..n : s[i] = x
  BY <1>6 DEF Surjection
<1>. QED
  BY <1>2, <1>3, <1>7 DEF Elements

InTheirGroups(t, e) == Access!MatchedGroups(t, e)

LEMMA MatchedFinite ==
  ASSUME NEW t, Sound(t), NEW e
  PROVE  /\ InTheirGroups(t, e) \subseteq t.live
         /\ IsFiniteSet(InTheirGroups(t, e))
<1>1. InTheirGroups(t, e) \subseteq t.live
  BY DEF InTheirGroups, Access!MatchedGroups
<1>2. t.live \subseteq Groups
  BY DEF Sound, Access!Tree
<1>. QED
  BY <1>1, <1>2, FS_Subset, DecisionsAssumption

(* What the groups of D contribute, and the list that was collected from it.*)
Nearest(D) == Access!NearestAuthorizations(tree, auths, D, domain)

Collected(D) ==
  /\ Elements(matched) = {a \in Nearest(D) : ~ Access!DenyAll(a)}
  /\ \A a \in Nearest(D) : ~ Access!AllowAll(a)

Rule(g) == Access!NearestGroup(tree, auths, g, domain)

Mine == InTheirGroups(tree, email)

AccessShapes ==
  /\ Sound(tree) /\ tree \in AccessTrees /\ auths \in AuthTables
  /\ auths \in Access!AuthTable
  /\ email \in Emails /\ domain \in Domains
  /\ usergroups \in Seq(tree.live)
  /\ checkgroup \in tree.live \cup {None}
  /\ matched \in Seq(Access!Authorization)
  /\ pc \in {"run", "done"}

(* The groups looked at, D, the group on the way and the rest are those of  *)
(* the user.                                                                *)
AccessRuns ==
  \E D \in SUBSET Mine :
    /\ Collected(D)
    /\ checkgroup = None => Mine = D \cup Elements(usergroups)
    /\ checkgroup # None =>
         \E g \in Mine : Rule(g) = Rule(checkgroup) /\ Mine = D \cup {g} \cup Elements(usergroups)

AccessReturned ==
  \/ Collected(Mine)
  \/ \E a \in Nearest(Mine) : Access!AllowAll(a) /\ matched = <<a>>

AccessInv ==
  which = "access" =>
    /\ AccessShapes
    /\ pc = "run" => AccessRuns
    /\ pc = "done" => AccessReturned

LEMMA NearestOf ==
  ASSUME NEW D
  PROVE  Nearest(D) = {Access!FirstAuthorization(auths, Rule(g), domain) : g \in {h \in D : Rule(h) # None}}
BY DEF Nearest, Rule, Access!NearestAuthorizations

(* A group without authorizations contributes none.                         *)
LEMMA NearestMore ==
  ASSUME NEW D, NEW g
  PROVE  /\ Rule(g) = None => Nearest(D \cup {g}) = Nearest(D)
         /\ Rule(g) # None => Nearest(D \cup {g}) =
              Nearest(D) \cup {Access!FirstAuthorization(auths, Rule(g), domain)}
BY NearestOf

LEMMA DenyIsNotAllow ==
  ASSUME NEW a, Access!DenyAll(a)
  PROVE  ~ Access!AllowAll(a)
BY DEF Access!DenyAll, Access!AllowAll

LEMMA ElementsOfTail ==
  ASSUME NEW S, NEW s \in Seq(S), s # <<>>
  PROVE  /\ Head(s) \in S /\ Tail(s) \in Seq(S)
         /\ Elements(s) = {Head(s)} \cup Elements(Tail(s))
<1>1. Len(s) \in Nat /\ Len(s) # 0 /\ DOMAIN s = 1..Len(s)
  BY EmptySeq
<1>2. Head(s) = s[1] /\ Tail(s) \in Seq(S) /\ Len(Tail(s)) = Len(s) - 1
  BY <1>1, HeadTailProperties
<1>3. DOMAIN Tail(s) = 1..(Len(s) - 1) /\ \A i \in 1..(Len(s) - 1) : Tail(s)[i] = s[i + 1]
  BY <1>1, <1>2, HeadTailProperties
<1>4. \A i \in 1..Len(s) : i # 1 => i - 1 \in 1..(Len(s) - 1) /\ Tail(s)[i - 1] = s[i]
  BY <1>1, <1>3
<1>5. Elements(s) \subseteq {Head(s)} \cup Elements(Tail(s))
  <2> SUFFICES ASSUME NEW i \in 1..Len(s), i # 1 PROVE s[i] \in Elements(Tail(s))
    BY <1>1, <1>2 DEF Elements
  <2>1. i - 1 \in DOMAIN Tail(s) /\ Tail(s)[i - 1] = s[i]
    BY <1>3, <1>4
  <2>. QED
    BY <2>1 DEF Elements
<1>6. \A i \in 1..(Len(s) - 1) : i + 1 \in 1..Len(s)
  BY <1>1
<1>7. {Head(s)} \cup Elements(Tail(s)) \subseteq Elements(s)
  BY <1>1, <1>2, <1>3, <1>6 DEF Elements
<1>. QED
  BY <1>1, <1>2, <1>5, <1>7

LEMMA AccessInit ==
  ASSUME Init PROVE AccessInv
<1> SUFFICES ASSUME which = "access" PROVE AccessShapes /\ pc = "run" /\ AccessRuns
  BY DEF AccessInv
<1>1. Access!Init
  BY DEF Init
<1>2. Sound(tree) /\ tree \in AccessTrees /\ auths \in AuthTables /\ auths \in Access!AuthTable
  BY <1>1, DecisionsAssumption DEF Access!Init, Sound
<1>3. Mine \subseteq tree.live /\ IsFiniteSet(Mine) /\ usergroups \in Access!SetToSeqs(Mine)
  BY <1>1, <1>2, MatchedFinite DEF Access!Init, Mine, InTheirGroups
<1>4. usergroups \in Seq(Mine) /\ Elements(usergroups) = Mine
  BY <1>3, OrdersAll
<1>5. usergroups \in Seq(tree.live)
  <2>1. \A S, T : S \subseteq T => Seq(S) \subseteq Seq(T)
    OBVIOUS
  <2>. QED
    BY <1>3, <1>4, <2>1
<1>6. AccessShapes /\ pc = "run" /\ checkgroup = None /\ matched = <<>>
  BY <1>1, <1>2, <1>5 DEF Access!Init, AccessShapes
<1>7. Collected({})
  <2>1. Nearest({}) = {} /\ Elements(<<>>) = {}
    BY NearestOf DEF Elements
  <2>. QED
    BY <1>6, <2>1 DEF Collected
<1>8. AccessRuns
  BY <1>4, <1>6, <1>7 DEF AccessRuns
<1>. QED
  BY <1>6, <1>8

(* The tables stay as they are.                                             *)
LEMMA AccessSame ==
  ASSUME UNCHANGED Access!inputs
  PROVE  /\ Mine' = Mine
         /\ \A g : Rule(g)' = Rule(g)
         /\ \A D : Nearest(D)' = Nearest(D)
BY DEF Access!inputs, Mine, InTheirGroups, Rule, Nearest

LEMMA CollectedSame ==
  ASSUME UNCHANGED Access!inputs, UNCHANGED matched, NEW D
  PROVE  Collected(D)' <=> Collected(D)
BY AccessSame DEF Collected, Elements

LEMMA TakeGroupStep ==
  ASSUME AccessInv, which = "access", Access!TakeGroup
  PROVE  AccessShapes' /\ AccessRuns'
<1>1. AccessShapes /\ AccessRuns /\ checkgroup = None /\ usergroups # <<>>
  BY DEF AccessInv, Access!TakeGroup
<1>2. UNCHANGED Access!inputs /\ UNCHANGED <<matched, pc>>
      /\ checkgroup' = Head(usergroups) /\ usergroups' = Tail(usergroups)
  BY DEF Access!TakeGroup
<1>3. /\ Head(usergroups) \in tree.live /\ Tail(usergroups) \in Seq(tree.live)
      /\ Elements(usergroups) = {Head(usergroups)} \cup Elements(Tail(usergroups))
  BY <1>1, ElementsOfTail DEF AccessShapes
<1>4. AccessShapes'
  BY <1>1, <1>2, <1>3 DEF AccessShapes, Access!inputs
<1>5. PICK D \in SUBSET Mine : Collected(D) /\ Mine = D \cup Elements(usergroups)
  BY <1>1 DEF AccessRuns
<1>6. checkgroup' # None /\ checkgroup' \in Mine
  BY <1>1, <1>2, <1>3, <1>5, ParentLive DEF AccessShapes
<1>7. Mine = D \cup {checkgroup'} \cup Elements(usergroups)'
  BY <1>2, <1>3, <1>5 DEF Elements
<1>8. Collected(D)'
  BY <1>2, <1>5, CollectedSame
<1>9. Mine' = Mine
  BY <1>2, AccessSame
<1>. QED
  BY <1>4, <1>6, <1>7, <1>8, <1>9 DEF AccessRuns

(* The authorization the walk stops at is the one the group inherits.       *)
LEMMA StopsHere ==
  ASSUME AccessShapes, Access!AtMatch, NEW g, Rule(g) = Rule(checkgroup)
  PROVE  /\ Rule(g) # None
         /\ Access!FirstAuthorization(auths, Rule(g), domain) = Access!Here
         /\ Access!Here \in Access!Authorization
<1>1. checkgroup \in tree.live /\ checkgroup # None /\ checkgroup \in Groups
      /\ Access!HasAuthorization(auths, checkgroup, domain)
  BY ParentLive DEF Access!AtMatch, AccessShapes
<1>2. Rule(checkgroup) = checkgroup
  BY <1>1, NearestHere DEF Rule
<1>. QED
  BY <1>1, <1>2, FirstIsOne DEF Access!Here, AccessShapes

LEMMA DenyStep ==
  ASSUME AccessInv, which = "access", Access!Deny
  PROVE  AccessShapes' /\ AccessRuns'
<1>1. AccessShapes /\ AccessRuns /\ checkgroup # None /\ Access!AtMatch
  BY DEF AccessInv, Access!Deny, Access!AtMatch
<1>2. UNCHANGED Access!inputs /\ UNCHANGED <<matched, pc, usergroups>> /\ checkgroup' = None
  BY DEF Access!Deny
<1>3. AccessShapes'
  BY <1>1, <1>2 DEF AccessShapes, Access!inputs
<1>4. PICK D \in SUBSET Mine, g \in Mine :
        Collected(D) /\ Rule(g) = Rule(checkgroup) /\ Mine = D \cup {g} \cup Elements(usergroups)
  BY <1>1 DEF AccessRuns
<1>5. Nearest(D \cup {g}) = Nearest(D) \cup {Access!Here} /\ Access!DenyAll(Access!Here)
  BY <1>1, <1>4, StopsHere, NearestMore DEF Access!Deny
<1>6. Collected(D \cup {g})
  BY <1>4, <1>5, DenyIsNotAllow DEF Collected
<1>7. Collected(D \cup {g})' /\ Mine' = Mine
  BY <1>2, <1>6, CollectedSame, AccessSame
<1>. QED
  BY <1>2, <1>3, <1>4, <1>7 DEF AccessRuns, Elements

LEMMA ReturnAllStep ==
  ASSUME AccessInv, which = "access", Access!ReturnAll
  PROVE  AccessShapes' /\ pc' = "done" /\ AccessReturned'
<1>1. AccessShapes /\ AccessRuns /\ checkgroup # None /\ Access!AtMatch
  BY DEF AccessInv, Access!ReturnAll, Access!AtMatch
<1>2. UNCHANGED Access!inputs /\ UNCHANGED <<checkgroup, usergroups>> /\ pc' = "done"
      /\ matched' = <<Access!Here>> /\ Access!AllowAll(Access!Here)
  BY DEF Access!ReturnAll
<1>3. PICK D \in SUBSET Mine, g \in Mine :
        Collected(D) /\ Rule(g) = Rule(checkgroup) /\ Mine = D \cup {g} \cup Elements(usergroups)
  BY <1>1 DEF AccessRuns
<1>4. Access!Here \in Nearest(Mine) /\ Access!Here \in Access!Authorization
  BY <1>1, <1>3, StopsHere, NearestOf
<1>5. AccessShapes'
  BY <1>1, <1>2, <1>4 DEF AccessShapes, Access!inputs
<1>. QED
  BY <1>2, <1>4, <1>5, AccessSame DEF AccessReturned

LEMMA CollectStep ==
  ASSUME AccessInv, which = "access", Access!Collect
  PROVE  AccessShapes' /\ AccessRuns'
<1>1. AccessShapes /\ AccessRuns /\ checkgroup # None /\ Access!AtMatch
  BY DEF AccessInv, Access!Collect, Access!AtMatch
<1>2. UNCHANGED Access!inputs /\ UNCHANGED <<pc, usergroups>> /\ checkgroup' = None
      /\ matched' = Append(matched, Access!Here)
      /\ ~ Access!DenyAll(Access!Here) /\ ~ Access!AllowAll(Access!Here)
  BY DEF Access!Collect
<1>3. PICK D \in SUBSET Mine, g \in Mine :
        Collected(D) /\ Rule(g) = Rule(checkgroup) /\ Mine = D \cup {g} \cup Elements(usergroups)
  BY <1>1 DEF AccessRuns
<1>4. Nearest(D \cup {g}) = Nearest(D) \cup {Access!Here} /\ Access!Here \in Access!Authorization
  BY <1>1, <1>3, StopsHere, NearestMore
<1>5. AccessShapes'
  BY <1>1, <1>2, <1>4, AppendProperties DEF AccessShapes, Access!inputs
<1>6. Elements(Append(matched, Access!Here)) = Elements(matched) \cup {Access!Here}
  <2>1. matched \in Seq(Access!Authorization)
    BY <1>1 DEF AccessShapes
  <2>. QED
    BY <1>4, <2>1 DEF Elements
<1>7. Collected(D \cup {g})'
  <2>1. (Nearest(D \cup {g}))' = Nearest(D \cup {g}) /\ Elements(matched)' = Elements(matched) \cup {Access!Here}
    BY <1>2, <1>6, AccessSame DEF Elements
  <2>2. Elements(matched) \cup {Access!Here} = {a \in Nearest(D \cup {g}) : ~ Access!DenyAll(a)}
    BY <1>2, <1>3, <1>4 DEF Collected
  <2>3. \A a \in Nearest(D \cup {g}) : ~ Access!AllowAll(a)
    BY <1>2, <1>3, <1>4 DEF Collected
  <2>. QED
    BY <2>1, <2>2, <2>3 DEF Collected
<1>. QED
  BY <1>2, <1>3, <1>5, <1>7, AccessSame DEF AccessRuns, Elements

LEMMA GoUpStep ==
  ASSUME AccessInv, which = "access", Access!GoUp
  PROVE  AccessShapes' /\ AccessRuns'
<1>1. AccessShapes /\ AccessRuns /\ checkgroup # None /\ checkgroup \in tree.live
      /\ ~ Access!HasAuthorization(auths, checkgroup, domain)
  BY DEF AccessInv, Access!GoUp, AccessShapes
<1>2. UNCHANGED Access!inputs /\ UNCHANGED <<matched, pc, usergroups>>
      /\ checkgroup' = tree.parent[checkgroup]
  BY DEF Access!GoUp
<1>3. AccessShapes'
  BY <1>1, <1>2, ParentLive DEF AccessShapes, Access!inputs
<1>4. PICK D \in SUBSET Mine, g \in Mine :
        Collected(D) /\ Rule(g) = Rule(checkgroup) /\ Mine = D \cup {g} \cup Elements(usergroups)
  BY <1>1 DEF AccessRuns
<1>5. Rule(g) = Rule(checkgroup')
  BY <1>1, <1>2, <1>4, NearestAbove DEF AccessShapes, Rule
<1>6. Mine' = Mine /\ Collected(D)'
  BY <1>2, <1>4, CollectedSame, AccessSame
<1>7. CASE checkgroup' # None
  <2>1. (Rule(g) = Rule(checkgroup))'
    BY <1>2, <1>5 DEF Rule, Access!inputs
  <2>. QED
    BY <1>2, <1>3, <1>4, <1>6, <1>7, <2>1 DEF AccessRuns, Elements
<1>8. CASE checkgroup' = None
  <2>1. Rule(g) = None
    BY <1>5, <1>8, NearestOfNone DEF Rule
  <2>2. Collected(D \cup {g})
    BY <1>4, <2>1, NearestMore DEF Collected
  <2>3. Collected(D \cup {g})'
    BY <1>2, <2>2, CollectedSame
  <2>. QED
    BY <1>2, <1>3, <1>4, <1>6, <1>8, <2>3 DEF AccessRuns, Elements
<1>. QED
  BY <1>7, <1>8

LEMMA ReturnStep ==
  ASSUME AccessInv, which = "access", Access!Return
  PROVE  AccessShapes' /\ pc' = "done" /\ AccessReturned'
<1>1. AccessShapes /\ AccessRuns /\ checkgroup = None /\ usergroups = <<>>
  BY DEF AccessInv, Access!Return
<1>2. UNCHANGED Access!inputs /\ UNCHANGED <<matched, checkgroup, usergroups>> /\ pc' = "done"
  BY DEF Access!Return
<1>3. AccessShapes'
  BY <1>1, <1>2 DEF AccessShapes, Access!inputs
<1>4. PICK D \in SUBSET Mine : Collected(D) /\ Mine = D \cup Elements(usergroups)
  BY <1>1 DEF AccessRuns
<1>5. Elements(usergroups) = {}
  BY <1>1 DEF Elements
<1>6. Collected(Mine)' /\ Mine' = Mine
  BY <1>2, <1>4, <1>5, CollectedSame, AccessSame
<1>. QED
  BY <1>2, <1>3, <1>6 DEF AccessReturned

LEMMA AccessNext ==
  ASSUME AccessInv, [Next]_unionVars PROVE AccessInv'
<1>1. CASE which = "access" /\ Access!Next /\ which' = which
  <2>1. pc = "run"
    BY <1>1 DEF Access!Next, Access!TakeGroup, Access!Deny, Access!ReturnAll, Access!Collect,
       Access!GoUp, Access!Return, Access!AtMatch
  <2>2. CASE Access!TakeGroup \/ Access!Deny \/ Access!Collect \/ Access!GoUp
    <3>1. pc' = "run"
      BY <2>1, <2>2 DEF Access!TakeGroup, Access!Deny, Access!Collect, Access!GoUp
    <3>. QED
      BY <1>1, <2>2, <3>1, TakeGroupStep, DenyStep, CollectStep, GoUpStep DEF AccessInv
  <2>3. CASE Access!ReturnAll \/ Access!Return
    BY <1>1, <2>3, ReturnAllStep, ReturnStep DEF AccessInv
  <2>. QED
    BY <1>1, <2>2, <2>3 DEF Access!Next
<1>2. CASE which' # "access"
  BY <1>2 DEF AccessInv
<1>3. CASE which' = which /\ UNCHANGED accessVars
  BY <1>3 DEF AccessInv, accessVars, AccessShapes, AccessRuns, AccessReturned, Collected,
     Elements, Nearest, Rule, Mine, InTheirGroups
<1>. QED
  BY <1>1, <1>2, <1>3 DEF Next, unionVars

LEMMA AccessHolds == Spec => []AccessInv
BY AccessInit, AccessNext, PTL DEF Spec

(* Both decisions of the model agree: can_access, which looks for a rule    *)
(* that allows everything and leaves out those that deny everything, allows *)
(* a path exactly where check_authorization, group by group, does; for any  *)
(* hierarchy, rules, email and domain.                                      *)
THEOREM CanAccessAgrees == Spec => []AgreesWithCheckAuthorization
<1>1. ASSUME AccessInv PROVE AgreesWithCheckAuthorization
  <2> SUFFICES ASSUME which = "access", pc = "done", NEW p \in Paths
               PROVE  Access!CanAccess(p) <=>
                        Access!CheckAuthorization(tree, auths, Mine, domain, p)
    BY DEF AgreesWithCheckAuthorization, Access!AgreesWithCheckAuthorization, Mine, InTheirGroups
  <2>1. AccessReturned
    BY <1>1 DEF AccessInv
  <2>2. Access!CanAccess(p) <=> \E a \in Elements(matched) : Access!Allow(a, p)
    BY DEF Access!CanAccess, Elements
  <2>3. Access!CheckAuthorization(tree, auths, Mine, domain, p) <=>
          \E a \in Nearest(Mine) : Access!Allow(a, p)
    BY NearestOf DEF Access!CheckAuthorization, Rule
  <2>4. \A a : Access!AllowAll(a) => Access!Allow(a, p)
    BY DEF Access!Allow
  <2>5. \A a : Access!DenyAll(a) => ~ Access!Allow(a, p)
    BY DenyIsNotAllow DEF Access!Allow
  <2>6. CASE Collected(Mine)
    BY <2>2, <2>3, <2>5, <2>6 DEF Collected
  <2>7. CASE \E a \in Nearest(Mine) : Access!AllowAll(a) /\ matched = <<a>>
    <3>1. PICK a \in Nearest(Mine) : Access!AllowAll(a) /\ matched = <<a>>
      BY <2>7
    <3>2. a \in Elements(matched)
      BY <3>1 DEF Elements
    <3>. QED
      BY <2>2, <2>3, <2>4, <3>1, <3>2
  <2>. QED
    BY <2>1, <2>6, <2>7 DEF AccessReturned
<1>. QED
  BY <1>1, AccessHolds, PTL

(* The list that find_authorizations returns is the set that the caches of  *)
(* AuthorizationCache keep, whichever order the groups were read in.        *)
THEOREM FindAuthorizationsReturns == Spec => []ReturnsFindAuthorizations
<1>1. ASSUME AccessInv PROVE ReturnsFindAuthorizations
  <2> SUFFICES ASSUME which = "access" PROVE Access!ReturnsFindAuthorizations /\ Access!TypeOK
    BY DEF ReturnsFindAuthorizations
  <2>1. AccessShapes
    BY <1>1 DEF AccessInv
  <2>2. Access!TypeOK
    <3>1. \A S, T : S \subseteq T => Seq(S) \subseteq Seq(T)
      OBVIOUS
    <3>2. tree.live \subseteq Groups
      BY <2>1 DEF AccessShapes, Sound, Access!Tree
    <3>3. usergroups \in Seq(Groups) /\ checkgroup \in Groups \cup {None}
      BY <2>1, <3>1, <3>2 DEF AccessShapes
    <3>. QED
      BY <2>1, <3>3 DEF AccessShapes, Access!TypeOK
  <2>3. ASSUME pc = "done"
        PROVE  LET list == Access!FindAuthorizations(tree, auths, Mine, domain)
               IN  \/ Elements(matched) = list
                   \/ /\ Access!Cardinality(Elements(matched)) = 1
                      /\ \A a \in Elements(matched) : Access!AllowAll(a)
                      /\ \E a \in list : Access!AllowAll(a)
    <3> DEFINE list == Access!FindAuthorizations(tree, auths, Mine, domain)
    <3>1. AccessReturned
      BY <1>1, <2>3 DEF AccessInv
    <3>2. CASE Collected(Mine)
      BY <3>2 DEF Collected, Access!FindAuthorizations, Nearest
    <3>3. CASE \E a \in Nearest(Mine) : Access!AllowAll(a) /\ matched = <<a>>
      <4>1. PICK a \in Nearest(Mine) : Access!AllowAll(a) /\ matched = <<a>>
        BY <3>3
      <4>2. Elements(matched) = {a}
        BY <4>1 DEF Elements
      <4>3. Access!Cardinality({a}) = 1
        BY FS_Singleton DEF Access!Cardinality, Cardinality, Access!IsFiniteSet, IsFiniteSet
      <4>4. \E b \in list : Access!AllowAll(b)
        BY <4>1 DEF Access!FindAuthorizations, Nearest
      <4>. QED
        BY <4>1, <4>2, <4>3, <4>4
    <3>. QED
      BY <3>1, <3>2, <3>3 DEF AccessReturned
  <2>. QED
    BY <2>2, <2>3 DEF Access!ReturnsFindAuthorizations, Mine, InTheirGroups, Elements
<1>. QED
  BY <1>1, AccessHolds, PTL

-----------------------------------------------------------------------------
(***************************************************************************)
(* The order of the hierarchy.                                              *)
(***************************************************************************)
Anc(t, g) == Access!AncestorsOrSelf(t, g)

LEMMA AncestorSet ==
  ASSUME NEW t, NEW g
  PROVE  Anc(t, g) = {Access!Ancestor(t, g)[n] : n \in 0..Size} \ {None}
<1>1. Access!Cardinality(Groups) = Size
  BY DEF Access!Cardinality, Cardinality, Access!IsFiniteSet, IsFiniteSet, Size
<1>. QED
  BY <1>1 DEF Anc, Access!AncestorsOrSelf

LEMMA AncestorsEnd ==
  ASSUME NEW t, Sound(t), NEW g \in t.live \cup {None}
  PROVE  Access!Ancestor(t, g)[Size] = None
<1>1. Access!Cardinality(Groups) = Size
  BY DEF Access!Cardinality, Cardinality, Access!IsFiniteSet, IsFiniteSet, Size
<1>2. CASE g = None
  BY <1>2, AncestorsOfNone, SizeType
<1>3. CASE g # None
  BY <1>1, <1>3 DEF Sound, Access!Acyclic
<1>. QED
  BY <1>2, <1>3

LEMMA AncestorsUnfold ==
  ASSUME NEW t, Sound(t), NEW g \in t.live
  PROVE  Anc(t, g) = {g} \cup Anc(t, t.parent[g])
<1> DEFINE up == Access!Ancestor(t, g)
           over == Access!Ancestor(t, t.parent[g])
<1>1. up[0] = g /\ up[Size] = None /\ g # None
  BY AncestorSteps, AncestorsEnd, ParentLive
<1>2. over[Size] = None
  BY AncestorsEnd, ParentLive
<1>3. \A n \in 0..Size : n # Size => over[n] = up[n + 1]
  BY AncestorShift, <1>1
<1>4. Anc(t, g) = {up[n] : n \in 0..Size} \ {None} /\ Anc(t, t.parent[g]) = {over[n] : n \in 0..Size} \ {None}
  BY AncestorSet
<1> HIDE DEF up, over
<1>5. Anc(t, g) \subseteq {g} \cup Anc(t, t.parent[g])
  <2> SUFFICES ASSUME NEW n \in 0..Size, up[n] # None, n # 0 PROVE up[n] \in Anc(t, t.parent[g])
    BY <1>1, <1>4
  <2>1. n - 1 \in 0..Size /\ n - 1 # Size /\ (n - 1) + 1 = n
    BY SizeType
  <2>2. over[n - 1] = up[n]
    BY <1>3, <2>1
  <2>. QED
    BY <1>4, <2>1, <2>2
<1>6. Anc(t, t.parent[g]) \subseteq Anc(t, g)
  <2> SUFFICES ASSUME NEW n \in 0..Size, over[n] # None PROVE over[n] \in Anc(t, g)
    BY <1>4
  <2>1. n # Size /\ n + 1 \in 0..Size
    BY <1>2, SizeType
  <2>. QED
    BY <1>3, <1>4, <2>1
<1>7. g \in Anc(t, g)
  BY <1>1, <1>4, SizeType
<1>. QED
  BY <1>5, <1>6, <1>7

LEMMA AncestorsOfNoGroup == ASSUME NEW t PROVE Anc(t, None) = {}
BY AncestorSet, AncestorsOfNone

LEMMA AncestorsAreLive ==
  ASSUME NEW t, Sound(t), NEW g \in t.live \cup {None}
  PROVE  Anc(t, g) \subseteq t.live
BY AncestorSet, AncestorsLive

(* What is above an ancestor is above the group, and two ancestors of a     *)
(* group are above each other.                                              *)
LEMMA AncestorsOfAncestor ==
  ASSUME NEW t, Sound(t), NEW g \in t.live, NEW h \in Anc(t, g)
  PROVE  Anc(t, h) \subseteq Anc(t, g)
<1> DEFINE up == Access!Ancestor(t, g)
           Bad == {n \in 0..Size : up[n] # None /\ ~ (Anc(t, up[n]) \subseteq Anc(t, g))}
<1>1. up[0] = g /\ (\A n \in 1..Size : up[n] = Up(t, up[n - 1]))
      /\ \A n \in 0..Size : up[n] \in t.live \cup {None}
  BY AncestorSteps, AncestorsLive
<1>2. Bad = {}
  <2>1. SUFFICES ASSUME Bad # {} PROVE FALSE
    OBVIOUS
  <2>2. PICK n \in Bad : \A m \in Bad : n <= m
    <3>1. Bad \subseteq Nat
      OBVIOUS
    <3> HIDE DEF Bad
    <3>. QED
      BY <2>1, <3>1, LeastExists
  <2> HIDE DEF up
  <2>3. n \in 1..Size /\ n - 1 \in 0..Size /\ n - 1 \notin Bad
    BY <1>1, <2>2, SizeType
  <2>4. up[n - 1] \in t.live /\ up[n] = t.parent[up[n - 1]]
    BY <1>1, <2>2, <2>3 DEF Up
  <2>5. Anc(t, up[n - 1]) \subseteq Anc(t, g) /\ Anc(t, up[n - 1]) = {up[n - 1]} \cup Anc(t, up[n])
    BY <2>3, <2>4, AncestorsUnfold, ParentLive
  <2>. QED
    BY <2>2, <2>5
<1>3. PICK n \in 0..Size : h = up[n] /\ h # None
  BY AncestorSet
<1>. QED
  BY <1>2, <1>3

LEMMA AncestorsComparable ==
  ASSUME NEW t, Sound(t), NEW g \in t.live, NEW h \in Anc(t, g), NEW k \in Anc(t, g)
  PROVE  h \in Anc(t, k) \/ k \in Anc(t, h)
<1> DEFINE up == Access!Ancestor(t, g)
           Related(a) == h \in Anc(t, a) \/ a \in Anc(t, h)
           Bad == {n \in 0..Size : up[n] # None /\ ~ Related(up[n])}
<1>1. up[0] = g /\ (\A n \in 1..Size : up[n] = Up(t, up[n - 1]))
      /\ \A n \in 0..Size : up[n] \in t.live \cup {None}
  BY AncestorSteps, AncestorsLive
<1>2. Bad = {}
  <2>1. SUFFICES ASSUME Bad # {} PROVE FALSE
    OBVIOUS
  <2>2. PICK n \in Bad : \A m \in Bad : n <= m
    <3>1. Bad \subseteq Nat
      OBVIOUS
    <3> HIDE DEF Bad
    <3>. QED
      BY <2>1, <3>1, LeastExists
  <2> HIDE DEF up
  <2>3. n \in 1..Size /\ n - 1 \in 0..Size /\ n - 1 \notin Bad
    BY <1>1, <2>2, SizeType
  <2>4. up[n - 1] \in t.live /\ up[n - 1] # None /\ up[n] = t.parent[up[n - 1]] /\ up[n] \in t.live
    BY <1>1, <2>2, <2>3, ParentLive DEF Up
  <2>5. Related(up[n - 1])
    BY <2>3, <2>4
  <2>6. Anc(t, up[n - 1]) = {up[n - 1]} \cup Anc(t, up[n]) /\ up[n] \in Anc(t, up[n])
    BY <2>4, AncestorsUnfold
  <2>7. CASE h \in Anc(t, up[n - 1])
    BY <2>2, <2>6, <2>7
  <2>8. CASE up[n - 1] \in Anc(t, h)
    <3>1. h \in t.live
      BY AncestorsAreLive
    <3>. QED
      BY <2>2, <2>6, <2>8, <3>1, AncestorsOfAncestor
  <2>. QED
    BY <2>5, <2>7, <2>8
<1>3. PICK n \in 0..Size : k = up[n] /\ k # None
  BY AncestorSet
<1>. QED
  BY <1>2, <1>3

(* How far a group is from its root.                                        *)
RootAt(t, g) == {n \in 0..Size : Access!Ancestor(t, g)[n] = None}

Level(t, g) == CHOOSE n \in RootAt(t, g) : \A k \in RootAt(t, g) : n <= k

LEMMA LevelFacts ==
  ASSUME NEW t, Sound(t), NEW g \in t.live \cup {None}
  PROVE  /\ Level(t, g) \in 0..Size /\ Access!Ancestor(t, g)[Level(t, g)] = None
         /\ \A n \in 0..Size : Access!Ancestor(t, g)[n] = None => Level(t, g) <= n
<1>1. RootAt(t, g) \subseteq Nat /\ RootAt(t, g) # {}
  BY AncestorsEnd, SizeType DEF RootAt
<1>2. Level(t, g) \in RootAt(t, g) /\ \A k \in RootAt(t, g) : Level(t, g) <= k
  BY <1>1, LeastChosen DEF Level
<1>. QED
  BY <1>2 DEF RootAt

LEMMA LevelUp ==
  ASSUME NEW t, Sound(t), NEW g \in t.live
  PROVE  Level(t, t.parent[g]) < Level(t, g)
<1> DEFINE up == Access!Ancestor(t, g)
           over == Access!Ancestor(t, t.parent[g])
           n == Level(t, g)
           m == Level(t, t.parent[g])
<1>1. n \in 0..Size /\ up[n] = None /\ up[0] = g /\ g # None
  BY LevelFacts, AncestorSteps, ParentLive
<1>2. m \in 0..Size /\ \A k \in 0..Size : over[k] = None => m <= k
  BY LevelFacts, ParentLive
<1>3. n - 1 \in 0..Size /\ n - 1 # Size /\ (n - 1) + 1 = n
  BY <1>1, SizeType
<1>4. over[n - 1] = up[n]
  <2>1. \A k \in 0..Size : k # Size => over[k] = up[k + 1]
    BY <1>1, AncestorShift
  <2> HIDE DEF up, over, n, m
  <2>. QED
    BY <1>3, <2>1
<1> HIDE DEF up, over, n, m
<1>5. m <= n - 1
  BY <1>1, <1>2, <1>3, <1>4
<1>6. m < n
  BY <1>1, <1>2, <1>5, SizeType
<1>. QED
  BY <1>6 DEF m, n

LEMMA LevelAbove ==
  ASSUME NEW t, Sound(t), NEW g \in t.live, NEW h \in Anc(t, g), h # g
  PROVE  Level(t, h) < Level(t, g)
<1> DEFINE up == Access!Ancestor(t, g)
           Bad == {n \in 0..Size : up[n] # None /\ up[n] # g /\ ~ (Level(t, up[n]) < Level(t, g))}
<1>1. up[0] = g /\ (\A n \in 1..Size : up[n] = Up(t, up[n - 1]))
      /\ \A n \in 0..Size : up[n] \in t.live \cup {None}
  BY AncestorSteps, AncestorsLive
<1>2. Bad = {}
  <2>1. SUFFICES ASSUME Bad # {} PROVE FALSE
    OBVIOUS
  <2>2. PICK n \in Bad : \A m \in Bad : n <= m
    <3>1. Bad \subseteq Nat
      OBVIOUS
    <3> HIDE DEF Bad
    <3>. QED
      BY <2>1, <3>1, LeastExists
  <2> HIDE DEF up
  <2>3. n \in 1..Size /\ n - 1 \in 0..Size /\ n - 1 \notin Bad
    BY <1>1, <2>2, SizeType
  <2>4. up[n - 1] \in t.live /\ up[n - 1] # None /\ up[n] = t.parent[up[n - 1]]
        /\ up[n] \in t.live
    BY <1>1, <2>2, <2>3, ParentLive DEF Up
  <2>5. Level(t, up[n]) < Level(t, up[n - 1])
    BY <2>4, LevelUp
  <2>6. Level(t, up[n]) \in Nat /\ Level(t, up[n - 1]) \in Nat /\ Level(t, g) \in Nat
    BY <2>4, LevelFacts
  <2>7. up[n - 1] = g \/ Level(t, up[n - 1]) < Level(t, g)
    BY <2>3, <2>4
  <2>. QED
    BY <2>2, <2>5, <2>6, <2>7
<1>3. PICK n \in 0..Size : h = up[n] /\ h # None
  BY AncestorSet
<1>. QED
  BY <1>2, <1>3

(* The child of an ancestor on the way to it.                               *)
LEMMA ChildTowards ==
  ASSUME NEW t, Sound(t), NEW g \in t.live, NEW h \in Anc(t, g), h # g
  PROVE  \E c \in t.live : t.parent[c] = h /\ c \in Anc(t, g)
<1> DEFINE up == Access!Ancestor(t, g)
<1>1. up[0] = g /\ (\A n \in 1..Size : up[n] = Up(t, up[n - 1]))
      /\ \A n \in 0..Size : up[n] \in t.live \cup {None}
  BY AncestorSteps, AncestorsLive
<1>2. PICK n \in 0..Size : h = up[n] /\ h # None
  BY AncestorSet
<1>3. n \in 1..Size /\ n - 1 \in 0..Size
  BY <1>1, <1>2, SizeType
<1>4. h = Up(t, up[n - 1]) /\ up[n - 1] # None
  BY <1>1, <1>2, <1>3 DEF Up
<1>5. up[n - 1] \in t.live /\ up[n - 1] \in Anc(t, g)
  BY <1>1, <1>3, <1>4, AncestorSet
<1>. QED
  BY <1>4, <1>5 DEF Up

(* Every group is below a root.                                             *)
LEMMA RootAbove ==
  ASSUME NEW t, Sound(t), NEW g \in t.live
  PROVE  \E r \in Anc(t, g) : r \in t.live /\ t.parent[r] = None
<1> DEFINE S == {Level(t, h) : h \in Anc(t, g)}
<1>1. g \in Anc(t, g) /\ Anc(t, g) \subseteq t.live
  BY AncestorsUnfold, AncestorsAreLive
<1>2. S \subseteq Nat /\ S # {}
  BY <1>1, LevelFacts
<1>3. PICK n \in S : \A m \in S : n <= m
  <2> HIDE DEF S
  <2>. QED
    BY <1>2, LeastExists
<1>4. PICK r \in Anc(t, g) : n = Level(t, r)
  BY <1>3
<1>5. r \in t.live
  BY <1>1
<1>6. ASSUME t.parent[r] # None PROVE FALSE
  <2>1. t.parent[r] \in t.live /\ t.parent[r] \in Anc(t, t.parent[r])
    BY <1>5, <1>6, ParentLive, AncestorsUnfold
  <2>2. t.parent[r] \in Anc(t, g)
    BY <1>5, <2>1, AncestorsUnfold, AncestorsOfAncestor
  <2>3. Level(t, t.parent[r]) < Level(t, r) /\ Level(t, r) \in Nat /\ Level(t, t.parent[r]) \in Nat
    BY <1>5, <2>1, LevelUp, LevelFacts
  <2>. QED
    BY <1>3, <1>4, <2>2, <2>3
<1>. QED
  BY <1>5, <1>6

-----------------------------------------------------------------------------
(***************************************************************************)
(* find_groups.                                                             *)
(***************************************************************************)
LEMMA FindTrees ==
  /\ \A t, g, h : Find!IsGroup(t, g, h) <=> h \in Anc(t, g)
  /\ \A t, g, e : Find!PathMatched(t, g, e) <=> \A h \in Anc(t, g) : Find!Contain(t, h, e)
  /\ \A t : Find!Acyclic(t) <=> Access!Acyclic(t)
  /\ Find!Tree = Access!Tree
BY SameTrees DEF Anc, Find!IsGroup, Find!PathMatched

LEMMA PathUnfold ==
  ASSUME NEW t, Sound(t), NEW g \in t.live, NEW e
  PROVE  /\ Find!PathMatched(t, g, e) <=>
              Find!Contain(t, g, e) /\ (t.parent[g] = None \/ Find!PathMatched(t, t.parent[g], e))
         /\ Find!PathMatched(t, g, e) => \A h \in Anc(t, g) : Find!PathMatched(t, h, e)
<1>1. Anc(t, g) = {g} \cup Anc(t, t.parent[g]) /\ Anc(t, None) = {}
  BY AncestorsUnfold, AncestorsOfNoGroup
<1>2. \A h \in Anc(t, g) : Anc(t, h) \subseteq Anc(t, g)
  BY AncestorsOfAncestor
<1>. QED
  BY <1>1, <1>2, FindTrees

(* No group below a deepest one contains the email.                         *)
LEMMA DeepestIsDeep ==
  ASSUME NEW t, Sound(t), NEW e, NEW m \in Find!MatchedGroups(t, e),
         NEW u \in t.live, Find!PathMatched(t, u, e), m \in Anc(t, u)
  PROVE  u = m
<1> SUFFICES ASSUME u # m PROVE FALSE
  OBVIOUS
<1>1. PICK c \in t.live : t.parent[c] = m /\ c \in Anc(t, u)
  BY ChildTowards
<1>2. Find!Contain(t, c, e) /\ c \in Find!Children(t, m)
  BY <1>1, FindTrees DEF Find!Children
<1>. QED
  BY <1>2 DEF Find!MatchedGroups

Matched(s, t, e) ==
  /\ \A i \in DOMAIN s : Find!PathMatched(t, s[i], e)
  /\ \A i, j \in DOMAIN s : i # j => s[j] \notin Anc(t, s[i])

TwoRoots(t, e) ==
  \E g, h \in Find!Roots(t) : g # h /\ Find!Contain(t, g, e) /\ Find!Contain(t, h, e)

FindShapes ==
  /\ Sound(forest) /\ forest \in Hierarchies /\ user \in Emails
  /\ queue \in Seq(forest.live) /\ found \in Seq(forest.live)
  /\ findPc \in {"run", "done", "error"}

(* A group that the email is in at the deepest is found, or the loop has    *)
(* still to visit it, a group above it or a child of it.                    *)
Reached(m) ==
  \/ m \in Elements(found)
  \/ \E i \in DOMAIN queue : queue[i] \in Anc(forest, m) \/ forest.parent[queue[i]] = m

(* The parents of the groups to visit contain the email.                    *)
Expects(q) == forest.parent[q] # None => Find!PathMatched(forest, forest.parent[q], user)

FindInv ==
  which = "groups" =>
    /\ FindShapes
    /\ Matched(found, forest, user)
    /\ \A i \in DOMAIN queue : Expects(queue[i])
    /\ findPc = "run" => \A m \in Find!MatchedGroups(forest, user) : Reached(m)
    /\ findPc = "done" => Find!MatchedGroups(forest, user) \subseteq Elements(found)
    /\ findPc = "error" => TwoRoots(forest, user)

(* _add_group.                                                              *)
LEMMA LastStop ==
  ASSUME NEW S, NEW n \in Nat, S \subseteq 1..n, S # {}
  PROVE  (CHOOSE i \in S : \A j \in S : j <= i) \in S
<1> DEFINE T == {n - i : i \in S}
<1>1. T \subseteq Nat /\ T # {}
  <2>1. \A i \in S : n - i \in Nat
    OBVIOUS
  <2>. QED
    BY <2>1
<1>2. PICK k \in T : \A m \in T : k <= m
  <2> HIDE DEF T
  <2>. QED
    BY <1>1, LeastExists
<1>3. PICK i \in S : k = n - i
  BY <1>2
<1>4. \A j \in S : j <= i
  <2> SUFFICES ASSUME NEW j \in S PROVE j <= i
    OBVIOUS
  <2>1. n - j \in T
    OBVIOUS
  <2>2. n - i <= n - j
    BY <1>2, <1>3, <2>1
  <2>3. i \in Nat /\ j \in Nat
    OBVIOUS
  <2>. QED
    BY <2>2, <2>3
<1>. QED
  BY <1>4

LEMMA AddGroupStep ==
  ASSUME FindShapes, Matched(found, forest, user), NEW g \in forest.live,
         Find!PathMatched(forest, g, user), Find!AddGroup(g)
  PROVE  /\ found' \in Seq(forest.live) /\ Matched(found', forest, user)
         /\ \/ /\ findPc' = findPc
               /\ \A m \in Find!MatchedGroups(forest, user) :
                    m \in Elements(found) \/ m = g => m \in Elements(found')
            \/ findPc' = "error" /\ TwoRoots(forest, user)
<1> DEFINE last == CHOOSE i \in Find!StopsAt(g) : \A j \in Find!StopsAt(g) : j <= i
<1>1. found \in Seq(forest.live) /\ Sound(forest) /\ Len(found) \in Nat /\ DOMAIN found = 1..Len(found)
      /\ g # None
  BY ParentLive DEF FindShapes
<1>2. /\ \A i : Find!Covers(i, g) <=> g \in Anc(forest, found[i])
      /\ \A i : Find!Replaces(i, g) <=> /\ ~ Find!Covers(i, g) /\ forest.parent[g] # None
                                        /\ found[i] \in Anc(forest, forest.parent[g])
      /\ \A i : Find!Crashes(i, g) <=> ~ Find!Covers(i, g) /\ forest.parent[g] = None
  BY FindTrees DEF Find!Covers, Find!Replaces, Find!Crashes
<1>3. Anc(forest, g) = {g} \cup Anc(forest, forest.parent[g])
  BY <1>1, AncestorsUnfold
<1>4. \A i \in DOMAIN found : found[i] \in forest.live /\ Find!PathMatched(forest, found[i], user)
  BY <1>1 DEF Matched
<1>5. Find!StopsAt(g) # {} => last \in DOMAIN found
  <2>1. Find!StopsAt(g) \subseteq 1..Len(found)
    BY <1>1 DEF Find!StopsAt
  <2>2. Find!StopsAt(g) # {} => last \in Find!StopsAt(g)
    BY <1>1, <2>1, LastStop
  <2>. QED
    BY <1>1, <2>1, <2>2
<1>6. CASE Find!StopsAt(g) = {} /\ found' = Append(found, g) /\ findPc' = findPc
  <2>1. \A i \in DOMAIN found : g \notin Anc(forest, found[i]) /\ found[i] \notin Anc(forest, g)
    <3> SUFFICES ASSUME NEW i \in DOMAIN found
                 PROVE  g \notin Anc(forest, found[i]) /\ found[i] \notin Anc(forest, g)
      OBVIOUS
    <3>1. ~ Find!Covers(i, g) /\ ~ Find!Replaces(i, g) /\ ~ Find!Crashes(i, g)
      BY <1>6 DEF Find!StopsAt
    <3>2. found[i] # g
      <4>1. found[i] \in Anc(forest, found[i])
        BY <1>1, <1>4, AncestorsUnfold
      <4>. QED
        BY <1>2, <3>1, <4>1
    <3>. QED
      BY <1>2, <1>3, <3>1, <3>2
  <2>2. /\ found' \in Seq(forest.live) /\ DOMAIN found' = 1..(Len(found) + 1)
        /\ found'[Len(found) + 1] = g /\ \A i \in DOMAIN found : found'[i] = found[i]
    BY <1>1, <1>6
  <2>3. \A i \in DOMAIN found' : i \in DOMAIN found \/ i = Len(found) + 1
    BY <1>1, <2>2
  <2>4. Matched(found', forest, user)
    BY <2>1, <2>2, <2>3 DEF Matched
  <2>5. g \in Elements(found') /\ Elements(found) \subseteq Elements(found')
    BY <1>1, <2>2 DEF Elements
  <2>. QED
    BY <1>6, <2>2, <2>4, <2>5
<1>7. CASE Find!StopsAt(g) # {} /\ Find!Covers(last, g) /\ UNCHANGED <<found, findPc>>
  <2>1. g \in Anc(forest, found[last]) /\ last \in DOMAIN found
    BY <1>2, <1>5, <1>7
  <2>2. ASSUME g \in Find!MatchedGroups(forest, user) PROVE g \in Elements(found)
    <3>1. found[last] = g
      BY <1>1, <1>4, <2>1, <2>2, DeepestIsDeep
    <3>. QED
      BY <2>1, <3>1 DEF Elements
  <2>. QED
    BY <1>1, <1>7, <2>2
<1>8. CASE /\ Find!StopsAt(g) # {} /\ Find!Replaces(last, g)
           /\ found' = [found EXCEPT ![last] = g] /\ findPc' = findPc
  <2>1. found[last] \in Anc(forest, g) /\ last \in DOMAIN found
        /\ ~ (g \in Anc(forest, found[last]))
    BY <1>2, <1>3, <1>5, <1>8
  <2>2. /\ found' \in Seq(forest.live) /\ DOMAIN found' = DOMAIN found /\ found'[last] = g
        /\ \A i \in DOMAIN found : i # last => found'[i] = found[i]
    <3>1. found' = [found EXCEPT ![last] = g] /\ last \in 1..Len(found)
      BY <1>1, <1>8, <2>1
    <3> HIDE DEF last
    <3>2. found \in [1..Len(found) -> forest.live]
      BY <1>1
    <3>3. found' \in [1..Len(found) -> forest.live]
      BY <3>1, <3>2
    <3>4. found' \in Seq(forest.live)
      BY <1>1, <3>3
    <3>. QED
      BY <1>1, <3>1, <3>2, <3>3, <3>4
  <2>3. ASSUME NEW i \in DOMAIN found, i # last
        PROVE  g \notin Anc(forest, found[i]) /\ found[i] \notin Anc(forest, g)
    <3>1. found[last] \notin Anc(forest, found[i]) /\ found[i] \notin Anc(forest, found[last])
      BY <2>1, <2>3 DEF Matched
    <3>2. g \in Anc(forest, found[i]) => Anc(forest, g) \subseteq Anc(forest, found[i])
      BY <1>1, <1>4, AncestorsOfAncestor
    <3>3. found[i] \in Anc(forest, g) => found[i] \in Anc(forest, found[last]) \/ found[last] \in Anc(forest, found[i])
      BY <1>1, <2>1, AncestorsComparable
    <3>. QED
      BY <2>1, <3>1, <3>2, <3>3
  <2>4. Matched(found', forest, user)
    <3> HIDE DEF last
    <3>. QED
      BY <2>2, <2>3 DEF Matched
  <2>5. ASSUME NEW m \in Find!MatchedGroups(forest, user), m \in Elements(found)
        PROVE  m \in Elements(found')
    <3>1. PICK i \in DOMAIN found : m = found[i]
      BY <2>5 DEF Elements
    <3>2. i # last
      <4>1. SUFFICES ASSUME i = last PROVE FALSE
        OBVIOUS
      <4>2. m \in Anc(forest, g)
        BY <2>1, <3>1, <4>1
      <4>3. g = m
        BY <1>1, <4>2, DeepestIsDeep
      <4>. QED
        BY <1>1, <2>1, <3>1, <4>1, <4>3, AncestorsUnfold
    <3>. QED
      BY <2>2, <3>1, <3>2 DEF Elements
  <2>6. g \in Elements(found')
    BY <2>1, <2>2 DEF Elements
  <2>. QED
    BY <1>8, <2>2, <2>4, <2>5, <2>6
<1>9. CASE Find!StopsAt(g) # {} /\ Find!Crashes(last, g) /\ findPc' = "error" /\ UNCHANGED found
  <2>1. g \notin Anc(forest, found[last]) /\ forest.parent[g] = None /\ last \in DOMAIN found
    BY <1>2, <1>5, <1>9
  <2>2. PICK r \in Anc(forest, found[last]) : r \in forest.live /\ forest.parent[r] = None
    BY <1>1, <1>4, <2>1, RootAbove
  <2>3. Find!Contain(forest, r, user) /\ Find!Contain(forest, g, user)
    <3>1. Find!Contain(forest, r, user)
      BY <1>4, <2>1, <2>2, FindTrees
    <3>. QED
      BY <1>1, <3>1, PathUnfold
  <2>4. TwoRoots(forest, user)
    BY <2>1, <2>2, <2>3 DEF TwoRoots, Find!Roots
  <2>. QED
    BY <1>1, <1>9, <2>4
<1>. QED
  BY <1>6, <1>7, <1>8, <1>9 DEF Find!AddGroup

LEMMA SameOrders == \A S : Find!SetToSeqs(S) = Access!SetToSeqs(S)
BY DEF Find!SetToSeqs, Access!SetToSeqs, Find!Cardinality, Access!Cardinality,
   Find!IsFiniteSet, Access!IsFiniteSet

LEMMA ElementsOfConcat ==
  ASSUME NEW S, NEW s \in Seq(S), NEW t \in Seq(S)
  PROVE  s \o t \in Seq(S) /\ Elements(s \o t) = Elements(s) \cup Elements(t)
<1>1. /\ s \o t \in Seq(S) /\ Len(s) \in Nat /\ Len(t) \in Nat
      /\ DOMAIN (s \o t) = 1..(Len(s) + Len(t)) /\ DOMAIN s = 1..Len(s) /\ DOMAIN t = 1..Len(t)
      /\ \A i \in 1..Len(s) : (s \o t)[i] = s[i]
      /\ \A i \in 1..Len(t) : (s \o t)[Len(s) + i] = t[i]
  OBVIOUS
<1>2. \A i \in 1..Len(s) : i \in 1..(Len(s) + Len(t))
  BY <1>1
<1>3. \A i \in 1..Len(t) : Len(s) + i \in 1..(Len(s) + Len(t))
  BY <1>1
<1>4. Elements(s) \cup Elements(t) \subseteq Elements(s \o t)
  BY <1>1, <1>2, <1>3 DEF Elements
<1>5. ASSUME NEW i \in 1..(Len(s) + Len(t)) PROVE (s \o t)[i] \in Elements(s) \cup Elements(t)
  <2>1. CASE i \in 1..Len(s)
    BY <1>1, <2>1 DEF Elements
  <2>2. CASE i \notin 1..Len(s)
    <3>1. i - Len(s) \in 1..Len(t) /\ Len(s) + (i - Len(s)) = i
      BY <1>1, <2>2
    <3>2. (s \o t)[i] = t[i - Len(s)]
      BY <1>1, <3>1
    <3>. QED
      BY <1>1, <3>1, <3>2 DEF Elements
  <2>. QED
    BY <2>1, <2>2
<1>6. Elements(s \o t) \subseteq Elements(s) \cup Elements(t)
  BY <1>1, <1>5 DEF Elements
<1>. QED
  BY <1>1, <1>4, <1>6

LEMMA FindInit ==
  ASSUME Init PROVE FindInv
<1> SUFFICES ASSUME which = "groups"
             PROVE  /\ FindShapes /\ Matched(found, forest, user) /\ findPc = "run"
                    /\ \A i \in DOMAIN queue : Expects(queue[i])
                    /\ \A m \in Find!MatchedGroups(forest, user) : Reached(m)
  BY DEF FindInv
<1>1. Find!Init
  BY DEF Init
<1>2. Sound(forest) /\ forest \in Hierarchies /\ user \in Emails
  BY <1>1, FindTrees, DecisionsAssumption DEF Find!Init, Sound
<1>3. Find!Roots(forest) \subseteq forest.live /\ forest.live \subseteq Groups
  BY <1>2 DEF Find!Roots, Sound, Access!Tree
<1>4. IsFiniteSet(Find!Roots(forest))
  BY <1>3, FS_Subset, DecisionsAssumption
<1>5. queue \in Access!SetToSeqs(Find!Roots(forest))
  BY <1>1, SameOrders DEF Find!Init
<1>6. queue \in Seq(Find!Roots(forest)) /\ Elements(queue) = Find!Roots(forest)
  BY <1>4, <1>5, OrdersAll
<1>7. queue \in Seq(forest.live)
  <2>1. \A S, T : S \subseteq T => Seq(S) \subseteq Seq(T)
    OBVIOUS
  <2>. QED
    BY <1>3, <1>6, <2>1
<1>8. FindShapes /\ findPc = "run" /\ Matched(found, forest, user)
  BY <1>1, <1>2, <1>7 DEF FindShapes, Find!Init, Matched
<1>9. \A i \in DOMAIN queue : Expects(queue[i])
  BY <1>6 DEF Expects, Elements, Find!Roots
<1>10. ASSUME NEW m \in Find!MatchedGroups(forest, user) PROVE Reached(m)
  <2>1. m \in forest.live
    BY DEF Find!MatchedGroups
  <2>2. PICK r \in Anc(forest, m) : r \in forest.live /\ forest.parent[r] = None
    BY <1>2, <2>1, RootAbove
  <2>3. r \in Elements(queue)
    BY <1>6, <2>2 DEF Find!Roots
  <2>. QED
    BY <2>2, <2>3 DEF Reached, Elements
<1>. QED
  BY <1>8, <1>9, <1>10

LEMMA HeadAndRest ==
  ASSUME FindShapes, queue # <<>>
  PROVE  /\ Head(queue) \in forest.live /\ Head(queue) = queue[1] /\ 1 \in DOMAIN queue
         /\ Tail(queue) \in Seq(forest.live)
         /\ Elements(queue) = {Head(queue)} \cup Elements(Tail(queue))
<1>1. queue \in Seq(forest.live)
  BY DEF FindShapes
<1>2. Len(queue) \in Nat /\ Len(queue) # 0 /\ DOMAIN queue = 1..Len(queue)
  BY <1>1, EmptySeq
<1>. QED
  BY <1>1, <1>2, ElementsOfTail

(* The conditions on the queue say something of its elements.               *)
LEMMA QueueElements ==
  /\ (\A i \in DOMAIN queue : Expects(queue[i])) <=> \A q \in Elements(queue) : Expects(q)
  /\ \A m : Reached(m) <=>
       m \in Elements(found) \/ \E q \in Elements(queue) : q \in Anc(forest, m) \/ forest.parent[q] = m
BY DEF Elements, Reached

(* A step that visits the first group of the queue.                         *)
LEMMA VisitStep ==
  ASSUME FindInv, which = "groups", findPc = "run", queue # <<>>,
         UNCHANGED <<which, forest, user>>, queue' \in Seq(forest.live),
         \A q \in Elements(queue') : q \in Elements(Tail(queue)) \/ Expects(q),
         Elements(Tail(queue)) \subseteq Elements(queue'),
         found' \in Seq(forest.live), Matched(found', forest, user),
         \/ findPc' = "error" /\ TwoRoots(forest, user)
         \/ /\ findPc' = "run"
            /\ \A m \in Find!MatchedGroups(forest, user) :
                 m \in Elements(found) => m \in Elements(found')
            /\ \A m \in Find!MatchedGroups(forest, user) :
                 Head(queue) \in Anc(forest, m) \/ forest.parent[Head(queue)] = m =>
                   \/ m \in Elements(found')
                   \/ \E q \in Elements(queue') : q \in Anc(forest, m) \/ forest.parent[q] = m
  PROVE  FindInv'
<1>1. FindShapes /\ (\A q \in Elements(queue) : Expects(q))
      /\ \A m \in Find!MatchedGroups(forest, user) : Reached(m)
  BY QueueElements DEF FindInv
<1>2. Elements(queue) = {Head(queue)} \cup Elements(Tail(queue))
  BY <1>1, HeadAndRest
<1>3. FindShapes'
  BY <1>1 DEF FindShapes
<1>4. (Matched(found, forest, user))'
  OBVIOUS
<1>5. \A q \in Elements(queue)' : Expects(q)'
  <2>1. \A q \in Elements(queue') : Expects(q)
    BY <1>1, <1>2
  <2>. QED
    BY <2>1 DEF Expects, Elements
<1>6. (\A i \in DOMAIN queue : Expects(queue[i]))'
  BY <1>5 DEF Elements
<1>7. ASSUME findPc' = "run", NEW m \in Find!MatchedGroups(forest, user) PROVE Reached(m)'
  <2>1. \/ m \in Elements(found)
        \/ \E q \in Elements(queue) : q \in Anc(forest, m) \/ forest.parent[q] = m
    BY <1>1, QueueElements
  <2>2. \/ m \in Elements(found')
        \/ \E q \in Elements(queue') : q \in Anc(forest, m) \/ forest.parent[q] = m
    BY <1>2, <1>7, <2>1
  <2>. QED
    BY <2>2 DEF Reached, Elements
<1>8. (TwoRoots(forest, user))' <=> TwoRoots(forest, user)
  OBVIOUS
<1>. QED
  BY <1>3, <1>4, <1>6, <1>7, <1>8 DEF FindInv

LEMMA VisitInnerStep ==
  ASSUME FindInv, which = "groups", Find!VisitInner, UNCHANGED which
  PROVE  FindInv'
<1> DEFINE q == Head(queue)
           K == Find!Children(forest, q)
<1>1. FindShapes /\ queue # <<>> /\ findPc = "run" /\ Find!Contain(forest, q, user) /\ Sound(forest)
  BY DEF FindInv, Find!VisitInner, Find!Visiting, FindShapes
<1>2. UNCHANGED <<forest, user, found, findPc>>
  BY DEF Find!VisitInner
<1>3. q \in forest.live /\ q \in Elements(queue) /\ Tail(queue) \in Seq(forest.live)
  BY <1>1, HeadAndRest
<1>4. Find!PathMatched(forest, q, user)
  <2>1. Expects(q)
    BY <1>3, QueueElements DEF FindInv
  <2>. QED
    BY <1>1, <1>3, <2>1, PathUnfold DEF Expects
<1>5. K \subseteq forest.live /\ IsFiniteSet(K)
  <2>1. forest.live \subseteq Groups
    BY <1>1 DEF Sound, Access!Tree
  <2>2. K \subseteq forest.live
    BY DEF Find!Children
  <2> HIDE DEF K
  <2>. QED
    BY <2>1, <2>2, FS_Subset, DecisionsAssumption
<1>6. PICK s \in Access!SetToSeqs(K) : queue' = Tail(queue) \o s
  BY SameOrders DEF Find!VisitInner
<1>7. s \in Seq(K) /\ Elements(s) = K /\ s \in Seq(forest.live)
  <2>1. \A S, T : S \subseteq T => Seq(S) \subseteq Seq(T)
    OBVIOUS
  <2> HIDE DEF K
  <2>. QED
    BY <1>5, <1>6, OrdersAll, <2>1
<1>8. queue' \in Seq(forest.live) /\ Elements(queue') = Elements(Tail(queue)) \cup K
  <2> DEFINE rest == Tail(queue)
  <2>1. rest \in Seq(forest.live) /\ queue' = rest \o s
    BY <1>3, <1>6
  <2> HIDE DEF K, rest
  <2>2. rest \o s \in Seq(forest.live) /\ Elements(rest \o s) = Elements(rest) \cup Elements(s)
    BY <1>7, <2>1, ElementsOfConcat
  <2>3. Elements(rest) = Elements(Tail(queue))
    BY DEF rest
  <2>. QED
    BY <1>7, <2>1, <2>2, <2>3
<1>9. \A c \in K : Expects(c)
  BY <1>4 DEF Expects, Find!Children
<1>10. ASSUME NEW m \in Find!MatchedGroups(forest, user), q \in Anc(forest, m) \/ forest.parent[q] = m
       PROVE  \E c \in Elements(queue') : c \in Anc(forest, m) \/ forest.parent[c] = m
  <2>1. m \in forest.live /\ \A h \in Find!Children(forest, m) : ~ Find!Contain(forest, h, user)
    BY DEF Find!MatchedGroups
  <2>2. forest.parent[q] # m
    BY <1>1, <1>3, <2>1 DEF Find!Children
  <2>3. CASE q = m
    <3>1. PICK c \in K : TRUE
      BY DEF Find!VisitInner
    <3>. QED
      BY <1>8, <2>3, <3>1 DEF Find!Children
  <2>4. CASE q # m
    <3>1. PICK c \in forest.live : forest.parent[c] = q /\ c \in Anc(forest, m)
      BY <1>1, <1>10, <2>1, <2>2, <2>4, ChildTowards
    <3>. QED
      BY <1>8, <3>1 DEF Find!Children
  <2>. QED
    BY <2>3, <2>4
<1>11. found' \in Seq(forest.live) /\ Matched(found', forest, user) /\ Elements(found') = Elements(found)
  BY <1>1, <1>2 DEF FindInv, FindShapes
<1>. QED
  BY <1>1, <1>2, <1>8, <1>9, <1>10, <1>11, VisitStep

LEMMA VisitLeafStep ==
  ASSUME FindInv, which = "groups", Find!VisitLeaf, UNCHANGED which
  PROVE  FindInv'
<1> DEFINE q == Head(queue)
<1>1. FindShapes /\ queue # <<>> /\ findPc = "run" /\ Find!Contain(forest, q, user)
      /\ Find!Children(forest, q) = {} /\ Sound(forest) /\ Matched(found, forest, user)
  BY DEF FindInv, Find!VisitLeaf, Find!Visiting, FindShapes
<1>2. UNCHANGED <<forest, user>> /\ queue' = Tail(queue) /\ Find!AddGroup(q)
  BY DEF Find!VisitLeaf
<1>3. q \in forest.live /\ q \in Elements(queue) /\ Tail(queue) \in Seq(forest.live)
  BY <1>1, HeadAndRest
<1>4. Find!PathMatched(forest, q, user)
  <2>1. Expects(q)
    BY <1>3, QueueElements DEF FindInv
  <2>. QED
    BY <1>1, <1>3, <2>1, PathUnfold DEF Expects
<1>5. /\ found' \in Seq(forest.live) /\ Matched(found', forest, user)
      /\ \/ /\ findPc' = findPc
            /\ \A m \in Find!MatchedGroups(forest, user) :
                 m \in Elements(found) \/ m = q => m \in Elements(found')
         \/ findPc' = "error" /\ TwoRoots(forest, user)
  BY <1>1, <1>2, <1>3, <1>4, AddGroupStep
<1>6. ASSUME NEW m \in Find!MatchedGroups(forest, user), q \in Anc(forest, m) \/ forest.parent[q] = m
      PROVE  m = q
  <2>1. m \in forest.live /\ \A h \in Find!Children(forest, m) : ~ Find!Contain(forest, h, user)
    BY DEF Find!MatchedGroups
  <2>2. forest.parent[q] # m
    BY <1>1, <1>3, <2>1 DEF Find!Children
  <2>3. ASSUME q # m PROVE FALSE
    <3>1. PICK c \in forest.live : forest.parent[c] = q /\ c \in Anc(forest, m)
      BY <1>1, <1>6, <2>1, <2>2, <2>3, ChildTowards
    <3>. QED
      BY <1>1, <3>1 DEF Find!Children
  <2>. QED
    BY <2>3
<1>. QED
  BY <1>1, <1>2, <1>3, <1>5, <1>6, VisitStep

LEMMA VisitUnmatchedStep ==
  ASSUME FindInv, which = "groups", Find!VisitUnmatched, UNCHANGED which
  PROVE  FindInv'
<1> DEFINE q == Head(queue)
           p == forest.parent[q]
<1>1. FindShapes /\ queue # <<>> /\ findPc = "run" /\ ~ Find!Contain(forest, q, user)
      /\ Sound(forest) /\ Matched(found, forest, user)
  BY DEF FindInv, Find!VisitUnmatched, Find!Visiting, FindShapes
<1>2. UNCHANGED <<forest, user>> /\ queue' = Tail(queue)
      /\ IF p # None THEN Find!AddGroup(p) ELSE UNCHANGED <<found, findPc>>
  BY DEF Find!VisitUnmatched
<1>3. q \in forest.live /\ q \in Elements(queue) /\ Tail(queue) \in Seq(forest.live)
  BY <1>1, HeadAndRest
<1>4. p # None => p \in forest.live /\ Find!PathMatched(forest, p, user)
  <2>1. Expects(q)
    BY <1>3, QueueElements DEF FindInv
  <2>. QED
    BY <1>1, <1>3, <2>1, ParentLive DEF Expects
<1>5. /\ found' \in Seq(forest.live) /\ Matched(found', forest, user)
      /\ \/ /\ findPc' = findPc
            /\ \A m \in Find!MatchedGroups(forest, user) :
                 m \in Elements(found) \/ m = p => m \in Elements(found')
         \/ findPc' = "error" /\ TwoRoots(forest, user)
  <2>1. CASE p # None
    <3>1. p \in forest.live /\ Find!PathMatched(forest, p, user) /\ Find!AddGroup(p)
      BY <1>2, <1>4, <2>1
    <3> HIDE DEF p
    <3>. QED
      BY <1>1, <3>1, AddGroupStep
  <2>2. CASE p = None
    <3>1. \A m \in Find!MatchedGroups(forest, user) : m # p
      BY <1>1, <2>2, ParentLive DEF Find!MatchedGroups
    <3>2. found \in Seq(forest.live) /\ UNCHANGED <<found, findPc>>
      BY <1>1, <1>2, <2>2 DEF FindShapes
    <3> HIDE DEF p
    <3>. QED
      BY <1>1, <3>1, <3>2
  <2>. QED
    BY <2>1, <2>2
<1>6. ASSUME NEW m \in Find!MatchedGroups(forest, user), q \in Anc(forest, m) \/ forest.parent[q] = m
      PROVE  m = p
  <2>1. \A h \in Anc(forest, m) : Find!Contain(forest, h, user)
    BY FindTrees DEF Find!MatchedGroups
  <2>. QED
    BY <1>1, <1>6, <2>1
<1>. QED
  BY <1>1, <1>2, <1>3, <1>5, <1>6, VisitStep

LEMMA FinishStep ==
  ASSUME FindInv, which = "groups", Find!Finish, UNCHANGED which
  PROVE  FindInv'
<1>1. findPc = "run" /\ queue = <<>> /\ findPc' = "done" /\ UNCHANGED <<forest, user, queue, found>>
  BY DEF Find!Finish
<1>2. Elements(queue) = {}
  BY <1>1 DEF Elements
<1>3. Find!MatchedGroups(forest, user) \subseteq Elements(found)
  BY <1>1, <1>2, QueueElements DEF FindInv
<1>. QED
  BY <1>1, <1>3 DEF FindInv, FindShapes, Expects, Elements

LEMMA FindNext ==
  ASSUME FindInv, [Next]_unionVars PROVE FindInv'
<1>1. CASE which = "groups" /\ Find!Next /\ which' = which
  BY <1>1, VisitInnerStep, VisitLeafStep, VisitUnmatchedStep, FinishStep DEF Find!Next
<1>2. CASE which' # "groups"
  BY <1>2 DEF FindInv
<1>3. CASE which' = which /\ UNCHANGED findVars
  BY <1>3 DEF FindInv, findVars, FindShapes, Reached, Expects, Elements
<1>. QED
  BY <1>1, <1>2, <1>3 DEF Next, unionVars

LEMMA FindHolds == Spec => []FindInv
BY FindInit, FindNext, PTL DEF Spec

(* The groups an email belongs to are the deepest that contain it, each     *)
(* once, whatever the order the database returns the rows in, for every     *)
(* hierarchy that clean() accepts.                                          *)
THEOREM FindGroupsReturns == Spec => []ReturnsDeepestMatches
<1>1. ASSUME FindInv PROVE ReturnsDeepestMatches
  <2> SUFFICES ASSUME which = "groups"
               PROVE  Find!ReturnsDeepestMatches /\ Find!FoundGroupsUnrelated /\ Find!TypeOK
    BY DEF ReturnsDeepestMatches
  <2>1. FindShapes /\ Matched(found, forest, user) /\ Sound(forest) /\ found \in Seq(forest.live)
    BY <1>1 DEF FindInv, FindShapes
  <2>2. Find!TypeOK
    <3>1. \A S, T : S \subseteq T => Seq(S) \subseteq Seq(T)
      OBVIOUS
    <3>2. forest.live \subseteq Groups
      BY <2>1 DEF Sound, Access!Tree
    <3>. QED
      BY <2>1, <3>1, <3>2 DEF FindShapes, Find!TypeOK
  <2>3. Find!FoundGroupsUnrelated
    BY <2>1, FindTrees DEF Find!FoundGroupsUnrelated, Matched
  <2>4. ASSUME NEW i \in DOMAIN found, NEW j \in DOMAIN found, found[i] = found[j] PROVE i = j
    <3>1. found[i] \in forest.live
      BY <2>1
    <3>2. found[i] \in Anc(forest, found[i])
      BY <2>1, <3>1, AncestorsUnfold
    <3>. QED
      BY <2>1, <2>4, <3>2 DEF Matched
  <2>5. ASSUME findPc = "done" PROVE Elements(found) = Find!MatchedGroups(forest, user)
    <3>1. Find!MatchedGroups(forest, user) \subseteq Elements(found)
      BY <1>1, <2>5 DEF FindInv
    <3>2. ASSUME NEW i \in DOMAIN found PROVE found[i] \in Find!MatchedGroups(forest, user)
      <4> DEFINE u == found[i]
                 Below == {h \in forest.live : Find!PathMatched(forest, h, user) /\ u \in Anc(forest, h)}
                 T == {Size - Level(forest, h) : h \in Below}
      <4>1. u \in forest.live /\ Find!PathMatched(forest, u, user) /\ u \in Anc(forest, u)
        BY <2>1, AncestorsUnfold DEF Matched
      <4>2. T \subseteq Nat /\ T # {}
        <5>1. \A h \in forest.live : Size - Level(forest, h) \in Nat
          BY <2>1, LevelFacts, SizeType
        <5>2. u \in Below
          BY <4>1
        <5> HIDE DEF u
        <5>. QED
          BY <5>1, <5>2
      <4>3. PICK n \in T : \A m \in T : n <= m
        <5> HIDE DEF T
        <5>. QED
          BY <4>2, LeastExists
      <4>4. PICK h \in Below : n = Size - Level(forest, h)
        BY <4>3
      <4>5. ASSUME NEW k \in Below PROVE Level(forest, k) <= Level(forest, h)
        <5>1. Size - Level(forest, h) <= Size - Level(forest, k)
          BY <4>3, <4>4
        <5>2. Level(forest, h) \in Nat /\ Level(forest, k) \in Nat
          BY <2>1, LevelFacts, SizeType
        <5>. QED
          BY <5>1, <5>2, SizeType
      <4> HIDE DEF u
      <4>6. ASSUME NEW c \in Find!Children(forest, h), Find!Contain(forest, c, user) PROVE FALSE
        <5>1. c \in forest.live /\ forest.parent[c] = h /\ h \in forest.live /\ h # None
          BY <2>1, ParentLive DEF Find!Children
        <5>2. Find!PathMatched(forest, c, user)
          BY <2>1, <4>6, <5>1, PathUnfold
        <5>3. u \in Anc(forest, c)
          BY <2>1, <5>1, AncestorsUnfold
        <5>4. Level(forest, h) < Level(forest, c)
          BY <2>1, <5>1, LevelUp
        <5>5. Level(forest, c) \in Nat /\ Level(forest, h) \in Nat /\ Level(forest, c) <= Level(forest, h)
          BY <2>1, <4>5, <5>1, <5>2, <5>3, LevelFacts, SizeType
        <5>. QED
          BY <5>4, <5>5
      <4>7. h \in Find!MatchedGroups(forest, user)
        BY <4>6 DEF Find!MatchedGroups
      <4>8. PICK j \in DOMAIN found : found[j] = h
        BY <3>1, <4>7 DEF Elements
      <4>9. j = i
        BY <2>1, <4>8 DEF Matched, u
      <4>. QED
        BY <4>7, <4>8, <4>9
    <3>. QED
      BY <3>1, <3>2 DEF Elements
  <2>. QED
    BY <2>2, <2>3, <2>4, <2>5 DEF Find!ReturnsDeepestMatches, Elements
<1>. QED
  BY <1>1, FindHolds, PTL

(* The AttributeError of _add_group is for emails that belong to groups     *)
(* below two roots; a hierarchy under one public group never meets it.      *)
THEOREM FindGroupsFailsForTwoRoots == Spec => []FailsOnlyWithTwoRoots
<1>1. ASSUME FindInv PROVE FailsOnlyWithTwoRoots
  BY <1>1 DEF FindInv, TwoRoots, FailsOnlyWithTwoRoots, Find!FailsOnlyWithTwoRoots
<1>. QED
  BY <1>1, FindHolds, PTL

-----------------------------------------------------------------------------
(***************************************************************************)
(* Email patterns: all but "*" have an "@" before their last character.     *)
(***************************************************************************)
EmailChars == Letters \cup Others

Chars == EmailChars \cup {"*"}

Shaped(p, chars) ==
  /\ p \in Seq(chars \cup {"@"}) /\ Len(p) >= 2 /\ p[Len(p) - 1] = "@"
  /\ \A i \in 1..Len(p) : i # Len(p) - 1 => p[i] \in chars

LEMMA WordIsSeq ==
  ASSUME NEW S, NEW T, S \subseteq T, NEW m \in Nat, NEW f \in [1..m -> S]
  PROVE  f \in Seq(T) /\ Len(f) = m
<1>1. f \in [1..m -> T]
  OBVIOUS
<1>. QED
  BY <1>1

(* The characters of emails are neither of the two patterns give a meaning  *)
(* to.                                                                      *)
LEMMA LettersAssumption ==
  /\ "@" \notin Letters /\ "*" \notin Letters /\ "none" \notin Letters
  /\ "@" \notin EmailChars /\ "*" \notin EmailChars /\ "none" \notin EmailChars
  /\ Letters \subseteq EmailChars
  /\ MaxLocal \in Nat /\ MaxEmail \in Nat
BY DecisionsAssumption DEF EmailChars

LEMMA FollowedByOne ==
  ASSUME NEW T, NEW l \in Seq(T), NEW a \in Seq(T), Len(a) = 1, NEW m \in Nat, Len(l) = m
  PROVE  l \o a \in Seq(T) /\ Len(l \o a) = m + 1 /\ (l \o a)[m + 1] = a[1]
         /\ \A i \in 1..m : (l \o a)[i] = l[i]
BY ConcatProperties

LEMMA WordShape ==
  ASSUME NEW chars, "@" \notin chars, NEW last, last \subseteq chars, NEW n \in Nat,
         NEW l \in Patterns!Words(chars, 0, n), NEW d \in Patterns!Words(last, 1, 1)
  PROVE  /\ Shaped(l \o Patterns!At \o d, chars)
         /\ (l \o Patterns!At \o d)[Len(l \o Patterns!At \o d)] \in last
<1> DEFINE p == l \o Patterns!At \o d
<1>1. PICK m \in 0..n : l \in [1..m -> chars]
  BY DEF Patterns!Words
<1>2. d \in [1..1 -> last] /\ d \in [1..1 -> chars]
  BY DEF Patterns!Words
<1>3. l \in Seq(chars \cup {"@"}) /\ Len(l) = m /\ d \in Seq(chars \cup {"@"}) /\ Len(d) = 1
  <2>1. m \in Nat /\ 1 \in Nat /\ chars \subseteq chars \cup {"@"}
    BY <1>1
  <2>2. l \in Seq(chars \cup {"@"}) /\ Len(l) = m
    BY <1>1, <2>1, WordIsSeq
  <2>3. d \in Seq(chars \cup {"@"}) /\ Len(d) = 1
    BY <1>2, <2>1, WordIsSeq
  <2>. QED
    BY <2>2, <2>3
<1>4. Patterns!At \in Seq(chars \cup {"@"}) /\ Len(Patterns!At) = 1 /\ Patterns!At[1] = "@"
  BY DEF Patterns!At
<1>5. /\ l \o Patterns!At \in Seq(chars \cup {"@"}) /\ Len(l \o Patterns!At) = m + 1
      /\ (l \o Patterns!At)[m + 1] = "@"
      /\ \A i \in 1..m : (l \o Patterns!At)[i] = l[i]
  <2> DEFINE a == Patterns!At
             T == chars \cup {"@"}
  <2>1. l \in Seq(T) /\ a \in Seq(T) /\ Len(l) = m /\ Len(a) = 1 /\ a[1] = "@" /\ m \in Nat
    BY <1>1, <1>3, <1>4
  <2> HIDE DEF a, T
  <2>2. l \o a \in Seq(T) /\ Len(l \o a) = m + 1 /\ (l \o a)[m + 1] = "@"
        /\ \A i \in 1..m : (l \o a)[i] = l[i]
    BY <2>1, FollowedByOne
  <2>. QED
    BY <2>2 DEF a, T
<1>6. /\ p \in Seq(chars \cup {"@"}) /\ Len(p) = m + 2
      /\ p[m + 2] = d[1] /\ \A i \in 1..(m + 1) : p[i] = (l \o Patterns!At)[i]
  <2> DEFINE q == l \o Patterns!At
             T == chars \cup {"@"}
  <2>1. p = q \o d /\ q \in Seq(T) /\ d \in Seq(T) /\ Len(q) = m + 1 /\ Len(d) = 1 /\ m \in Nat
    BY <1>1, <1>3, <1>5
  <2> HIDE DEF p, q, T
  <2>2. p \in Seq(T) /\ Len(p) = m + 2 /\ p[m + 2] = d[1] /\ \A i \in 1..(m + 1) : p[i] = q[i]
    <3>1. q \o d \in Seq(T) /\ Len(q \o d) = (m + 1) + 1
          /\ \A i \in 1..(m + 1) + 1 : (q \o d)[i] = IF i <= m + 1 THEN q[i] ELSE d[i - (m + 1)]
      <4>1. q \o d \in Seq(T) /\ Len(q \o d) = Len(q) + Len(d)
            /\ \A i \in 1..Len(q) + Len(d) : (q \o d)[i] = IF i <= Len(q) THEN q[i] ELSE d[i - Len(q)]
        BY <2>1, ConcatProperties
      <4> DEFINE a == Len(q)
                 b == Len(d)
      <4>2. a = m + 1 /\ b = 1
        BY <2>1
      <4> HIDE DEF a, b
      <4>. QED
        BY <4>1, <4>2 DEF a, b
    <3>2. \A i \in 1..(m + 1) : i \in 1..(m + 1) + 1 /\ i <= m + 1
      BY <2>1
    <3>3. m + 2 \in 1..(m + 1) + 1 /\ ~ (m + 2 <= m + 1) /\ (m + 2) - (m + 1) = 1 /\ (m + 1) + 1 = m + 2
      BY <2>1
    <3>. QED
      BY <2>1, <3>1, <3>2, <3>3
  <2>. QED
    BY <2>2 DEF q, T
<1> HIDE DEF p
<1>7. \A i \in 1..(m + 2) : i \in 1..m \/ i = m + 1 \/ i = m + 2
  BY <1>1
<1>8. p[m + 1] = "@" /\ \A i \in 1..m : p[i] = l[i]
  BY <1>1, <1>5, <1>6
<1>9. Shaped(p, chars)
  BY <1>1, <1>2, <1>6, <1>7, <1>8 DEF Shaped
<1>10. p[Len(p)] \in last
  BY <1>2, <1>6
<1>. QED
  BY <1>9, <1>10 DEF p

LEMMA AtDomainParts ==
  ASSUME NEW L, NEW D, NEW p \in Patterns!AtDomain(L, D)
  PROVE  \E l \in L, d \in D : p = l \o Patterns!At \o d
BY DEF Patterns!AtDomain

LEMMA PatternShape ==
  ASSUME NEW p \in Patterns!Valid
  PROVE  IF p = <<"*">> THEN Patterns!IsAll(p)
         ELSE Shaped(p, Chars) /\ p[Len(p)] \in Letters \cup {"*"}
<1>1. p \in Patterns!Patterns
  BY DEF Patterns!Valid
<1>2. CASE p = <<"*">>
  BY <1>2 DEF Patterns!IsAll
<1>3. CASE p # <<"*">>
  <2>1. PICK l \in Patterns!Words(Chars, 0, MaxLocal), d \in Patterns!Words(Letters \cup {"*"}, 1, 1) :
          p = l \o Patterns!At \o d
    <3>1. p \in Patterns!AtDomain(Patterns!Words(Chars, 0, MaxLocal),
                                 Patterns!Words(Letters \cup {"*"}, 1, 1))
      BY <1>1, <1>3 DEF Patterns!Patterns, Chars, EmailChars
    <3>. QED
      BY <3>1, AtDomainParts
  <2>2. "@" \notin Chars /\ MaxLocal \in Nat /\ Letters \cup {"*"} \subseteq Chars
    BY LettersAssumption DEF Chars
  <2>. QED
    BY <1>3, <2>1, <2>2, WordShape
<1>. QED
  BY <1>2, <1>3

LEMMA EmailShape ==
  ASSUME NEW e \in Patterns!Addresses
  PROVE  Shaped(e, EmailChars)
<1>1. PICK l \in Patterns!Words(EmailChars, 0, MaxEmail), d \in Patterns!Words(Letters, 1, 1) :
        e = l \o Patterns!At \o d
  <2>1. e \in Patterns!AtDomain(Patterns!Words(EmailChars, 0, MaxEmail), Patterns!Words(Letters, 1, 1))
    BY DEF Patterns!Addresses, EmailChars
  <2>. QED
    BY <2>1, AtDomainParts
<1>. QED
  BY <1>1, WordShape, LettersAssumption

(* A domain is "@" and one character.                                       *)
LEMMA DomainShape ==
  ASSUME NEW p \in Patterns!Valid, Patterns!IsDomain(p)
  PROVE  /\ p \in Seq(Letters \cup {"@"}) /\ Len(p) = 2 /\ p[1] = "@" /\ p[2] \in Letters
<1>1. ~ Patterns!IsAll(p) /\ p[1] = "@"
  BY DEF Patterns!IsDomain
<1>2. Shaped(p, Chars) /\ p[Len(p)] \in Letters \cup {"*"}
  <2>1. p # <<"*">>
    BY <1>1, PatternShape
  <2>. QED
    BY <2>1, PatternShape
<1>3. Len(p) \in Nat /\ DOMAIN p = 1..Len(p) /\ "@" \notin Chars
  BY <1>2, LettersAssumption DEF Shaped, Chars
<1>4. Len(p) = 2
  <2> DEFINE n == Len(p)
  <2>1. n \in Nat /\ n >= 2 /\ \A i \in 1..n : i # n - 1 => p[i] \in Chars
    BY <1>2, <1>3 DEF Shaped
  <2>2. p[1] \notin Chars
    BY <1>1, <1>3
  <2> HIDE DEF n
  <2>3. 1 \in 1..n /\ 1 = n - 1
    BY <2>1, <2>2
  <2>4. n = 2
    BY <2>1, <2>3
  <2>. QED
    BY <2>4 DEF n
<1>5. p[2] \in Letters \cup {"*"} /\ p[2] # "*"
  BY <1>2, <1>3, <1>4 DEF Shaped, Patterns!Valid, Patterns!Has
<1>6. p[2] \in Letters /\ p \in [1..2 -> Letters \cup {"@"}]
  BY <1>1, <1>2, <1>3, <1>4, <1>5 DEF Chars, Shaped
<1>7. p \in Seq(Letters \cup {"@"})
  BY <1>6, WordIsSeq
<1>. QED
  BY <1>1, <1>4, <1>6, <1>7

-----------------------------------------------------------------------------
(***************************************************************************)
(* What a pattern matches: the email is read along a path.                  *)
(***************************************************************************)
Start == {0}

ReadsTo(p, e, i, k, j) ==
  IF p[i] = "*" THEN k <= j /\ \A n \in (k + 1)..j : e[n] \in Letters
  ELSE j = k + 1 /\ e[j] = p[i]

Further(p, e, i, before) ==
  IF p[i] = "*"
  THEN {j \in 0..Len(e) : \E k \in before : k <= j /\ \A n \in (k + 1)..j : e[n] \in Letters}
  ELSE {j \in 1..Len(e) : j - 1 \in before /\ e[j] = p[i]}

LEMMA EndsExist ==
  ASSUME NEW p, NEW e, NEW N \in Nat
  PROVE  \E ends : ends = [i \in 0..N |-> IF i = 0 THEN Start ELSE Further(p, e, i, ends[i - 1])]
<1> DEFINE Chain(k, ends) ==
             ends = [i \in 0..k |-> IF i = 0 THEN Start ELSE Further(p, e, i, ends[i - 1])]
           Without == {k \in Nat : ~ \E ends : Chain(k, ends)}
<1>1. SUFFICES ASSUME Without # {} PROVE FALSE
  OBVIOUS
<1>2. PICK k \in Without : \A m \in Without : k <= m
  <2>1. Without \subseteq Nat
    OBVIOUS
  <2> HIDE DEF Without
  <2>. QED
    BY <1>1, <2>1, LeastExists
<1>3. k # 0
  <2>1. Chain(0, [i \in 0..0 |-> Start])
    OBVIOUS
  <2>. QED
    BY <2>1
<1>4. k - 1 \in Nat /\ k - 1 \notin Without
  <2>1. k \in Nat
    OBVIOUS
  <2> HIDE DEF Without
  <2>. QED
    BY <1>2, <1>3, <2>1
<1>5. PICK ends : Chain(k - 1, ends)
  BY <1>4
<1> DEFINE more == [i \in 0..k |-> IF i = 0 THEN Start ELSE Further(p, e, i, ends[i - 1])]
<1>6. \A i \in 0..k - 1 : more[i] = ends[i]
  BY <1>4, <1>5
<1>7. more = [i \in 0..k |-> IF i = 0 THEN Start ELSE Further(p, e, i, more[i - 1])]
  <2>1. \A i \in 0..k : i # 0 => i - 1 \in 0..k - 1
    BY <1>4
  <2>2. \A i \in 0..k : i # 0 => ends[i - 1] = more[i - 1]
    BY <1>6, <2>1
  <2> DEFINE other == [i \in 0..k |-> IF i = 0 THEN Start ELSE Further(p, e, i, more[i - 1])]
  <2>3. \A i \in 0..k : more[i] = other[i]
    BY <2>2
  <2>. QED
    BY <2>3
<1>8. Chain(k, more)
  BY <1>7
<1> HIDE DEF more
<1>. QED
  BY <1>2, <1>8

LEMMA EndsSteps ==
  ASSUME NEW p, NEW e, Len(p) \in Nat
  PROVE  /\ Patterns!Ends(p, e)[0] = {0}
         /\ \A i \in 1..Len(p) : Patterns!Ends(p, e)[i] = Further(p, e, i, Patterns!Ends(p, e)[i - 1])
<1> DEFINE ends == CHOOSE f : f = [i \in 0..Len(p) |-> IF i = 0 THEN Start ELSE Further(p, e, i, f[i - 1])]
<1>1. ends = [i \in 0..Len(p) |-> IF i = 0 THEN Start ELSE Further(p, e, i, ends[i - 1])]
  BY EndsExist
<1>2. Patterns!Ends(p, e) = ends
  BY DEF Patterns!Ends, Further, Start
<1> HIDE DEF ends
<1>3. ends[0] = Start /\ \A i \in 1..Len(p) : ends[i] = Further(p, e, i, ends[i - 1])
  BY <1>1
<1>. QED
  BY <1>2, <1>3 DEF Start

(* One step of the path.                                                    *)
LEMMA EndsReach ==
  ASSUME NEW p, NEW e, Len(p) \in Nat, Len(e) \in Nat, NEW i \in 1..Len(p),
         NEW k \in Patterns!Ends(p, e)[i - 1], NEW j \in 0..Len(e), k \in Nat,
         ReadsTo(p, e, i, k, j)
  PROVE  j \in Patterns!Ends(p, e)[i]
<1>1. Patterns!Ends(p, e)[i] = Further(p, e, i, Patterns!Ends(p, e)[i - 1])
  BY EndsSteps
<1>2. CASE p[i] = "*"
  BY <1>1, <1>2 DEF Further, ReadsTo
<1>3. CASE p[i] # "*"
  <2>1. j - 1 = k /\ j \in 1..Len(e)
    BY <1>3 DEF ReadsTo
  <2>. QED
    BY <1>1, <1>3, <2>1 DEF Further, ReadsTo
<1>. QED
  BY <1>2, <1>3

(* A "*" can read on.                                                       *)
LEMMA EndsExtend ==
  ASSUME NEW p, NEW e, Len(p) \in Nat, Len(e) \in Nat, NEW i \in 1..Len(p), p[i] = "*",
         NEW k \in Patterns!Ends(p, e)[i], NEW j \in 0..Len(e), k \in Nat, k <= j,
         \A n \in (k + 1)..j : e[n] \in Letters, Patterns!Ends(p, e)[i - 1] \subseteq Nat
  PROVE  j \in Patterns!Ends(p, e)[i]
<1>1. Patterns!Ends(p, e)[i] = Further(p, e, i, Patterns!Ends(p, e)[i - 1])
  BY EndsSteps
<1>2. PICK b \in Patterns!Ends(p, e)[i - 1] : b <= k /\ \A n \in (b + 1)..k : e[n] \in Letters
  BY <1>1 DEF Further
<1>3. b \in Nat
  OBVIOUS
<1>4. \A n \in (b + 1)..j : n \in (b + 1)..k \/ n \in (k + 1)..j
  BY <1>3
<1>5. b <= j /\ \A n \in (b + 1)..j : e[n] \in Letters
  BY <1>2, <1>3, <1>4
<1>. QED
  BY <1>1, <1>5 DEF Further

LEMMA EndsInEmail ==
  ASSUME NEW p, NEW e, Len(p) \in Nat, Len(e) \in Nat
  PROVE  \A i \in 0..Len(p) : Patterns!Ends(p, e)[i] \subseteq 0..Len(e)
<1>1. \A i \in 1..Len(p) : Patterns!Ends(p, e)[i] \subseteq 0..Len(e)
  <2> SUFFICES ASSUME NEW i \in 1..Len(p) PROVE Patterns!Ends(p, e)[i] \subseteq 0..Len(e)
    OBVIOUS
  <2>1. Patterns!Ends(p, e)[i] = Further(p, e, i, Patterns!Ends(p, e)[i - 1])
    BY EndsSteps
  <2>2. \A b : Further(p, e, i, b) \subseteq 0..Len(e)
    BY DEF Further
  <2>. QED
    BY <2>1, <2>2
<1>2. Patterns!Ends(p, e)[0] \subseteq 0..Len(e)
  BY EndsSteps
<1>3. \A i \in 0..Len(p) : i = 0 \/ i \in 1..Len(p)
  OBVIOUS
<1>. QED
  BY <1>1, <1>2, <1>3

Path(p, e, i, f) ==
  /\ f \in [0..i -> 0..Len(e)] /\ f[0] = 0
  /\ \A n \in 1..i : ReadsTo(p, e, n, f[n - 1], f[n])

LEMMA EndsPath ==
  ASSUME NEW p, NEW e, Len(p) \in Nat, Len(e) \in Nat
  PROVE  \A i \in 0..Len(p) : \A j \in Patterns!Ends(p, e)[i] : \E f : Path(p, e, i, f) /\ f[i] = j
<1> DEFINE OnPath(i) == \A j \in Patterns!Ends(p, e)[i] : \E f : Path(p, e, i, f) /\ f[i] = j
           Bad == {i \in 0..Len(p) : ~ OnPath(i)}
<1>1. SUFFICES ASSUME Bad # {} PROVE FALSE
  OBVIOUS
<1>2. PICK i \in Bad : \A m \in Bad : i <= m
  <2>1. Bad \subseteq Nat
    OBVIOUS
  <2> HIDE DEF Bad
  <2>. QED
    BY <1>1, <2>1, LeastExists
<1>3. i # 0
  <2>1. Path(p, e, 0, [n \in 0..0 |-> 0])
    BY DEF Path
  <2>2. OnPath(0)
    BY <2>1, EndsSteps
  <2>. QED
    BY <1>2, <2>2
<1>4. i \in 1..Len(p) /\ i - 1 \in 0..Len(p) /\ i - 1 \notin Bad
  BY <1>2, <1>3
<1>5. ASSUME NEW j \in Patterns!Ends(p, e)[i] PROVE \E f : Path(p, e, i, f) /\ f[i] = j
  <2>1. Patterns!Ends(p, e)[i] = Further(p, e, i, Patterns!Ends(p, e)[i - 1])
    BY <1>4, EndsSteps
  <2>2. j \in 0..Len(e)
    BY <2>1 DEF Further
  <2>3. PICK k \in Patterns!Ends(p, e)[i - 1] : ReadsTo(p, e, i, k, j)
    <3>1. CASE p[i] = "*"
      BY <2>1, <3>1 DEF Further, ReadsTo
    <3>2. CASE p[i] # "*"
      <4>1. j - 1 \in Patterns!Ends(p, e)[i - 1] /\ e[j] = p[i] /\ j = (j - 1) + 1
        BY <2>1, <2>2, <3>2 DEF Further
      <4>. QED
        BY <3>2, <4>1 DEF ReadsTo
    <3>. QED
      BY <3>1, <3>2
  <2>4. PICK f : Path(p, e, i - 1, f) /\ f[i - 1] = k
    BY <1>4
  <2> DEFINE g == [n \in 0..i |-> IF n = i THEN j ELSE f[n]]
  <2>5. g \in [0..i -> 0..Len(e)] /\ g[0] = 0 /\ g[i] = j /\ \A n \in 0..(i - 1) : g[n] = f[n]
    BY <1>4, <2>2, <2>4 DEF Path
  <2> HIDE DEF g
  <2>6. \A n \in 1..i : n = i \/ (n \in 1..(i - 1) /\ n - 1 \in 0..(i - 1) /\ n \in 0..(i - 1))
    BY <1>4
  <2>7. i - 1 \in 0..(i - 1)
    BY <1>4
  <2>8. \A n \in 1..i : ReadsTo(p, e, n, g[n - 1], g[n])
    BY <2>3, <2>4, <2>5, <2>6, <2>7 DEF Path
  <2>9. Path(p, e, i, g) /\ g[i] = j
    BY <2>5, <2>8 DEF Path
  <2>. QED
    BY <2>9
<1>. QED
  BY <1>2, <1>5

-----------------------------------------------------------------------------
(***************************************************************************)
(* The comparison of two patterns.                                         *)
(***************************************************************************)

(* The paths of the contained pattern, as the loop reads it: a domain may   *)
(* follow anything.                                                         *)
Whole(w, e, f) == Path(w, e, Len(w), f) /\ f[Len(w)] = Len(e)

Reads(c) == IF Patterns!IsDomain(c) THEN <<"*">> \o c ELSE c

LEMMA StarFirst ==
  ASSUME NEW S, NEW x \in S, NEW y \in S, NEW z \in S
  PROVE  <<x>> \o <<y, z>> = <<x, y, z>>
<1> DEFINE s == <<x>>
           t == <<y, z>>
           w == <<x, y, z>>
<1>1. s \in Seq(S) /\ t \in Seq(S) /\ w \in Seq(S) /\ Len(s) = 1 /\ Len(t) = 2 /\ Len(w) = 3
      /\ s[1] = x /\ t[1] = y /\ t[2] = z /\ w[1] = x /\ w[2] = y /\ w[3] = z
  OBVIOUS
<1> HIDE DEF s, t, w
<1> DEFINE m == Len(s)
           n == Len(t)
<1>2. /\ s \o t \in Seq(S) /\ Len(s \o t) = m + n
      /\ \A i \in 1..m + n : (s \o t)[i] = IF i <= m THEN s[i] ELSE t[i - m]
  BY <1>1, ConcatProperties
<1>3. m = 1 /\ n = 2
  BY <1>1
<1> HIDE DEF m, n
<1>6. s \o t \in Seq(S) /\ Len(s \o t) = 3
      /\ (s \o t)[1] = x /\ (s \o t)[2] = y /\ (s \o t)[3] = z
  BY <1>1, <1>2, <1>3
<1>4. \A i \in 1..3 : (s \o t)[i] = w[i]
  <2>1. \A i \in 1..3 : i = 1 \/ i = 2 \/ i = 3
    OBVIOUS
  <2>. QED
    BY <1>1, <1>6, <2>1
<1>5. s \o t = w
  BY <1>1, <1>4, <1>6
<1>. QED
  BY <1>5 DEF s, t, w

LEMMA ReadsShape ==
  ASSUME NEW c \in Patterns!Valid, Patterns!IsGlob(c) \/ Patterns!IsDomain(c)
  PROVE  Shaped(Reads(c), Chars)
<1>1. CASE Patterns!IsDomain(c)
  <2>1. c \in Seq(Letters \cup {"@"}) /\ Len(c) = 2 /\ c[1] = "@" /\ c[2] \in Letters
    BY <1>1, DomainShape
  <2>2. Reads(c) = <<"*", "@", c[2]>>
    <3>1. c = <<c[1], c[2]>>
      BY <2>1
    <3>2. <<"*">> \o <<c[1], c[2]>> = <<"*", c[1], c[2]>>
      <4>1. "*" \in Chars \cup {"@"} /\ c[1] \in Chars \cup {"@"} /\ c[2] \in Chars \cup {"@"}
        BY <2>1, LettersAssumption DEF Chars
      <4>. QED
        BY <4>1, StarFirst
    <3>. QED
      BY <1>1, <2>1, <3>1, <3>2 DEF Reads
  <2>3. c[2] \in Chars /\ "*" \in Chars
    BY <2>1, LettersAssumption DEF Chars
  <2>4. <<"*", "@", c[2]>> \in Seq(Chars \cup {"@"}) /\ Len(<<"*", "@", c[2]>>) = 3
    BY <2>3
  <2>. QED
    BY <2>2, <2>3, <2>4 DEF Shaped
<1>2. CASE ~ Patterns!IsDomain(c)
  <2>1. ~ Patterns!IsAll(c)
    BY <1>2 DEF Patterns!IsGlob
  <2>. QED
    BY <1>2, <2>1, PatternShape DEF Reads
<1>. QED
  BY <1>1, <1>2

(* A pattern is of one of the four kinds.                                   *)
LEMMA KindsOfPattern ==
  ASSUME NEW p
  PROVE  /\ Patterns!IsAll(p) \/ Patterns!IsExact(p) \/ Patterns!IsDomain(p) \/ Patterns!IsGlob(p)
         /\ Patterns!IsAll(p) => ~ Patterns!IsExact(p) /\ ~ Patterns!IsDomain(p) /\ ~ Patterns!IsGlob(p)
         /\ Patterns!IsExact(p) => ~ Patterns!IsDomain(p) /\ ~ Patterns!IsGlob(p)
         /\ Patterns!IsDomain(p) => ~ Patterns!IsGlob(p)
BY DEF Patterns!IsExact, Patterns!IsDomain, Patterns!IsGlob

(* All but the "@" of such an email can be read by a star.                  *)
LEMMA PlainEmail ==
  ASSUME NEW e \in Patterns!Addresses, Patterns!Plain(e)
  PROVE  \A i \in 1..Len(e) : e[i] # "@" => e[i] \in Letters
<1>1. Shaped(e, EmailChars) /\ Len(e) \in Nat /\ e \in [1..Len(e) -> EmailChars \cup {"@"}]
  BY EmailShape DEF Shaped
<1>. QED
  BY <1>1 DEF Patterns!Plain, EmailChars

LEMMA ReadsAlong ==
  ASSUME NEW c \in Patterns!Valid, NEW e \in Patterns!Addresses, Patterns!Matches(c, e),
         Patterns!IsGlob(c) \/ (Patterns!IsDomain(c) /\ Patterns!Plain(e))
  PROVE  \E f : Whole(Reads(c), e, f)
<1>1. Shaped(e, EmailChars) /\ Len(e) \in Nat /\ Shaped(Reads(c), Chars) /\ Len(Reads(c)) \in Nat
  <2>1. Patterns!IsGlob(c) \/ Patterns!IsDomain(c)
    OBVIOUS
  <2>2. Shaped(Reads(c), Chars) /\ Shaped(e, EmailChars)
    BY <2>1, EmailShape, ReadsShape
  <2>. QED
    BY <2>2 DEF Shaped
<1>2. CASE Patterns!IsGlob(c)
  <2>1. ~ Patterns!IsDomain(c) /\ ~ Patterns!IsAll(c) /\ ~ Patterns!IsExact(c)
    BY <1>2 DEF Patterns!IsGlob, Patterns!IsDomain, Patterns!IsExact
  <2>2. Len(e) \in Patterns!Ends(c, e)[Len(c)] /\ Reads(c) = c
    BY <1>2, <2>1 DEF Patterns!Matches, Patterns!GlobMatches, Reads
  <2>. QED
    BY <1>1, <2>2, EndsPath DEF Whole
<1>3. CASE Patterns!IsDomain(c)
  <2>1. c \in Seq(Letters \cup {"@"}) /\ Len(c) = 2 /\ c[1] = "@" /\ c[2] \in Letters
    BY <1>3, DomainShape
  <2>2. ~ Patterns!IsAll(c) /\ ~ Patterns!IsExact(c) /\ ~ Patterns!IsGlob(c)
    BY <1>3 DEF Patterns!IsGlob, Patterns!IsDomain, Patterns!IsExact
  <2>3. Patterns!EndsWith(e, c)
    BY <2>2 DEF Patterns!Matches
  <2>4. e[Len(e)] = c[2] /\ Len(e) >= 2 /\ e[Len(e) - 1] = "@" /\ e \in Seq(EmailChars \cup {"@"})
    <3> DEFINE s == SubSeq(e, Len(e) - 2 + 1, Len(e))
               m == Len(e)
    <3>1. s = c /\ m >= 2 /\ m \in Nat /\ e \in Seq(EmailChars \cup {"@"}) /\ e[m - 1] = "@"
      BY <1>1, <2>1, <2>3 DEF Patterns!EndsWith, Shaped
    <3> HIDE DEF m
    <3>2. SubSeq(e, m - 2 + 1, m)[2] = e[m]
      BY <3>1 DEF m
    <3>. QED
      BY <3>1, <3>2 DEF m
  <2>5. Reads(c) = <<"*", "@", c[2]>>
    <3>1. c = <<c[1], c[2]>>
      BY <2>1
    <3>2. <<"*">> \o <<c[1], c[2]>> = <<"*", c[1], c[2]>>
      <4>1. "*" \in Chars \cup {"@"} /\ c[1] \in Chars \cup {"@"} /\ c[2] \in Chars \cup {"@"}
        BY <2>1, LettersAssumption DEF Chars
      <4>. QED
        BY <4>1, StarFirst
    <3>. QED
      BY <1>3, <2>1, <3>1, <3>2 DEF Reads
  <2> DEFINE m == Len(e)
             f == [i \in 0..3 |-> IF i = 0 THEN 0 ELSE m - 3 + i]
             w == <<"*", "@", c[2]>>
  <2>6. m \in Nat /\ m >= 2 /\ e[m - 1] = "@" /\ e[m] = c[2]
    BY <1>1, <2>4
  <2>7. \A n \in 1..(m - 2) : e[n] \in Letters
    <3>1. \A n \in 1..(m - 2) : n \in 1..Len(e) /\ n # Len(e) - 1
      BY <2>6
    <3>2. \A n \in 1..(m - 2) : e[n] # "@"
      BY <1>1, <3>1, LettersAssumption DEF Shaped
    <3>3. Patterns!Plain(e)
      BY <1>3, KindsOfPattern
    <3>. QED
      BY <3>1, <3>2, <3>3, PlainEmail
  <2>8. w[1] = "*" /\ w[2] = "@" /\ w[3] = c[2] /\ Len(w) = 3 /\ c[2] # "*" /\ "@" # "*"
    BY <2>1, LettersAssumption
  <2> HIDE DEF m, w
  <2>9. f \in [0..3 -> 0..m] /\ f[0] = 0 /\ f[1] = m - 2 /\ f[2] = m - 1 /\ f[3] = m
    BY <2>6
  <2> HIDE DEF f
  <2>10. ReadsTo(w, e, 1, f[0], f[1])
    BY <2>6, <2>7, <2>8, <2>9 DEF ReadsTo
  <2>11. ReadsTo(w, e, 2, f[1], f[2])
    BY <2>6, <2>8, <2>9 DEF ReadsTo
  <2>12. ReadsTo(w, e, 3, f[2], f[3])
    BY <2>6, <2>8, <2>9 DEF ReadsTo
  <2>13. \A n \in 1..3 : n = 1 \/ n = 2 \/ n = 3
    OBVIOUS
  <2>14. Path(w, e, 3, f)
    BY <2>9, <2>10, <2>11, <2>12, <2>13 DEF Path, m
  <2>. QED
    BY <2>5, <2>8, <2>9, <2>14 DEF Whole, m, w
<1>. QED
  BY <1>2, <1>3

(* An email that ends as a glob does whose domain is plain.                 *)
LEMMA GlobEnds ==
  ASSUME NEW p \in Patterns!Valid, Patterns!IsDomain(p),
         NEW c \in Patterns!Valid, Patterns!IsGlob(c), Patterns!EndsWith(c, p),
         NEW e \in Patterns!Addresses, Patterns!Matches(c, e)
  PROVE  Patterns!EndsWith(e, p)
<1>1. p \in Seq(Letters \cup {"@"}) /\ Len(p) = 2 /\ p[1] = "@" /\ p[2] \in Letters
  BY DomainShape
<1>2. Reads(c) = c /\ ~ Patterns!IsDomain(c)
  BY KindsOfPattern DEF Reads
<1>3. Shaped(c, Chars) /\ Shaped(e, EmailChars)
  BY <1>2, ReadsShape, EmailShape
<1>4. PICK f : Whole(c, e, f)
  BY <1>2, ReadsAlong
<1> DEFINE n == Len(c)
           m == Len(e)
<1>5. n \in Nat /\ n >= 2 /\ m \in Nat /\ m >= 2 /\ c \in Seq(Chars \cup {"@"})
      /\ e \in Seq(EmailChars \cup {"@"}) /\ c[n - 1] = "@" /\ e[m - 1] = "@"
  BY <1>3 DEF Shaped
<1>6. SubSeq(c, n - 2 + 1, n) = p
  BY <1>1 DEF Patterns!EndsWith
<1>7. f[n] = m /\ ReadsTo(c, e, n, f[n - 1], f[n])
  BY <1>4, <1>5 DEF Whole, Path
<1> HIDE DEF n, m
<1>8. SubSeq(c, n - 2 + 1, n)[2] = c[n]
  BY <1>5 DEF n
<1>9. c[n] = p[2] /\ c[n] # "*"
  BY <1>1, <1>6, <1>8, LettersAssumption
<1>10. e[m] = p[2]
  BY <1>7, <1>9 DEF ReadsTo
<1>11. SubSeq(e, m - 2 + 1, m) = p
  <2>1. /\ SubSeq(e, m - 2 + 1, m) \in Seq(EmailChars \cup {"@"}) /\ Len(SubSeq(e, m - 2 + 1, m)) = 2
        /\ SubSeq(e, m - 2 + 1, m)[1] = e[m - 1] /\ SubSeq(e, m - 2 + 1, m)[2] = e[m]
    BY <1>5 DEF m
  <2> DEFINE s == SubSeq(e, m - 2 + 1, m)
  <2> HIDE DEF s
  <2>2. s \in Seq(Letters \cup {"@"}) /\ Len(s) = Len(p) /\ \A i \in 1..Len(p) : s[i] = p[i]
    BY <1>1, <1>5, <1>10, <2>1 DEF s
  <2>3. s = p
    BY <1>1, <2>2
  <2>. QED
    BY <2>3 DEF s
<1>. QED
  BY <1>1, <1>5, <1>11 DEF Patterns!EndsWith, m

LEMMA StraightIsSound ==
  ASSUME NEW p \in Patterns!Valid, NEW c \in Patterns!Valid, ~ Patterns!NeedsLoop(p, c),
         Patterns!Straight(p, c), NEW e \in Patterns!Addresses, Patterns!Matches(c, e)
  PROVE  Patterns!Matches(p, e)
<1>1. CASE Patterns!IsAll(p)
  BY <1>1 DEF Patterns!Matches
<1>2. CASE Patterns!IsExact(p)
  <2>1. p = c
    BY <1>2, KindsOfPattern DEF Patterns!Straight
  <2>. QED
    BY <2>1
<1>3. CASE Patterns!IsDomain(p)
  <2>1. ~ Patterns!IsAll(c) /\ IF Patterns!IsDomain(c) THEN p = c ELSE Patterns!EndsWith(c, p)
    BY <1>3, KindsOfPattern DEF Patterns!Straight
  <2>2. CASE Patterns!IsDomain(c)
    BY <2>1, <2>2
  <2>3. CASE Patterns!IsExact(c)
    <3>1. e = c /\ Patterns!EndsWith(c, p)
      BY <2>1, <2>3, KindsOfPattern DEF Patterns!Matches
    <3>. QED
      BY <1>3, <3>1 DEF Patterns!Matches
  <2>4. CASE Patterns!IsGlob(c)
    <3>1. Patterns!EndsWith(e, p)
      BY <1>3, <2>1, <2>4, KindsOfPattern, GlobEnds
    <3>. QED
      BY <1>3, <3>1 DEF Patterns!Matches
  <2>. QED
    BY <2>1, <2>2, <2>3, <2>4, KindsOfPattern
<1>4. CASE Patterns!IsGlob(p)
  <2>1. ~ Patterns!IsAll(c) /\ Patterns!GlobMatches(p, c)
    BY <1>4, KindsOfPattern DEF Patterns!Straight
  <2>2. Patterns!IsExact(c)
    BY <1>4, <2>1, KindsOfPattern DEF Patterns!NeedsLoop
  <2>3. e = c
    BY <2>2, KindsOfPattern DEF Patterns!Matches
  <2>. QED
    BY <1>4, <2>1, <2>3 DEF Patterns!Matches
<1>. QED
  BY <1>1, <1>2, <1>3, <1>4, KindsOfPattern

(***************************************************************************)
(* At every turn of the loop, for every way the contained pattern matches   *)
(* an email: the container matches what was read of it so far, and its last *)
(* star can read on from there; or that star has swallowed the "@" and the  *)
(* container will never get to its own.                                     *)
(***************************************************************************)
AtOf(p) == Len(p) - 1

Swallowed ==
  /\ pIndex <= AtOf(container) /\ star < AtOf(container) /\ cIndex > AtOf(word)

ReadSoFar(e, j) ==
  /\ j \in Patterns!Ends(container, e)[pIndex - 1]
  /\ star # 0 => \/ j \in Patterns!Ends(container, e)[star]
                 \/ star < AtOf(container) /\ cIndex > AtOf(word)

KeepsUp ==
  \A e \in Patterns!Addresses : Patterns!Plain(e) =>
    \A f : Whole(word, e, f) => Swallowed \/ ReadSoFar(e, f[cIndex - 1])

PatternShapes ==
  /\ container \in Patterns!Valid /\ contained \in Patterns!Valid
  /\ word = Reads(contained)
  /\ pIndex \in 1..(Len(container) + 1) /\ star \in 0..Len(container)
  /\ cIndex \in 1..(Len(word) + 1)
  /\ result \in {"open", "yes", "no"}

InLoop ==
  /\ Patterns!NeedsLoop(container, contained)
  /\ star < pIndex /\ (star # 0 => container[star] = "*")
  /\ pIndex > AtOf(container) => cIndex > AtOf(word)
  /\ KeepsUp

Contains ==
  \A e \in Patterns!Addresses :
    Patterns!Matches(contained, e) =>
      Patterns!Matches(container, e) \/ (Patterns!NeedsLoop(container, contained) /\ ~ Patterns!Plain(e))

PatternInv ==
  which = "patterns" =>
    /\ PatternShapes
    /\ result = "open" => InLoop
    /\ result = "yes" => Contains

LEMMA LoopFacts ==
  ASSUME PatternShapes, InLoop
  PROVE  /\ Shaped(container, Chars) /\ Shaped(word, Chars)
         /\ Len(container) \in Nat /\ Len(word) \in Nat /\ Len(container) >= 3 /\ Len(word) >= 2
         /\ Patterns!IsGlob(container)
         /\ container[AtOf(container)] = "@" /\ word[AtOf(word)] = "@"
         /\ \A i \in 1..Len(container) : i # AtOf(container) => container[i] # "@"
         /\ \A i \in 1..Len(word) : i # AtOf(word) => word[i] # "@"
         /\ \A i \in 1..Len(container) : container[i] # "none"
         /\ \A i \in 1..Len(word) : word[i] # "none"
<1>1. Patterns!IsGlob(container) /\ (Patterns!IsGlob(contained) \/ Patterns!IsDomain(contained))
  BY DEF InLoop, Patterns!NeedsLoop
<1>2. Shaped(container, Chars) /\ Shaped(word, Chars)
  BY <1>1, PatternShape, ReadsShape, KindsOfPattern DEF PatternShapes
<1>3. "@" \notin Chars /\ "none" \notin Chars \cup {"@"}
  BY LettersAssumption DEF Chars
<1>4. ASSUME NEW p, Shaped(p, Chars)
      PROVE  /\ Len(p) \in Nat /\ Len(p) >= 2 /\ p[AtOf(p)] = "@"
             /\ \A i \in 1..Len(p) : i # AtOf(p) => p[i] # "@"
             /\ \A i \in 1..Len(p) : p[i] # "none"
  <2>1. Len(p) \in Nat /\ p \in [1..Len(p) -> Chars \cup {"@"}]
    BY <1>4 DEF Shaped
  <2>. QED
    BY <1>3, <1>4, <2>1 DEF Shaped, AtOf
<1>6. Len(container) >= 3
  <2> DEFINE n == Len(container)
  <2>1. container[1] # "@"
    BY <1>1 DEF Patterns!IsGlob
  <2>2. n \in Nat /\ n >= 2 /\ container[n - 1] = "@"
    BY <1>2, <1>4 DEF AtOf
  <2> HIDE DEF n
  <2>3. n # 2
    <3>1. 2 - 1 = 1
      OBVIOUS
    <3>. QED
      BY <2>1, <2>2, <3>1
  <2>4. n >= 3
    BY <2>2, <2>3
  <2>. QED
    BY <2>4 DEF n
<1>. QED
  BY <1>1, <1>2, <1>4, <1>6

LEMMA PathFacts ==
  ASSUME PatternShapes, InLoop, NEW e \in Patterns!Addresses, NEW f, Whole(word, e, f),
         cIndex <= Len(word)
  PROVE  /\ Len(e) \in Nat /\ f[cIndex - 1] \in 0..Len(e) /\ f[cIndex] \in 0..Len(e)
         /\ ReadsTo(word, e, cIndex, f[cIndex - 1], f[cIndex])
         /\ (cIndex + 1) - 1 = cIndex
<1>1. Len(e) \in Nat
  BY EmailShape DEF Shaped
<1>2. Len(word) \in Nat /\ cIndex \in 1..Len(word) /\ cIndex - 1 \in 0..Len(word) /\ cIndex \in 0..Len(word)
  BY LoopFacts DEF PatternShapes
<1>. QED
  BY <1>1, <1>2 DEF Whole, Path

LEMMA ContainerReads ==
  ASSUME PatternShapes, InLoop, NEW e \in Patterns!Addresses
  PROVE  /\ \A i \in 1..Len(container) : \A k \in Patterns!Ends(container, e)[i - 1] :
              \A j \in 0..Len(e) :
                ReadsTo(container, e, i, k, j) => j \in Patterns!Ends(container, e)[i]
         /\ \A i \in 1..Len(container) : \A k \in Patterns!Ends(container, e)[i] :
              \A j \in 0..Len(e) :
                container[i] = "*" /\ k <= j /\ (\A n \in (k + 1)..j : e[n] \in Letters)
                  => j \in Patterns!Ends(container, e)[i]
<1>1. Len(container) \in Nat /\ Len(e) \in Nat
  BY LoopFacts, EmailShape DEF Shaped
<1>2. \A i \in 1..Len(container) : /\ Patterns!Ends(container, e)[i] \subseteq Nat
                                   /\ Patterns!Ends(container, e)[i - 1] \subseteq Nat
  <2>1. \A i \in 0..Len(container) : Patterns!Ends(container, e)[i] \subseteq 0..Len(e)
    BY <1>1, EndsInEmail
  <2>2. \A i \in 1..Len(container) : i \in 0..Len(container) /\ i - 1 \in 0..Len(container)
    BY <1>1
  <2>3. 0..Len(e) \subseteq Nat
    BY <1>1
  <2>. QED
    BY <2>1, <2>2, <2>3
<1>3. ASSUME NEW i \in 1..Len(container), NEW k \in Patterns!Ends(container, e)[i - 1],
             NEW j \in 0..Len(e), ReadsTo(container, e, i, k, j)
      PROVE  j \in Patterns!Ends(container, e)[i]
  <2>1. k \in Nat
    BY <1>2
  <2>. QED
    BY <1>1, <1>3, <2>1, EndsReach
<1>4. ASSUME NEW i \in 1..Len(container), NEW k \in Patterns!Ends(container, e)[i],
             NEW j \in 0..Len(e), container[i] = "*", k <= j, \A n \in (k + 1)..j : e[n] \in Letters
      PROVE  j \in Patterns!Ends(container, e)[i]
  <2>1. k \in Nat /\ Patterns!Ends(container, e)[i - 1] \subseteq Nat
    BY <1>2
  <2>. QED
    BY <1>1, <1>4, <2>1, EndsExtend
<1>. QED
  BY <1>3, <1>4

(* The steps that go on.                                                   *)
LEMMA ReadStarStep ==
  ASSUME PatternShapes, InLoop, Patterns!ReadStar
  PROVE  PatternShapes' /\ InLoop'
<1> DEFINE C == container
           at == AtOf(container)
<1>1. /\ Len(C) \in Nat /\ Len(word) \in Nat /\ Len(C) >= 3 /\ C[at] = "@" /\ at = Len(C) - 1
      /\ cIndex \in 1..Len(word)
  BY LoopFacts DEF AtOf, Patterns!ReadStar, Patterns!Looping, PatternShapes
<1>2. pIndex \in 1..Len(C) /\ C[pIndex] = "*" /\ pIndex # at
  BY <1>1 DEF Patterns!ReadStar, Patterns!PChar, PatternShapes
<1>3. /\ UNCHANGED <<container, contained, word, result>>
      /\ pIndex' = pIndex + 1 /\ star' = pIndex
      /\ cIndex' = IF word[cIndex] = "*" THEN cIndex + 1 ELSE cIndex
  BY DEF Patterns!ReadStar, Patterns!Go, Patterns!CChar
<1>4. PatternShapes'
  BY <1>1, <1>2, <1>3 DEF PatternShapes
<1>5. star' < pIndex' /\ (star' # 0 => container'[star'] = "*")
      /\ (pIndex' > at => cIndex' > AtOf(word))
  BY <1>1, <1>2, <1>3 DEF InLoop, PatternShapes, AtOf
<1>6. ASSUME NEW e \in Patterns!Addresses, Patterns!Plain(e), NEW f, Whole(word, e, f)
      PROVE  Swallowed' \/ ReadSoFar(e, f[cIndex - 1])'
  <2>1. Swallowed \/ ReadSoFar(e, f[cIndex - 1])
    BY <1>6 DEF InLoop, KeepsUp
  <2>2. CASE Swallowed
    <3>1. Swallowed'
      BY <1>1, <1>2, <1>3, <2>2 DEF Swallowed, AtOf
    <3>. QED
      BY <3>1
  <2>3. CASE ReadSoFar(e, f[cIndex - 1])
    <3>1. /\ Len(e) \in Nat /\ f[cIndex - 1] \in 0..Len(e) /\ f[cIndex] \in 0..Len(e)
          /\ ReadsTo(word, e, cIndex, f[cIndex - 1], f[cIndex])
      BY <1>1, <1>6, PathFacts
    <3> DEFINE j == f[cIndex - 1]
               i == f[cIndex' - 1]
    <3>2. i \in 0..Len(e) /\ j \in Nat /\ ReadsTo(C, e, pIndex, j, i)
      <4>1. CASE word[cIndex] = "*"
        <5>1. i = f[cIndex]
          BY <1>1, <1>3, <4>1
        <5>. QED
          BY <1>2, <3>1, <4>1, <5>1 DEF ReadsTo
      <4>2. CASE word[cIndex] # "*"
        <5>1. i = j
          BY <1>3, <4>2
        <5>. QED
          BY <1>2, <3>1, <5>1 DEF ReadsTo
      <4>. QED
        BY <4>1, <4>2
    <3>3. j \in Patterns!Ends(C, e)[pIndex - 1]
      BY <2>3 DEF ReadSoFar
    <3> HIDE DEF i, j
    <3>4. i \in Patterns!Ends(C, e)[pIndex]
      BY <1>2, <3>1, <3>2, <3>3, ContainerReads
    <3>5. (pIndex + 1) - 1 = pIndex
      BY <1>2
    <3>. QED
      BY <1>3, <3>4, <3>5 DEF ReadSoFar, i
  <2>. QED
    BY <2>1, <2>2, <2>3
<1>7. KeepsUp'
  BY <1>3, <1>6 DEF KeepsUp
<1>. QED
  BY <1>3, <1>4, <1>5, <1>7 DEF InLoop

LEMMA SameCharStep ==
  ASSUME PatternShapes, InLoop, Patterns!SameChar
  PROVE  PatternShapes' /\ InLoop'
<1> DEFINE C == container
           at == AtOf(container)
           ch == word[cIndex]
<1>1. /\ Len(C) \in Nat /\ Len(word) \in Nat /\ Len(C) >= 3 /\ C[at] = "@" /\ at = Len(C) - 1
      /\ cIndex \in 1..Len(word) /\ ch # "none" /\ ch # "*" /\ word[AtOf(word)] = "@"
      /\ \A i \in 1..Len(C) : i # at => C[i] # "@"
      /\ \A i \in 1..Len(word) : i # AtOf(word) => word[i] # "@"
  BY LoopFacts DEF AtOf, Patterns!SameChar, Patterns!Looping, PatternShapes, Patterns!CChar
<1>2. pIndex \in 1..Len(C) /\ C[pIndex] = ch
  BY <1>1 DEF Patterns!SameChar, Patterns!PChar, Patterns!CChar, PatternShapes
<1>3. /\ UNCHANGED <<container, contained, word, result, star>>
      /\ pIndex' = pIndex + 1 /\ cIndex' = cIndex + 1
  BY DEF Patterns!SameChar, Patterns!Go
<1>4. PatternShapes'
  BY <1>1, <1>2, <1>3 DEF PatternShapes
<1>5. (pIndex = at <=> ch = "@") /\ (cIndex = AtOf(word) <=> ch = "@")
  BY <1>1, <1>2
<1> HIDE DEF ch
<1>6. star' < pIndex' /\ (star' # 0 => container'[star'] = "*")
      /\ (pIndex' > at => cIndex' > AtOf(word)) /\ star \in 0..Len(C) /\ star < pIndex
  BY <1>1, <1>2, <1>3, <1>5 DEF InLoop, PatternShapes, AtOf
<1>7. ASSUME NEW e \in Patterns!Addresses, Patterns!Plain(e), NEW f, Whole(word, e, f)
      PROVE  Swallowed' \/ ReadSoFar(e, f[cIndex - 1])'
  <2>1. Swallowed \/ ReadSoFar(e, f[cIndex - 1])
    BY <1>7 DEF InLoop, KeepsUp
  <2>2. CASE Swallowed
    <3>1. Swallowed'
      BY <1>1, <1>2, <1>3, <1>5, <2>2 DEF Swallowed, AtOf
    <3>. QED
      BY <3>1
  <2>3. CASE ReadSoFar(e, f[cIndex - 1])
    <3> DEFINE j == f[cIndex - 1]
               i == f[cIndex]
    <3>1. /\ Len(e) \in Nat /\ j \in 0..Len(e) /\ i \in 0..Len(e)
          /\ ReadsTo(word, e, cIndex, j, i)
      BY <1>1, <1>7, PathFacts
    <3>2. i = j + 1 /\ e[i] = ch /\ ReadsTo(C, e, pIndex, j, i)
      BY <1>1, <1>2, <3>1 DEF ReadsTo, ch
    <3>3. j \in Patterns!Ends(C, e)[pIndex - 1]
          /\ (star # 0 => j \in Patterns!Ends(C, e)[star] \/ (star < at /\ cIndex > AtOf(word)))
      BY <2>3 DEF ReadSoFar
    <3> HIDE DEF i, j
    <3>4. i \in Patterns!Ends(C, e)[pIndex]
      BY <1>2, <3>1, <3>2, <3>3, ContainerReads
    <3>5. star # 0 => i \in Patterns!Ends(C, e)[star] \/ (star < at /\ cIndex + 1 > AtOf(word))
      <4>1. CASE ch = "@"
        BY <1>1, <1>2, <1>5, <1>6, <4>1 DEF AtOf
      <4>2. CASE ch # "@" /\ star # 0 /\ j \in Patterns!Ends(C, e)[star]
        <5>1. star \in 1..Len(C) /\ C[star] = "*"
          BY <1>1, <1>3, <1>6, <4>2
        <5>2. j <= i /\ \A n \in (j + 1)..i : e[n] \in Letters
          <6>1. i \in 1..Len(e) /\ e[i] # "@" /\ \A n \in (j + 1)..i : n = i
            BY <3>1, <3>2, <4>2
          <6>2. e[i] \in Letters
            BY <1>7, <6>1, PlainEmail
          <6>. QED
            BY <3>1, <3>2, <6>1, <6>2
        <5>. QED
          BY <3>1, <4>2, <5>1, <5>2, ContainerReads
      <4>. QED
        BY <1>1, <3>3, <4>1, <4>2 DEF AtOf
    <3>6. (pIndex + 1) - 1 = pIndex /\ (cIndex + 1) - 1 = cIndex
      BY <1>1, <1>2
    <3>. QED
      BY <1>3, <3>4, <3>5, <3>6 DEF ReadSoFar, i
  <2>. QED
    BY <2>1, <2>2, <2>3
<1>8. KeepsUp'
  BY <1>3, <1>7 DEF KeepsUp
<1>. QED
  BY <1>3, <1>4, <1>6, <1>8 DEF InLoop

(* Back to the star, which takes what the contained pattern reads.          *)
LEMMA BackStep ==
  ASSUME PatternShapes, InLoop, cIndex <= Len(word), star # 0,
         ~ (star = Len(container)), UNCHANGED <<container, contained, word, result, star>>,
         pIndex' = star + 1, cIndex' = cIndex + 1,
         pIndex <= Len(container) => container[pIndex] # word[cIndex]
  PROVE  PatternShapes' /\ InLoop'
<1> DEFINE C == container
           at == AtOf(container)
           ch == word[cIndex]
<1>1. /\ Len(C) \in Nat /\ Len(word) \in Nat /\ Len(C) >= 3 /\ C[at] = "@" /\ at = Len(C) - 1
      /\ cIndex \in 1..Len(word) /\ word[AtOf(word)] = "@"
      /\ \A i \in 1..Len(word) : i # AtOf(word) => word[i] # "@"
  BY LoopFacts DEF AtOf, PatternShapes
<1>2. star \in 1..Len(C) /\ C[star] = "*" /\ star < pIndex /\ pIndex \in 1..(Len(C) + 1) /\ star # at
  BY <1>1 DEF PatternShapes, InLoop
<1>3. PatternShapes'
  BY <1>1, <1>2 DEF PatternShapes
<1>4. cIndex = AtOf(word) <=> ch = "@"
  BY <1>1
<1>5. pIndex > at => cIndex > AtOf(word)
  BY DEF InLoop
<1> HIDE DEF ch
<1>6. star' < pIndex' /\ (star' # 0 => container'[star'] = "*") /\ (pIndex' > at => cIndex' > AtOf(word))
  BY <1>1, <1>2, <1>5 DEF AtOf
<1>7. ASSUME NEW e \in Patterns!Addresses, Patterns!Plain(e), NEW f, Whole(word, e, f)
      PROVE  Swallowed' \/ ReadSoFar(e, f[cIndex - 1])'
  <2>1. Swallowed \/ ReadSoFar(e, f[cIndex - 1])
    BY <1>7 DEF InLoop, KeepsUp
  <2>2. CASE star < at /\ cIndex + 1 > AtOf(word)
    <3>1. Swallowed'
      BY <1>1, <1>2, <2>2 DEF Swallowed, AtOf
    <3>. QED
      BY <3>1
  <2>3. CASE ~ (star < at /\ cIndex + 1 > AtOf(word))
    <3> DEFINE j == f[cIndex - 1]
               i == f[cIndex]
    <3>1. ~ Swallowed /\ ch # "@"
      BY <1>1, <1>2, <1>4, <1>5, <2>3 DEF Swallowed, AtOf
    <3>2. j \in Patterns!Ends(C, e)[star]
      BY <1>1, <2>1, <2>3, <3>1 DEF ReadSoFar, AtOf
    <3>3. /\ Len(e) \in Nat /\ j \in 0..Len(e) /\ i \in 0..Len(e)
          /\ ReadsTo(word, e, cIndex, j, i)
      BY <1>1, <1>7, PathFacts
    <3>4. j <= i /\ \A n \in (j + 1)..i : e[n] \in Letters
      <4>1. CASE ch = "*"
        BY <3>3, <4>1 DEF ReadsTo, ch
      <4>2. CASE ch # "*"
        <5>1. i = j + 1 /\ e[i] = ch
          BY <3>3, <4>2 DEF ReadsTo, ch
        <5> HIDE DEF i, j
        <5>2. i \in 1..Len(e) /\ \A n \in (j + 1)..i : n = i
          BY <3>3, <5>1
        <5>3. e[i] \in Letters
          BY <1>7, <3>1, <5>1, <5>2, PlainEmail
        <5>. QED
          BY <3>3, <5>1, <5>2, <5>3
      <4>. QED
        BY <4>1, <4>2
    <3> HIDE DEF i, j
    <3>6. i \in Patterns!Ends(C, e)[star]
      BY <1>2, <3>2, <3>3, <3>4, ContainerReads
    <3>7. (star + 1) - 1 = star /\ (cIndex + 1) - 1 = cIndex
      BY <1>1, <1>2
    <3>. QED
      BY <3>6, <3>7 DEF ReadSoFar, i
  <2>. QED
    BY <2>2, <2>3
<1>8. KeepsUp'
  BY <1>7 DEF KeepsUp
<1>. QED
  BY <1>3, <1>6, <1>8 DEF InLoop


(* The steps that answer.                                                  *)
LEMMA ReadToTheEnd ==
  ASSUME PatternShapes, InLoop,
         \A e \in Patterns!Addresses : Patterns!Plain(e) => \A f : Whole(word, e, f) =>
           Len(e) \in Patterns!Ends(container, e)[Len(container)]
  PROVE  Contains
<1> SUFFICES ASSUME NEW e \in Patterns!Addresses, Patterns!Matches(contained, e),
                    Patterns!Plain(e)
             PROVE  Patterns!Matches(container, e)
  BY DEF Contains, InLoop
<1>1. Patterns!IsGlob(container) /\ (Patterns!IsGlob(contained) \/ Patterns!IsDomain(contained))
  BY DEF InLoop, Patterns!NeedsLoop
<1>2. PICK f : Whole(word, e, f)
  BY <1>1, ReadsAlong DEF PatternShapes
<1>3. Patterns!GlobMatches(container, e)
  BY <1>2 DEF Patterns!GlobMatches
<1>. QED
  BY <1>1, <1>3 DEF Patterns!Matches

LEMMA LastStarAnswer ==
  ASSUME PatternShapes, InLoop, Patterns!LastStar
  PROVE  Contains
<1> DEFINE m == Len(container)
           n == Len(word)
<1>1. /\ m \in Nat /\ n \in Nat /\ n >= 2 /\ word[n - 1] = "@"
      /\ star = m /\ m # 0 /\ star < pIndex /\ pIndex \in 1..(m + 1)
      /\ cIndex \in 1..n /\ (pIndex > m - 1 => cIndex > n - 1)
  BY LoopFacts DEF AtOf, Patterns!LastStar, Patterns!Looping, Patterns!StarIsLast,
    PatternShapes, InLoop
<1>2. pIndex = m + 1 /\ cIndex = n /\ ~ Swallowed
  <2> HIDE DEF m, n
  <2>1. pIndex = m + 1 /\ cIndex = n
    BY <1>1
  <2>2. ~ (pIndex <= m - 1)
    BY <1>1, <2>1
  <2>. QED
    BY <2>1, <2>2 DEF Swallowed, AtOf, m
<1>3. container[m] = "*" /\ m \in 1..m
  BY <1>1 DEF InLoop
<1> HIDE DEF m, n
<1>4. ASSUME NEW e \in Patterns!Addresses, Patterns!Plain(e), NEW f, Whole(word, e, f)
      PROVE  Len(e) \in Patterns!Ends(container, e)[m]
  <2> DEFINE l == Len(e)
             j == f[n - 1]
  <2>1. l \in Nat /\ l >= 2 /\ \A i \in 1..l : i # l - 1 => e[i] # "@"
    <3>1. Shaped(e, EmailChars) /\ "@" \notin EmailChars
      BY EmailShape, LettersAssumption
    <3>. QED
      BY <3>1 DEF Shaped
  <2>2. ReadsTo(word, e, n - 1, f[(n - 1) - 1], j) /\ j \in 0..l /\ f[(n - 1) - 1] \in 0..l
    <3>1. n - 1 \in 1..n /\ n - 1 \in 0..n /\ (n - 1) - 1 \in 0..n
      BY <1>1
    <3>2. f \in [0..n -> 0..l] /\ \A i \in 1..n : ReadsTo(word, e, i, f[i - 1], f[i])
      BY <1>4 DEF Whole, Path, n
    <3>. QED
      BY <3>1, <3>2
  <2>3. Swallowed \/ ReadSoFar(e, f[cIndex - 1])
    BY <1>4 DEF InLoop, KeepsUp
  <2>4. j \in Patterns!Ends(container, e)[pIndex - 1]
    BY <1>2, <2>3 DEF ReadSoFar
  <2>5. pIndex - 1 = m
    BY <1>1, <1>2
  <2> HIDE DEF l
  <2>6. j = l - 1
    <3>1. "@" # "*"
      OBVIOUS
    <3>2. j = f[(n - 1) - 1] + 1 /\ e[j] = "@"
      BY <1>1, <2>2, <3>1 DEF ReadsTo
    <3>3. j \in 1..l
      BY <2>1, <2>2, <3>2
    <3>. QED
      BY <2>1, <3>2, <3>3
  <2> HIDE DEF j
  <2>7. j <= l /\ l \in 0..l /\ \A i \in (j + 1)..l : e[i] \in Letters
    <3>1. j \in Nat /\ l \in 1..l /\ \A i \in (j + 1)..l : i = l
      BY <2>1, <2>6
    <3>2. e[l] # "@"
      BY <2>1
    <3>3. e[l] \in Letters
      BY <1>4, <3>1, <3>2, PlainEmail DEF l
    <3>. QED
      BY <2>1, <2>6, <3>1, <3>3
  <2>. QED
    BY <1>3, <2>4, <2>5, <2>7, ContainerReads DEF l, m
<1>. QED
  BY <1>4, ReadToTheEnd DEF m

LEMMA LoopEndsAnswer ==
  ASSUME PatternShapes, InLoop, Patterns!LoopEnds, pIndex > Len(container)
  PROVE  Contains
<1> DEFINE m == Len(container)
           n == Len(word)
<1>1. m \in Nat /\ n \in Nat /\ pIndex \in 1..(m + 1) /\ cIndex \in 1..(n + 1)
      /\ pIndex > m /\ cIndex > n
  BY LoopFacts DEF Patterns!LoopEnds, PatternShapes
<1>2. pIndex - 1 = m /\ cIndex - 1 = n /\ ~ (pIndex <= m - 1)
  <2> HIDE DEF m, n
  <2>. QED
    BY <1>1
<1>3. ASSUME NEW e \in Patterns!Addresses, Patterns!Plain(e), NEW f, Whole(word, e, f)
      PROVE  Len(e) \in Patterns!Ends(container, e)[m]
  <2>1. ReadSoFar(e, f[cIndex - 1])
    BY <1>2, <1>3 DEF InLoop, KeepsUp, Swallowed, AtOf
  <2>. QED
    BY <1>2, <1>3, <2>1 DEF ReadSoFar, Whole
<1>. QED
  BY <1>3, ReadToTheEnd

LEMMA PatternInit == Init => PatternInv
<1> SUFFICES ASSUME Init, which = "patterns" PROVE
      PatternShapes /\ (result = "open" => InLoop) /\ (result = "yes" => Contains)
  BY DEF PatternInv
<1>1. Patterns!Init
  BY DEF Init
<1>2. /\ container \in Patterns!Valid /\ contained \in Patterns!Valid /\ word = Reads(contained)
      /\ pIndex = 1 /\ star = 0 /\ cIndex = 1
      /\ result = IF Patterns!NeedsLoop(container, contained) THEN "open"
                  ELSE IF Patterns!Straight(container, contained) THEN "yes" ELSE "no"
  BY <1>1 DEF Patterns!Init, Reads, Patterns!NoStar
<1>3. \A p \in Patterns!Valid : Len(p) \in Nat
  <2> SUFFICES ASSUME NEW p \in Patterns!Valid PROVE Len(p) \in Nat
    OBVIOUS
  <2>. QED
    BY PatternShape DEF Shaped
<1>4. Len(container) \in Nat /\ Len(contained) \in Nat /\ Len(word) \in Nat
  <2>1. CASE Patterns!IsDomain(contained)
    <3>1. Len(word) \in Nat
      BY <1>2, <2>1, ReadsShape DEF Shaped
    <3>. QED
      BY <1>2, <1>3, <3>1
  <2>2. CASE ~ Patterns!IsDomain(contained)
    BY <1>2, <1>3, <2>2 DEF Reads
  <2>. QED
    BY <2>1, <2>2
<1>5. PatternShapes
  BY <1>2, <1>4 DEF PatternShapes
<1>6. ASSUME result = "open" PROVE InLoop
  <2>1. Patterns!NeedsLoop(container, contained)
    BY <1>2, <1>6
  <2>2. Patterns!IsGlob(container)
    BY <2>1 DEF Patterns!NeedsLoop
  <2>3. Len(container) # 2
    <3> DEFINE n == Len(container)
    <3>1. container[1] # "@" /\ Shaped(container, Chars)
      BY <1>2, <2>2, PatternShape, KindsOfPattern DEF Patterns!IsGlob
    <3>2. n \in Nat /\ container[n - 1] = "@"
      BY <1>4, <3>1 DEF Shaped
    <3> HIDE DEF n
    <3>3. n # 2
      <4>1. 2 - 1 = 1
        OBVIOUS
      <4>. QED
        BY <3>1, <3>2, <4>1
    <3>. QED
      BY <3>3 DEF n
  <2>4. Len(container) >= 3
    <3> DEFINE n == Len(container)
    <3>1. n >= 2
      BY <1>2, <2>2, PatternShape, KindsOfPattern DEF Shaped
    <3>2. n \in Nat /\ n # 2
      BY <1>4, <2>3
    <3> HIDE DEF n
    <3>3. n >= 3
      BY <3>1, <3>2
    <3>. QED
      BY <3>3 DEF n
  <2>5. ASSUME NEW e \in Patterns!Addresses, Patterns!Plain(e), NEW f, Whole(word, e, f)
        PROVE  ReadSoFar(e, f[cIndex - 1])
    <3>1. f[0] = 0
      BY <2>5 DEF Whole, Path
    <3>2. 0 \in Patterns!Ends(container, e)[0]
      BY <1>4, EndsSteps
    <3>3. 1 - 1 = 0
      OBVIOUS
    <3>. QED
      BY <1>2, <3>1, <3>2, <3>3 DEF ReadSoFar
  <2>6. pIndex > AtOf(container) => cIndex > AtOf(word)
    BY <1>2, <1>4, <2>4 DEF AtOf
  <2>. QED
    BY <1>2, <2>1, <2>5, <2>6 DEF InLoop, KeepsUp
<1>7. ASSUME result = "yes" PROVE Contains
  <2>1. ~ Patterns!NeedsLoop(container, contained) /\ Patterns!Straight(container, contained)
    BY <1>2, <1>7
  <2>. QED
    BY <1>2, <2>1, StraightIsSound DEF Contains
<1>. QED
  BY <1>5, <1>6, <1>7

LEMMA PatternNext == PatternInv /\ [Next]_unionVars => PatternInv'
<1> SUFFICES ASSUME PatternInv, [Next]_unionVars, which' = "patterns"
             PROVE  PatternShapes' /\ (result' = "open" => InLoop') /\ (result' = "yes" => Contains')
  BY DEF PatternInv
<1> USE DEF patternVars, findVars, accessVars, onlineVars, flowVars, scheduleVars
<1>1. which' = which
  BY DEF Next, unionVars
<1>2. /\ which = "patterns" /\ PatternShapes
      /\ (result = "open" => InLoop) /\ (result = "yes" => Contains)
  BY <1>1 DEF PatternInv
<1>3. CASE UNCHANGED patternVars
  BY <1>2, <1>3 DEF PatternShapes, InLoop, KeepsUp, Swallowed, ReadSoFar, Contains
<1>4. Patterns!Next \/ UNCHANGED patternVars
  BY <1>1, <1>2 DEF Next, unionVars
<1>5. ASSUME result = "open", UNCHANGED <<container, contained, word, pIndex, star, cIndex>>,
             result' \in {"yes", "no"}, result' = "yes" => Contains
      PROVE  PatternShapes' /\ (result' = "open" => InLoop') /\ (result' = "yes" => Contains')
  BY <1>2, <1>5 DEF PatternShapes, Contains
<1>6. ASSUME result = "open", UNCHANGED <<result>>, PatternShapes' /\ InLoop'
      PROVE  PatternShapes' /\ (result' = "open" => InLoop') /\ (result' = "yes" => Contains')
  BY <1>6
<1>7. CASE Patterns!LastStar
  <2>1. result = "open" /\ result' = "yes" /\ UNCHANGED <<container, contained, word, pIndex, star, cIndex>>
    BY <1>7 DEF Patterns!LastStar, Patterns!Looping, Patterns!Answer
  <2>2. Contains
    BY <1>2, <1>7, <2>1, LastStarAnswer
  <2>. QED
    BY <1>5, <2>1, <2>2
<1>8. CASE Patterns!ReadStar
  <2>1. result = "open" /\ UNCHANGED <<result>>
    BY <1>8 DEF Patterns!ReadStar, Patterns!Looping, Patterns!Go
  <2>2. PatternShapes' /\ InLoop'
    BY <1>2, <1>8, <2>1, ReadStarStep
  <2>. QED
    BY <1>6, <2>1, <2>2
<1>9. CASE Patterns!SameChar
  <2>1. result = "open" /\ UNCHANGED <<result>>
    BY <1>9 DEF Patterns!SameChar, Patterns!Looping, Patterns!Go
  <2>2. PatternShapes' /\ InLoop'
    BY <1>2, <1>9, <2>1, SameCharStep
  <2>. QED
    BY <1>6, <2>1, <2>2
<1>10. CASE Patterns!StarOfOther \/ Patterns!OtherChar
  <2>1. result = "open" /\ cIndex <= Len(word) /\ ~ (star = Len(container))
    BY <1>10 DEF Patterns!StarOfOther, Patterns!OtherChar, Patterns!Looping, Patterns!StarIsLast
  <2>2. pIndex <= Len(container) => container[pIndex] # word[cIndex]
    BY <1>10 DEF Patterns!StarOfOther, Patterns!OtherChar, Patterns!PChar, Patterns!CChar
  <2>3. CASE star = 0
    <3>1. result' = "no" /\ UNCHANGED <<container, contained, word, pIndex, star, cIndex>>
      BY <1>10, <2>3 DEF Patterns!StarOfOther, Patterns!OtherChar, Patterns!NoStar, Patterns!Answer
    <3>. QED
      BY <1>5, <2>1, <3>1
  <2>4. CASE star # 0
    <3>1. /\ UNCHANGED <<container, contained, word, result, star>>
          /\ pIndex' = star + 1 /\ cIndex' = cIndex + 1
      BY <1>10, <2>4 DEF Patterns!StarOfOther, Patterns!OtherChar, Patterns!NoStar, Patterns!Go
    <3>2. PatternShapes' /\ InLoop'
      BY <1>2, <2>1, <2>2, <2>4, <3>1, BackStep
    <3>. QED
      BY <1>6, <2>1, <3>1, <3>2
  <2>. QED
    BY <2>3, <2>4
<1>11. CASE Patterns!LoopEnds
  <2>1. /\ result = "open" /\ result' = IF pIndex > Len(container) THEN "yes" ELSE "no"
        /\ UNCHANGED <<container, contained, word, pIndex, star, cIndex>>
    BY <1>11 DEF Patterns!LoopEnds, Patterns!Answer
  <2>2. result' = "yes" => Contains
    BY <1>2, <1>11, <2>1, LoopEndsAnswer
  <2>. QED
    BY <1>5, <2>1, <2>2
<1>. QED
  BY <1>3, <1>4, <1>7, <1>8, <1>9, <1>10, <1>11 DEF Patterns!Next

LEMMA PatternsHold == Spec => []PatternInv
BY PatternInit, PatternNext, PTL DEF Spec

(* A pattern of which contain says that it contains another one matches     *)
(* every email the other matches, whichever way the loop went, but for      *)
(* emails with a character a "*" does not stand for.                        *)
THEOREM ContainsSound == Spec => []ContainsIsSound
<1>1. ASSUME PatternInv PROVE ContainsIsSound
  BY <1>1 DEF PatternInv, PatternShapes, Contains, ContainsIsSound, Patterns!ContainsIsSound,
    Patterns!TypeOK
<1>. QED
  BY <1>1, PatternsHold, PTL

-----------------------------------------------------------------------------
(***************************************************************************)
(* The schedules of tasks: hours and days.                                  *)
(***************************************************************************)
LEMMA DayAssumption ==
  /\ Day \in Nat \ {0} /\ MaxTime \in Nat /\ Intervals \subseteq Nat \ {0}
  /\ NotChecked \notin Nat
BY DecisionsAssumption

LEMMA MoreTurns ==
  ASSUME NEW b \in Nat, NEW p \in Nat, NEW q \in Nat, p < q
  PROVE  p * b + b <= q * b
<1>1. PICK k \in Nat : q = p + 1 + k
  <2>1. q - p - 1 \in Nat /\ q = p + 1 + (q - p - 1)
    OBVIOUS
  <2>. QED
    BY <2>1
<1>2. q * b = p * b + b + k * b
  BY <1>1
<1>3. k * b >= 0 /\ k * b \in Int /\ p * b \in Int
  OBVIOUS
<1>. QED
  BY <1>2, <1>3

LEMMA Division ==
  ASSUME NEW b \in Nat \ {0}, NEW t \in Nat
  PROVE  /\ t \div b \in Nat /\ t % b \in 0..(b - 1)
         /\ t = (t \div b) * b + (t % b)
OBVIOUS

LEMMA DivisionUnique ==
  ASSUME NEW b \in Nat \ {0}, NEW q \in Nat, NEW r \in 0..(b - 1)
  PROVE  (q * b + r) \div b = q /\ (q * b + r) % b = r
<1> DEFINE t == q * b + r
           p == t \div b
           s == t % b
<1>1. q * b \in Nat /\ t \in Nat
  OBVIOUS
<1> HIDE DEF t
<1>2. p \in Nat /\ s \in 0..(b - 1) /\ t = p * b + s
  BY <1>1, Division
<1> HIDE DEF p, s
<1>3. t = q * b + r
  BY DEF t
<1>4. ~ (p < q)
  <2>1. p < q => p * b + b <= q * b
    BY <1>2, MoreTurns
  <2>2. p * b \in Int
    BY <1>2
  <2>. QED
    BY <1>1, <1>2, <1>3, <2>1, <2>2
<1>5. ~ (q < p)
  <2>1. q < p => q * b + b <= p * b
    BY <1>2, MoreTurns
  <2>2. p * b \in Int
    BY <1>2
  <2>. QED
    BY <1>1, <1>2, <1>3, <2>1, <2>2
<1>6. p = q
  BY <1>2, <1>4, <1>5
<1>7. s = r
  BY <1>1, <1>2, <1>3, <1>6
<1>. QED
  BY <1>6, <1>7 DEF p, s, t

(* What divides the day divides what is left of a time in its day as it     *)
(* divides the time.                                                        *)
LEMMA DayDivided ==
  ASSUME NEW b \in Nat \ {0}, NEW i \in Nat \ {0}, b % i = 0, NEW t \in Nat
  PROVE  (t % b) % i = t % i
<1> DEFINE d == t \div b
           r == t % b
           k == b \div i
           p == r \div i
           s == r % i
<1>1. d \in Nat /\ r \in Nat /\ t = d * b + r
  BY Division
<1>2. k \in Nat /\ b = k * i
  <2>1. b \div i \in Nat /\ b = (b \div i) * i + (b % i)
    BY Division
  <2>2. (b \div i) * i \in Nat
    BY <2>1
  <2>. QED
    BY <2>1, <2>2
<1> HIDE DEF d, r, k
<1>3. p \in Nat /\ s \in 0..(i - 1) /\ r = p * i + s
  BY <1>1, Division
<1> HIDE DEF p, s
<1> DEFINE q == d * k + p
<1>4. t = q * i + s /\ q \in Nat
  <2>1. d * b = d * (k * i)
    BY <1>2
  <2>2. d * (k * i) = (d * k) * i
    BY <1>1, <1>2
  <2>3. d * k \in Nat
    BY <1>1, <1>2
  <2>4. (d * k + p) * i = (d * k) * i + p * i
    BY <2>3, <1>3
  <2>5. (d * k) * i \in Nat /\ p * i \in Nat
    BY <2>3, <1>3
  <2>. QED
    BY <1>1, <1>3, <2>1, <2>2, <2>3, <2>4, <2>5
<1> HIDE DEF q
<1>5. t % i = s
  BY <1>3, <1>4, DivisionUnique
<1>. QED
  BY <1>5 DEF s, r


LEMMA TimesCompared ==
  ASSUME NEW b \in Nat \ {0}, NEW q \in Nat, NEW u \in Nat
  PROVE  /\ q * b \in Nat /\ u * b \in Nat
         /\ u * b + b <= q * b \/ u * b = q * b \/ u * b = q * b + b \/ q * b + 2 * b <= u * b
<1>1. q * b \in Nat /\ u * b \in Nat /\ (q + 1) * b = q * b + b
  OBVIOUS
<1>2. u < q => u * b + b <= q * b
  BY MoreTurns
<1>3. q + 1 < u => (q + 1) * b + b <= u * b
  BY MoreTurns
<1>4. u < q \/ u = q \/ u = q + 1 \/ q + 1 < u
  OBVIOUS
<1>. QED
  BY <1>1, <1>2, <1>3, <1>4

(***************************************************************************)
(* A list of hours: the next one, and no other in between.                  *)
(***************************************************************************)
LEMMA HoursOrdered ==
  ASSUME NEW h \in Schedule!HourLists
  PROVE  /\ Len(h) \in Nat \ {0} /\ DOMAIN h = 1..Len(h)
         /\ \A i \in 1..Len(h) : h[i] \in 0..(Day - 1)
         /\ \A j \in 1..Len(h) : \A i \in 1..Len(h) : i < j => h[i] < h[j]
<1>1. PICK n \in 1..Day : h \in [1..n -> 0..(Day - 1)]
  BY DEF Schedule!HourLists
<1>2. n \in Nat \ {0} /\ Day \in Nat
  BY DayAssumption
<1>3. Len(h) = n /\ DOMAIN h = 1..n
  BY <1>1, <1>2
<1>4. \A i \in 1..(n - 1) : h[i] < h[i + 1]
  BY <1>3 DEF Schedule!HourLists
<1>5. \A i \in 1..n : h[i] \in Nat
  BY <1>1, <1>2
<1> DEFINE Bad == {j \in 1..n : \E i \in 1..n : i < j /\ ~ (h[i] < h[j])}
<1>6. Bad = {}
  <2> SUFFICES ASSUME Bad # {} PROVE FALSE
    OBVIOUS
  <2>1. PICK j \in Bad : \A m \in Bad : j <= m
    <3>1. Bad \subseteq Nat
      BY <1>2
    <3> HIDE DEF Bad
    <3>. QED
      BY <3>1, LeastExists
  <2>2. PICK i \in 1..n : i < j /\ ~ (h[i] < h[j])
    OBVIOUS
  <2>3. j - 1 \in 1..n /\ j - 1 \in 1..(n - 1) /\ (j - 1) + 1 = j /\ j \in 1..n /\ ~ (j <= j - 1)
    BY <1>2, <2>2
  <2>4. j - 1 \notin Bad
    BY <2>1, <2>3
  <2>5. h[j - 1] < h[j]
    BY <1>4, <2>3
  <2>6. i = j - 1 \/ i < j - 1
    BY <2>2, <2>3
  <2>7. h[i] \in Nat /\ h[j] \in Nat /\ h[j - 1] \in Nat
    BY <1>5, <2>3
  <2>8. i < j - 1 => h[i] < h[j - 1]
    BY <2>2, <2>3, <2>4
  <2>. QED
    BY <2>2, <2>5, <2>6, <2>7, <2>8
<1>7. \A j \in 1..n : \A i \in 1..n : i < j => h[i] < h[j]
  BY <1>6
<1>. QED
  BY <1>1, <1>2, <1>3, <1>7

InHours(t) == t % Day \in {hours[i] : i \in 1..Len(hours)}

LEMMA NextHour ==
  ASSUME hours \in Schedule!HourLists, NEW k \in 1..Len(hours), NEW run \in Nat,
         run % Day = hours[k]
  PROVE  /\ Schedule!After(k) \in 1..Len(hours)
         /\ Schedule!Diff(Schedule!After(k)) \in 1..Day
         /\ (run + Schedule!Diff(Schedule!After(k))) % Day = hours[Schedule!After(k)]
         /\ \A t \in Nat :
              run < t /\ t < run + Schedule!Diff(Schedule!After(k)) => ~ InHours(t)
<1> DEFINE n == Len(hours)
           a == Schedule!After(k)
           d == Schedule!Diff(a)
<1>1. /\ n \in Nat \ {0} /\ k \in 1..n /\ \A i \in 1..n : hours[i] \in 0..(Day - 1)
      /\ \A j \in 1..n : \A i \in 1..n : i < j => hours[i] < hours[j]
  BY HoursOrdered
<1>2. Day \in Nat \ {0}
  BY DayAssumption
<1>3. PICK q \in Nat, Q \in Nat : Q = q * Day /\ run = Q + hours[k] /\ (q + 1) * Day = Q + Day
  <2> DEFINE p == run \div Day
  <2>1. p \in Nat /\ run = p * Day + hours[k]
    BY <1>2, Division
  <2> HIDE DEF p
  <2>2. p * Day \in Nat /\ (p + 1) * Day = p * Day + Day
    BY <1>2, <2>1
  <2>. QED
    BY <2>1, <2>2
<1>4. a = IF k = n THEN 1 ELSE k + 1
  BY DEF Schedule!After
<1> HIDE DEF a
<1>5. d = IF n = 1 THEN Day ELSE IF a = 1 THEN Day - hours[n] + hours[1] ELSE hours[a] - hours[a - 1]
  BY DEF Schedule!Diff
<1> HIDE DEF n, d
<1>6. a \in 1..n
  BY <1>1, <1>4
<1>7. CASE k = n
  <2>1. a = 1 /\ d = Day - hours[k] + hours[1] /\ hours[1] \in 0..(Day - 1) /\ hours[k] \in 0..(Day - 1)
    BY <1>1, <1>2, <1>4, <1>5, <1>7
  <2>2. hours[1] <= hours[k]
    BY <1>1, <1>7, <2>1
  <2>3. d \in 1..Day
    BY <1>2, <2>1, <2>2
  <2>4. run + d = (q + 1) * Day + hours[1]
    <3>1. run + d = Q + Day + hours[1]
      <4> DEFINE x == hours[k]
                 z == hours[1]
      <4>1. x \in Int /\ z \in Int /\ d = Day - x + z /\ Day \in Int /\ Q \in Int
        BY <1>2, <2>1
      <4>5. run = Q + x
        BY <1>3
      <4> HIDE DEF x, z
      <4>2. run + d = Q + Day + z
        BY <4>1, <4>5
      <4>. QED
        BY <4>2 DEF z
    <3>. QED
      BY <1>3, <3>1
  <2>5. (run + d) % Day = hours[a]
    <3>1. q + 1 \in Nat
      BY <1>3
    <3>2. ((q + 1) * Day + hours[1]) % Day = hours[1]
      BY <1>2, <2>1, <3>1, DivisionUnique
    <3>. QED
      BY <2>1, <2>4, <3>2
  <2>6. ASSUME NEW t \in Nat, run < t, t < run + d, InHours(t) PROVE FALSE
    <3>1. PICK i \in 1..n : t % Day = hours[i]
      BY <2>6 DEF InHours, n
    <3>2. PICK u \in Nat, U \in Nat : U = u * Day /\ t = U + hours[i]
      <4> DEFINE p == t \div Day
      <4>1. p \in Nat /\ t = p * Day + hours[i]
        BY <1>2, <3>1, Division
      <4> HIDE DEF p
      <4>2. p * Day \in Nat
        BY <1>2, <4>1
      <4>. QED
        BY <4>1, <4>2
    <3>3. U + Day <= Q \/ U = Q \/ U = Q + Day \/ Q + 2 * Day <= U
      BY <1>2, <1>3, <3>2, TimesCompared
    <3>4. hours[i] <= hours[k] /\ hours[1] <= hours[i] /\ hours[i] \in 0..(Day - 1)
      <4>1. 1 \in 1..n /\ k \in 1..n /\ (i < k \/ i = k) /\ (1 < i \/ 1 = i)
        BY <1>1, <1>7
      <4>2. hours[1] \in 0..(Day - 1) /\ hours[i] \in 0..(Day - 1) /\ hours[k] \in 0..(Day - 1)
        BY <1>1, <4>1
      <4>3. (i < k => hours[i] < hours[k]) /\ (1 < i => hours[1] < hours[i])
        BY <1>1, <4>1
      <4>4. \A x \in 0..(Day - 1) : x \in Nat
        BY <1>2
      <4>. QED
        BY <4>1, <4>2, <4>3, <4>4
    <3>5. run = Q + hours[k] /\ t = U + hours[i] /\ run < t /\ t < run + d
      BY <1>3, <2>6, <3>2
    <3> DEFINE x == hours[k]
               y == hours[i]
               z == hours[1]
    <3>6. /\ x \in Int /\ y \in Int /\ z \in Int /\ Day \in Int /\ Q \in Int /\ U \in Int
          /\ 0 <= y /\ y < Day /\ 0 <= x /\ x < Day /\ y <= x /\ z <= y /\ 0 <= z
          /\ d = Day - x + z
      BY <1>2, <2>1, <3>4
    <3>7. run = Q + x /\ t = U + y /\ run < t /\ t < run + d
      BY <3>5
    <3> HIDE DEF x, y, z
    <3>. QED
      BY <3>3, <3>6, <3>7
  <2>. QED
    BY <1>6, <2>3, <2>5, <2>6 DEF n, a, d
<1>8. CASE k # n
  <2>1. n # 1 /\ a = k + 1 /\ a # 1 /\ a - 1 = k /\ a \in 1..n /\ k \in 1..n
    BY <1>1, <1>4, <1>6, <1>8 DEF n
  <2>2. d = hours[a] - hours[k] /\ hours[k] < hours[a]
        /\ hours[a] \in 0..(Day - 1) /\ hours[k] \in 0..(Day - 1)
    BY <1>1, <1>5, <2>1
  <2>3. d \in 1..Day
    BY <1>2, <2>2
  <2>4. run + d = q * Day + hours[a]
    <3>1. run + d = Q + hours[a]
      <4>1. hours[k] \in Int /\ hours[a] \in Int
        BY <2>2
      <4>. QED
        BY <1>3, <2>2, <4>1
    <3>. QED
      BY <1>3, <3>1
  <2>5. (run + d) % Day = hours[a]
    <3>1. (q * Day + hours[a]) % Day = hours[a]
      BY <1>2, <2>2, DivisionUnique
    <3>. QED
      BY <2>4, <3>1
  <2>6. ASSUME NEW t \in Nat, run < t, t < run + d, InHours(t) PROVE FALSE
    <3>1. PICK i \in 1..n : t % Day = hours[i]
      BY <2>6 DEF InHours, n
    <3>2. PICK u \in Nat, U \in Nat : U = u * Day /\ t = U + hours[i]
      <4> DEFINE p == t \div Day
      <4>1. p \in Nat /\ t = p * Day + hours[i]
        BY <1>2, <3>1, Division
      <4> HIDE DEF p
      <4>2. p * Day \in Nat
        BY <1>2, <4>1
      <4>. QED
        BY <4>1, <4>2
    <3>3. U + Day <= Q \/ U = Q \/ U = Q + Day \/ Q + 2 * Day <= U
      BY <1>2, <1>3, <3>2, TimesCompared
    <3>4. (hours[i] <= hours[k] \/ hours[a] <= hours[i]) /\ hours[i] \in 0..(Day - 1)
      <4>1. i < k \/ i = k \/ i = a \/ a < i
        BY <1>1, <2>1
      <4>2. hours[i] \in 0..(Day - 1)
        BY <1>1
      <4>3. (i < k => hours[i] < hours[k]) /\ (a < i => hours[a] < hours[i])
        BY <1>1, <2>1
      <4>4. \A x \in 0..(Day - 1) : x \in Nat
        BY <1>2
      <4>. QED
        BY <2>2, <4>1, <4>2, <4>3, <4>4
    <3>5. run = Q + hours[k] /\ t = U + hours[i] /\ run < t /\ t < run + d
      BY <1>3, <2>6, <3>2
    <3> DEFINE x == hours[k]
               y == hours[i]
               z == hours[a]
    <3>6. /\ x \in Int /\ y \in Int /\ z \in Int /\ Day \in Int /\ Q \in Int /\ U \in Int
          /\ 0 <= y /\ y < Day /\ 0 <= x /\ z < Day /\ (y <= x \/ z <= y) /\ d = z - x
      BY <1>2, <2>2, <3>4
    <3>7. run = Q + x /\ t = U + y /\ run < t /\ t < run + d
      BY <3>5
    <3> HIDE DEF x, y, z
    <3>. QED
      BY <3>3, <3>6, <3>7
  <2>. QED
    BY <1>6, <2>3, <2>5, <2>6 DEF n, a, d
<1>. QED
  BY <1>7, <1>8


(***************************************************************************)
(* The loop that advances _next_runtime ends, at the first hour of the list *)
(* after now.                                                               *)
(***************************************************************************)
Turns == MaxTime + Day

Ahead(last) ==
  IF last.run > now THEN last
  ELSE [run |-> last.run + Schedule!Diff(Schedule!After(last.at)), at |-> Schedule!After(last.at)]

LEMMA LoopExists ==
  ASSUME NEW N \in Nat, NEW start
  PROVE  \E loop : loop = [n \in 0..N |-> IF n = 0 THEN start ELSE Ahead(loop[n - 1])]
<1> DEFINE Loop(k, loop) == loop = [n \in 0..k |-> IF n = 0 THEN start ELSE Ahead(loop[n - 1])]
           Without == {k \in Nat : ~ \E loop : Loop(k, loop)}
<1>1. SUFFICES ASSUME Without # {} PROVE FALSE
  OBVIOUS
<1>2. PICK k \in Without : \A m \in Without : k <= m
  <2>1. Without \subseteq Nat
    OBVIOUS
  <2> HIDE DEF Without
  <2>. QED
    BY <1>1, <2>1, LeastExists
<1>3. k # 0
  <2>1. Loop(0, [n \in 0..0 |-> start])
    OBVIOUS
  <2>. QED
    BY <2>1
<1>4. k - 1 \in Nat /\ k - 1 \notin Without
  <2>1. k \in Nat
    OBVIOUS
  <2> HIDE DEF Without
  <2>. QED
    BY <1>2, <1>3, <2>1
<1>5. PICK loop : Loop(k - 1, loop)
  BY <1>4
<1> DEFINE more == [n \in 0..k |-> IF n = 0 THEN start ELSE Ahead(loop[n - 1])]
<1>6. \A n \in 0..k - 1 : more[n] = loop[n]
  BY <1>4, <1>5
<1>7. more = [n \in 0..k |-> IF n = 0 THEN start ELSE Ahead(more[n - 1])]
  <2>1. \A n \in 0..k : n # 0 => n - 1 \in 0..k - 1
    BY <1>4
  <2>2. \A n \in 0..k : n # 0 => loop[n - 1] = more[n - 1]
    BY <1>6, <2>1
  <2> DEFINE other == [n \in 0..k |-> IF n = 0 THEN start ELSE Ahead(more[n - 1])]
  <2>3. \A n \in 0..k : more[n] = other[n]
    BY <2>2
  <2>. QED
    BY <2>3
<1>8. Loop(k, more)
  BY <1>7
<1> HIDE DEF more
<1>. QED
  BY <1>2, <1>8

LEMMA LoopSteps ==
  ASSUME NEW from, NEW at
  PROVE  \E loop : /\ Schedule!Advanced(from, at) = loop[Turns]
                   /\ loop[0] = [run |-> from, at |-> at]
                   /\ \A n \in 1..Turns : loop[n] = Ahead(loop[n - 1])
<1> DEFINE start == [run |-> from, at |-> at]
<1>0. Turns \in Nat
  BY DayAssumption DEF Turns
<1> DEFINE loop == CHOOSE f : f = [n \in 0..Turns |-> IF n = 0 THEN start ELSE Ahead(f[n - 1])]
<1> HIDE DEF start
<1>1. loop = [n \in 0..Turns |-> IF n = 0 THEN start ELSE Ahead(loop[n - 1])]
  BY <1>0, LoopExists
<1>2. Schedule!Advanced(from, at) = loop[Turns]
  BY DEF Schedule!Advanced, Ahead, Turns, start
<1> HIDE DEF loop
<1>3. loop[0] = start /\ \A n \in 1..Turns : loop[n] = Ahead(loop[n - 1])
  BY <1>0, <1>1
<1>. QED
  BY <1>2, <1>3 DEF start

(* No hour of the list between now and run, which is the hour at.          *)
OnTheWay(run, at) ==
  /\ run \in Nat /\ at \in 1..Len(hours) /\ run % Day = hours[at] /\ run <= now + Day
  /\ \A t \in Nat : now < t /\ t < run => ~ InHours(t)

LEMMA AheadStep ==
  ASSUME hours \in Schedule!HourLists, now \in Nat, NEW last, OnTheWay(last.run, last.at),
         ~ (last.run > now)
  PROVE  OnTheWay(Ahead(last).run, Ahead(last).at) /\ Ahead(last).run >= last.run + 1
<1> DEFINE a == Schedule!After(last.at)
           d == Schedule!Diff(a)
           run == last.run
<1>1. run \in Nat /\ last.at \in 1..Len(hours) /\ run % Day = hours[last.at] /\ run <= now
  BY DEF OnTheWay
<1>2. a \in 1..Len(hours) /\ d \in 1..Day /\ (run + d) % Day = hours[a]
      /\ \A t \in Nat : run < t /\ t < run + d => ~ InHours(t)
  BY <1>1, NextHour
<1>3. Ahead(last).run = run + d /\ Ahead(last).at = a
  BY DEF Ahead
<1>4. Day \in Nat
  BY DayAssumption
<1> HIDE DEF a, d, run
<1>5. run + d \in Nat /\ run + d <= now + Day /\ run + d >= run + 1
  BY <1>1, <1>2, <1>4
<1>6. \A t \in Nat : now < t => run < t
  BY <1>1
<1>. QED
  BY <1>2, <1>3, <1>5, <1>6 DEF OnTheWay, run

LEMMA AdvancedIsNext ==
  ASSUME hours \in Schedule!HourLists, now \in 0..(Turns - 1), NEW from, NEW at, OnTheWay(from, at)
  PROVE  LET next == Schedule!Advanced(from, at)
         IN  OnTheWay(next.run, next.at) /\ next.run > now
<1>1. PICK loop : /\ Schedule!Advanced(from, at) = loop[Turns]
                  /\ loop[0] = [run |-> from, at |-> at]
                  /\ \A n \in 1..Turns : loop[n] = Ahead(loop[n - 1])
  BY LoopSteps
<1>2. Turns \in Nat /\ now \in Nat
  BY DayAssumption DEF Turns
<1> DEFINE Fine(n) == /\ OnTheWay(loop[n].run, loop[n].at)
                      /\ loop[n].run > now \/ loop[n].run >= n
           Bad == {n \in 0..Turns : ~ Fine(n)}
<1>3. Bad = {}
  <2> SUFFICES ASSUME Bad # {} PROVE FALSE
    OBVIOUS
  <2>1. PICK n \in Bad : \A m \in Bad : n <= m
    <3>1. Bad \subseteq Nat
      BY <1>2
    <3> HIDE DEF Bad
    <3>. QED
      BY <3>1, LeastExists
  <2>2. n # 0
    <3>1. loop[0].run = from /\ loop[0].at = at
      BY <1>1
    <3>2. from >= 0
      BY DEF OnTheWay
    <3>3. Fine(0)
      BY <3>1, <3>2
    <3>. QED
      BY <3>3
  <2>3. n \in 1..Turns /\ n - 1 \in 0..Turns /\ n - 1 \notin Bad
    <3>1. n \in 1..Turns /\ n - 1 \in 0..Turns /\ ~ (n <= n - 1)
      BY <1>2, <2>2
    <3>. QED
      BY <2>1, <3>1
  <2> DEFINE last == loop[n - 1]
             next == loop[n]
  <2>4. OnTheWay(last.run, last.at) /\ (last.run > now \/ last.run >= n - 1)
    BY <2>3
  <2>5. next = Ahead(last)
    BY <1>1, <2>3
  <2> HIDE DEF last, next
  <2>6. last.run \in Nat
    BY <2>4 DEF OnTheWay
  <2>7. OnTheWay(next.run, next.at) /\ (next.run > now \/ next.run >= n)
    <3>1. CASE last.run > now
      <4>1. next = last
        BY <2>5, <3>1 DEF Ahead
      <4>. QED
        BY <2>4, <3>1, <4>1
    <3>2. CASE ~ (last.run > now)
      <4>1. OnTheWay(next.run, next.at) /\ next.run >= last.run + 1 /\ last.run >= n - 1
        BY <1>2, <2>4, <2>5, <3>2, AheadStep
      <4>2. next.run \in Nat
        BY <4>1 DEF OnTheWay
      <4>3. next.run >= n
        BY <2>3, <2>6, <4>1, <4>2
      <4>. QED
        BY <4>1, <4>3
    <3>. QED
      BY <3>1, <3>2
  <2>8. Fine(n)
    BY <2>7 DEF next
  <2>. QED
    BY <2>1, <2>8
<1>4. Fine(Turns)
  BY <1>2, <1>3
<1> DEFINE next == loop[Turns]
<1>5. OnTheWay(next.run, next.at) /\ (next.run > now \/ next.run >= Turns)
  BY <1>4
<1> HIDE DEF next
<1>6. next.run \in Nat /\ now < Turns
  BY <1>2, <1>5 DEF OnTheWay
<1>7. next.run > now
  BY <1>2, <1>5, <1>6
<1>. QED
  BY <1>1, <1>5, <1>7 DEF next


LEMMA FirstHour ==
  ASSUME hours \in Schedule!HourLists, now \in Nat
  PROVE  OnTheWay(Schedule!Midnight + hours[1], 1)
<1> DEFINE z == hours[1]
<1>1. Day \in Nat \ {0}
  BY DayAssumption
<1>2. PICK q \in Nat, Q \in Nat : Q = q * Day /\ Q = Schedule!Midnight /\ Q <= now /\ now < Q + Day
  <2> DEFINE p == now \div Day
             r == now % Day
  <2>1. p \in Nat /\ r \in 0..(Day - 1) /\ now = p * Day + r
    BY <1>1, Division
  <2>2. Schedule!Midnight = p * Day
    BY DEF Schedule!Midnight
  <2> HIDE DEF p, r
  <2>3. p * Day \in Nat
    BY <1>1, <2>1
  <2>4. p * Day <= now /\ now < p * Day + Day
    BY <1>1, <2>1, <2>3
  <2>. QED
    BY <2>1, <2>2, <2>3, <2>4
<1>3. 1 \in 1..Len(hours) /\ z \in 0..(Day - 1)
  BY HoursOrdered
<1>4. \A i \in 1..Len(hours) : hours[i] \in 0..(Day - 1) /\ (1 < i => z < hours[i])
  BY <1>3, HoursOrdered
<1> HIDE DEF z
<1>5. (Q + z) % Day = z
  BY <1>1, <1>2, <1>3, DivisionUnique
<1>6. Q + z \in Nat /\ Q + z <= now + Day
  <2>1. Q \in Nat /\ Q <= now
    BY <1>2
  <2>. QED
    BY <1>1, <1>3, <2>1
<1>7. ASSUME NEW t \in Nat, now < t, t < Q + z, InHours(t) PROVE FALSE
  <2>1. PICK i \in 1..Len(hours) : t % Day = hours[i]
    BY <1>7 DEF InHours
  <2> DEFINE y == hours[i]
  <2>2. PICK u \in Nat, U \in Nat : U = u * Day /\ t = U + y
    <3> DEFINE p == t \div Day
    <3>1. p \in Nat /\ t = p * Day + y
      BY <1>1, <2>1, Division
    <3> HIDE DEF p
    <3>2. p * Day \in Nat
      BY <1>1, <3>1
    <3>. QED
      BY <3>1, <3>2
  <2>3. U + Day <= Q \/ U = Q \/ U = Q + Day \/ Q + 2 * Day <= U
    BY <1>1, <1>2, <2>2, TimesCompared
  <2>4. y \in Int /\ 0 <= y /\ y < Day /\ z <= y /\ z \in Int
    <3>1. y \in 0..(Day - 1) /\ (1 < i => z < y) /\ (i = 1 => z = y) /\ i \in Nat /\ i >= 1
      BY <1>4 DEF z
    <3>. QED
      BY <1>1, <1>3, <3>1
  <2> HIDE DEF y
  <2>5. t = U + y /\ Q <= now /\ Q \in Int /\ U \in Int
    BY <1>2, <2>2
  <2>. QED
    BY <1>1, <1>7, <2>3, <2>4, <2>5
<1>8. \A t \in Nat : now < t /\ t < Q + z => ~ InHours(t)
  BY <1>7
<1>9. OnTheWay(Q + z, 1)
  BY <1>3, <1>5, <1>6, <1>8 DEF OnTheWay, z
<1>. QED
  BY <1>2, <1>9 DEF z

(* An interval: its next multiple.                                          *)
LEMMA IntervalType ==
  ASSUME now \in Nat, interval \in Nat \ {0}
  PROVE  /\ Schedule!NextInterval \in Nat /\ Schedule!NextInterval > now
         /\ Schedule!NextInterval = now + (interval - ((now % Day) % interval))
<1> DEFINE p == now \div Day
           r == now % Day
           s == r % interval
<1>1. Day \in Nat \ {0}
  BY DayAssumption
<1>2. p \in Nat /\ r \in 0..(Day - 1) /\ now = p * Day + r
  BY <1>1, Division
<1>3. Schedule!NextInterval = p * Day + r + (interval - s)
  BY DEF Schedule!NextInterval, Schedule!Midnight
<1>4. r \in Nat
  BY <1>1, <1>2
<1> HIDE DEF r
<1>5. s \in 0..(interval - 1)
  BY <1>4, Division
<1> HIDE DEF p, s
<1>6. Schedule!NextInterval = now + (interval - s)
  <2>1. p * Day + r = now
    BY <1>2
  <2>. QED
    BY <1>3, <2>1
<1>7. now + (interval - s) \in Nat /\ now + (interval - s) > now
  BY <1>5
<1>. QED
  BY <1>6, <1>7 DEF r, s

LEMMA IntervalIsNext ==
  ASSUME now \in Nat, interval \in Nat \ {0}, Day % interval = 0
  PROVE  /\ (Schedule!NextInterval % Day) % interval = 0
         /\ Schedule!NextInterval <= now + Day
         /\ \A t \in Nat : now < t /\ t < Schedule!NextInterval => (t % Day) % interval # 0
<1> DEFINE next == Schedule!NextInterval
           s == now % interval
<1>1. Day \in Nat \ {0}
  BY DayAssumption
<1>2. next \in Nat /\ next = now + (interval - ((now % Day) % interval))
  BY IntervalType
<1>3. \A t \in Nat : (t % Day) % interval = t % interval
  BY <1>1, DayDivided
<1>4. next = now + (interval - s)
  BY <1>2, <1>3
<1>5. PICK q \in Nat, Q \in Nat : Q = q * interval /\ now = Q + s /\ (q + 1) * interval = Q + interval
  <2> DEFINE p == now \div interval
  <2>1. p \in Nat /\ now = p * interval + s
    BY Division
  <2> HIDE DEF p, s
  <2>2. p * interval \in Nat /\ (p + 1) * interval = p * interval + interval
    BY <2>1
  <2>. QED
    BY <2>1, <2>2
<1>6. s \in 0..(interval - 1)
  BY Division
<1> HIDE DEF next, s
<1>7. next = Q + interval
  <2>1. now = Q + s /\ Q \in Nat
    BY <1>5
  <2>. QED
    BY <1>4, <1>6, <2>1
<1>8. next % interval = 0
  <2>1. q + 1 \in Nat /\ 0 \in 0..(interval - 1)
    BY <1>5
  <2>2. ((q + 1) * interval + 0) % interval = 0
    BY <2>1, DivisionUnique
  <2>3. (q + 1) * interval + 0 = next
    <3>1. (q + 1) * interval = next /\ next \in Nat
      BY <1>2, <1>5, <1>7
    <3>. QED
      BY <3>1
  <2>. QED
    BY <2>2, <2>3
<1>9. interval <= Day
  <2> DEFINE k == Day \div interval
  <2>1. k \in Nat /\ Day = k * interval + (Day % interval)
    BY <1>1, Division
  <2> HIDE DEF k
  <2>2. k * interval \in Nat
    BY <2>1
  <2>3. Day = k * interval
    BY <2>1, <2>2
  <2>4. k # 0
    BY <1>1, <2>3
  <2>5. 0 < k => 0 * interval + interval <= k * interval
    BY <2>1, MoreTurns
  <2>6. 0 * interval = 0
    OBVIOUS
  <2>. QED
    BY <2>1, <2>3, <2>4, <2>5, <2>6
<1>10. ASSUME NEW t \in Nat, now < t, t < next, t % interval = 0 PROVE FALSE
  <2>1. PICK u \in Nat, U \in Nat : U = u * interval /\ t = U
    <3> DEFINE p == t \div interval
    <3>1. p \in Nat /\ t = p * interval + 0
      BY <1>10, Division
    <3> HIDE DEF p
    <3>2. p * interval \in Nat
      BY <3>1
    <3>. QED
      BY <3>1, <3>2
  <2>2. U + interval <= Q \/ U = Q \/ U = Q + interval \/ Q + 2 * interval <= U
    BY <1>5, <2>1, TimesCompared
  <2>3. t = U /\ now = Q + s /\ next = Q + interval
    BY <1>5, <1>7, <2>1
  <2>. QED
    BY <1>6, <1>10, <2>2, <2>3
<1>11. next <= now + Day
  BY <1>1, <1>2, <1>4, <1>6, <1>9
<1>. QED
  BY <1>2, <1>3, <1>8, <1>10, <1>11 DEF next


(***************************************************************************)
(* The time of the next run is the first time of the schedule after the     *)
(* last check.                                                              *)
(***************************************************************************)
Due(t) == IF interval = 0 THEN InHours(t) ELSE (t % Day) % interval = 0

TaskShapes ==
  /\ \/ interval \in Intervals /\ hours = <<>>
     \/ interval = 0 /\ hours \in Schedule!HourLists
  /\ now \in 0..(Turns - 1)
  /\ nextRun = NotChecked \/ nextRun \in Nat
  /\ nextRun = NotChecked <=> checked = NotChecked
  /\ interval = 0 => index \in 1..Len(hours)

NextIsFirst ==
  /\ checked \in 0..now /\ nextRun \in Nat /\ nextRun > checked
  /\ interval = 0 => nextRun % Day = hours[index]
  /\ Schedule!Divides =>
       /\ Due(nextRun) /\ nextRun <= checked + Day
       /\ \A t \in Nat : checked < t /\ t < nextRun => ~ Due(t)

ScheduleInv ==
  which = "schedule" => TaskShapes /\ (checked # NotChecked => NextIsFirst)

LEMMA ScheduleInit == Init => ScheduleInv
<1> SUFFICES ASSUME Init, which = "schedule" PROVE TaskShapes /\ checked = NotChecked
  BY DEF ScheduleInv
<1>1. Schedule!Init
  BY DEF Init
<1>2. Day \in Nat \ {0} /\ MaxTime \in Nat /\ Intervals \subseteq Nat \ {0}
  BY DayAssumption
<1>3. interval = 0 => index \in 1..Len(hours)
  <2>1. interval = 0 => hours \in Schedule!HourLists
    BY <1>1, <1>2 DEF Schedule!Init
  <2>2. index = 1
    BY <1>1 DEF Schedule!Init
  <2>. QED
    BY <2>1, <2>2, HoursOrdered
<1>4. now \in 0..(Turns - 1)
  BY <1>1, <1>2 DEF Schedule!Init, Turns
<1>. QED
  BY <1>1, <1>3, <1>4 DEF Schedule!Init, TaskShapes

LEMMA ScheduleNext == ScheduleInv /\ [Next]_unionVars => ScheduleInv'
<1> SUFFICES ASSUME ScheduleInv, [Next]_unionVars, which' = "schedule"
             PROVE  TaskShapes' /\ (checked' # NotChecked => NextIsFirst')
  BY DEF ScheduleInv
<1> USE DEF patternVars, findVars, accessVars, onlineVars, flowVars, scheduleVars
<1>1. which' = which
  BY DEF Next, unionVars
<1>2. TaskShapes /\ (checked # NotChecked => NextIsFirst)
  BY <1>1 DEF ScheduleInv
<1>3. Schedule!Next \/ UNCHANGED scheduleVars
  BY <1>1 DEF Next, unionVars
<1>4. /\ Day \in Nat \ {0} /\ MaxTime \in Nat /\ Intervals \subseteq Nat \ {0} /\ NotChecked \notin Nat
      /\ Turns \in Nat /\ Turns = MaxTime + Day
  BY DayAssumption DEF Turns
<1>5. CASE UNCHANGED scheduleVars
  <2>1. UNCHANGED <<interval, hours, now, nextRun, index, checked>>
    BY <1>5
  <2>. QED
    BY <1>2, <2>1 DEF TaskShapes, NextIsFirst, Due, InHours, Schedule!Divides
<1>6. CASE Schedule!Tick
  <2>1. UNCHANGED <<interval, hours, nextRun, index, checked>> /\ now < MaxTime /\ now' = now + 1
    BY <1>6 DEF Schedule!Tick
  <2>2. now' \in 0..(Turns - 1) /\ \A c \in 0..now : c \in 0..now'
    BY <1>2, <1>4, <2>1 DEF TaskShapes
  <2>3. TaskShapes'
    BY <1>2, <2>1, <2>2 DEF TaskShapes
  <2>. QED
    BY <1>2, <2>1, <2>2, <2>3 DEF NextIsFirst, Due, InHours, Schedule!Divides
<1>7. CASE Schedule!TooEarly
  <2>1. UNCHANGED <<interval, hours, now, nextRun, index>> /\ nextRun # NotChecked
        /\ nextRun > now /\ checked' = now
    BY <1>7 DEF Schedule!TooEarly
  <2>2. now \in Nat
    BY <1>2, <1>4 DEF TaskShapes
  <2>3. NextIsFirst /\ nextRun \in Nat /\ checked \in Nat /\ checked <= now
    BY <1>2, <1>4, <2>1, <2>2 DEF TaskShapes, NextIsFirst
  <2>4. TaskShapes'
    BY <1>2, <1>4, <2>1, <2>2 DEF TaskShapes
  <2>5. checked' \in 0..now' /\ nextRun' \in Nat /\ nextRun' > checked'
    BY <2>1, <2>2, <2>3
  <2>6. nextRun <= checked + Day => nextRun' <= checked' + Day
    BY <1>4, <2>1, <2>2, <2>3
  <2>7. \A t \in Nat : now < t => checked < t
    BY <2>2, <2>3
  <2>. QED
    BY <2>1, <2>3, <2>4, <2>5, <2>6, <2>7 DEF NextIsFirst, Due, InHours, Schedule!Divides
<1>8. ASSUME Schedule!Reschedule, checked' = now, UNCHANGED <<interval, hours, now>>,
             nextRun = NotChecked \/ nextRun <= now
      PROVE  TaskShapes' /\ NextIsFirst'
  <2>1. now \in 0..(Turns - 1) /\ now \in Nat
    BY <1>2, <1>4 DEF TaskShapes
  <2>2. CASE interval = 0
    <3>1. hours \in Schedule!HourLists /\ index \in 1..Len(hours)
      BY <1>2, <1>4, <2>2 DEF TaskShapes
    <3>2. PICK from, at : /\ OnTheWay(from, at)
                          /\ nextRun' = Schedule!Advanced(from, at).run
                          /\ index' = Schedule!Advanced(from, at).at
      <4>1. CASE nextRun = NotChecked
        <5>1. OnTheWay(Schedule!Midnight + hours[1], 1)
          BY <2>1, <3>1, FirstHour
        <5>. QED
          BY <1>8, <2>2, <4>1, <5>1 DEF Schedule!Reschedule
      <4>2. CASE nextRun # NotChecked
        <5>1. nextRun \in Nat /\ nextRun <= now /\ NextIsFirst
          BY <1>2, <1>8, <4>2 DEF TaskShapes
        <5>2. nextRun <= now + Day /\ \A t \in Nat : ~ (now < t /\ t < nextRun)
          BY <1>4, <2>1, <5>1
        <5>3. OnTheWay(nextRun, index)
          BY <2>2, <3>1, <5>1, <5>2 DEF OnTheWay, NextIsFirst
        <5>. QED
          BY <1>8, <2>2, <4>2, <5>3 DEF Schedule!Reschedule
      <4>. QED
        BY <4>1, <4>2
    <3>3. OnTheWay(nextRun', index') /\ nextRun' > now
      BY <2>1, <3>1, <3>2, AdvancedIsNext
    <3>4. /\ nextRun' \in Nat /\ index' \in 1..Len(hours) /\ nextRun' % Day = hours[index']
          /\ nextRun' <= now + Day /\ \A t \in Nat : now < t /\ t < nextRun' => ~ InHours(t)
      BY <3>3 DEF OnTheWay
    <3>5. TaskShapes'
      BY <1>2, <1>4, <1>8, <2>1, <2>2, <3>1, <3>4 DEF TaskShapes
    <3>6. InHours(nextRun')
      BY <3>4 DEF InHours
    <3>7. NextIsFirst'
      BY <1>8, <2>1, <2>2, <3>3, <3>4, <3>6 DEF NextIsFirst, Due, InHours
    <3>. QED
      BY <3>5, <3>7
  <2>3. CASE interval # 0
    <3>1. interval \in Nat \ {0}
      BY <1>2, <1>4, <2>3 DEF TaskShapes
    <3>2. nextRun' = Schedule!NextInterval
      BY <1>8, <2>3 DEF Schedule!Reschedule
    <3>3. nextRun' \in Nat /\ nextRun' > now
      BY <2>1, <3>1, <3>2, IntervalType
    <3>4. ASSUME Schedule!Divides
          PROVE  /\ (nextRun' % Day) % interval = 0 /\ nextRun' <= now + Day
                 /\ \A t \in Nat : now < t /\ t < nextRun' => (t % Day) % interval # 0
      <4>1. Day % interval = 0
        BY <2>3, <3>4 DEF Schedule!Divides
      <4>. QED
        BY <2>1, <3>1, <3>2, <4>1, IntervalIsNext
    <3>5. TaskShapes'
      BY <1>2, <1>4, <1>8, <2>1, <2>3, <3>3 DEF TaskShapes
    <3>6. checked' \in 0..now' /\ nextRun' > checked'
      BY <1>8, <2>1, <3>3
    <3>7. Schedule!Divides' => Schedule!Divides
      BY <1>8 DEF Schedule!Divides
    <3>8. NextIsFirst'
      BY <1>8, <2>3, <3>3, <3>4, <3>6, <3>7 DEF NextIsFirst, Due
    <3>. QED
      BY <3>5, <3>8
  <2>. QED
    BY <2>2, <2>3
<1>9. CASE Schedule!FirstCheck
  <2>1. Schedule!Reschedule /\ checked' = now /\ UNCHANGED <<interval, hours, now>> /\ nextRun = NotChecked
    BY <1>9 DEF Schedule!FirstCheck
  <2>. QED
    BY <1>8, <2>1
<1>10. CASE Schedule!Run
  <2>1. Schedule!Reschedule /\ checked' = now /\ UNCHANGED <<interval, hours, now>> /\ nextRun <= now
    BY <1>10 DEF Schedule!Run
  <2>. QED
    BY <1>8, <2>1
<1>. QED
  BY <1>3, <1>5, <1>6, <1>7, <1>9, <1>10 DEF Schedule!Next

LEMMA ScheduleHolds == Spec => []ScheduleInv
BY ScheduleInit, ScheduleNext, PTL DEF Spec

LEMMA LeastIsMin ==
  ASSUME NEW S, S \subseteq Nat, NEW n \in S, \A m \in S : n <= m
  PROVE  Schedule!Min(S) = n
<1> DEFINE x == CHOOSE x \in S : \A m \in S : x <= m
<1>1. x \in S /\ \A m \in S : x <= m
  OBVIOUS
<1> HIDE DEF x
<1>2. x <= n /\ n <= x /\ x \in Nat /\ n \in Nat
  BY <1>1
<1>3. x = n
  BY <1>2
<1>. QED
  BY <1>3 DEF Schedule!Min, x

(* A task never skips or repeats one of its times: after each check the     *)
(* next run is the first time of the schedule after it, however long the    *)
(* worker had no request, for every list of hours and every interval that   *)
(* divides the day.                                                         *)
THEOREM TasksRunInEverySlot == Spec => []RunsInEverySlot
<1>1. ASSUME ScheduleInv PROVE RunsInEverySlot
  <2> SUFFICES ASSUME which = "schedule" PROVE Schedule!RunsInEverySlot /\ Schedule!TypeOK
    BY DEF RunsInEverySlot
  <2>1. TaskShapes /\ (checked # NotChecked => NextIsFirst)
    BY <1>1 DEF ScheduleInv
  <2>2. Schedule!TypeOK
    BY <2>1 DEF TaskShapes, Schedule!TypeOK
  <2>3. ASSUME checked # NotChecked, Schedule!Divides
        PROVE  nextRun = Schedule!Min({t \in Schedule!Slots : t > checked})
    <3>1. /\ checked \in 0..now /\ nextRun \in Nat /\ nextRun > checked
          /\ Due(nextRun) /\ nextRun <= checked + Day
          /\ \A t \in Nat : checked < t /\ t < nextRun => ~ Due(t)
      BY <2>1, <2>3 DEF NextIsFirst
    <3>2. Day \in Nat /\ MaxTime \in Nat /\ now \in 0..(MaxTime + Day - 1)
      BY <2>1, DayAssumption DEF TaskShapes, Turns
    <3>3. Schedule!Slots = {t \in 0..(MaxTime + 2 * Day) : Due(t)}
      <4>1. interval = 0 => hours \in Schedule!HourLists
        BY <2>1, DayAssumption DEF TaskShapes
      <4>2. interval = 0 => DOMAIN hours = 1..Len(hours)
        BY <4>1, HoursOrdered
      <4>3. interval = 0 => Schedule!Range(hours) = {hours[i] : i \in 1..Len(hours)}
        BY <4>2 DEF Schedule!Range
      <4>. QED
        BY <4>3 DEF Schedule!Slots, Due, InHours
    <3> DEFINE S == {t \in Schedule!Slots : t > checked}
    <3>4. nextRun \in 0..(MaxTime + 2 * Day)
      BY <3>1, <3>2
    <3>5. S \subseteq Nat /\ nextRun \in S
      BY <3>1, <3>2, <3>3, <3>4
    <3>6. \A m \in S : nextRun <= m
      BY <3>1, <3>3
    <3> HIDE DEF S
    <3>7. Schedule!Min(S) = nextRun
      BY <3>5, <3>6, LeastIsMin
    <3>. QED
      BY <3>7 DEF S
  <2>. QED
    BY <2>2, <2>3 DEF Schedule!RunsInEverySlot
<1>. QED
  BY <1>1, ScheduleHolds, PTL

-----------------------------------------------------------------------------
(***************************************************************************)
(* Userflows: what is remembered on the cached rows.                        *)
(***************************************************************************)
LEMMA PageSlot ==
  ASSUME NEW x, NEW y, NEW f, f = [i \in {"layout", "css"} |-> f[i]], f["layout"] = x, f["css"] = y
  PROVE  [layout |-> x, css |-> y] = f
OBVIOUS

(* What a row shows in a field: its own, or the default's.                  *)
Own(ds, rs, n, r, f) == IF Flow(ds, rs, n)!Has(r, f) THEN r
  ELSE IF Flow(ds, rs, n)!Has(Flow(ds, rs, n)!D, f) THEN Flow(ds, rs, n)!D ELSE None

(* The row's pages fail.                                                   *)
NoContext(ds, rs, n, r) == r # Flow(ds, rs, n)!D /\ Flow(ds, rs, n)!Has(r, "css")
  /\ ~ Flow(ds, rs, n)!Has(r, "layout")

RowsCached(ds, rs, n) ==
  /\ cached \in [Flow(ds, rs, n)!InUse -> [domains : SUBSET ds, has : SUBSET Flow(ds, rs, n)!Fields(part)]]
  /\ cached[Flow(ds, rs, n)!D].domains = ds
     /\ (part = "page" => cached[Flow(ds, rs, n)!D].has = {"layout"})

RowRight(ds, rs, n, m, r) ==
  /\ m[r].state = "plain" => Flow(ds, rs, n)!Plain(r)
  /\ m[r].state = "done" => ~ Flow(ds, rs, n)!Plain(r)
  /\ part = "page" =>
       /\ \A c \in Classes : m[r].slot[c] = None \/ m[r].slot[c] = Own(ds, rs, n, r, "layout")
       /\ m[r].state = "done" =>
            m[r].slot["css"] = Own(ds, rs, n, r, "css") /\ ~ NoContext(ds, rs, n, r)
  /\ part # "page" /\ m[r].state = "done" => m[r].slot = Flow(ds, rs, n)!Expected(r)

MemoRight(ds, rs, n, m) ==
  /\ m \in [Flow(ds, rs, n)!InUse -> [state : {"unknown", "plain", "done"}, slot : [Flow(ds, rs, n)!Slots(part) -> Nat \cup {None}]]]
  /\ \A r \in Flow(ds, rs, n)!InUse : RowRight(ds, rs, n, m, r)

Settled(ds, rs, n) ==
  rs \in Nat /\ part \in {"page", "email", "signout"} /\ first \in BOOLEAN /\ RowsCached(ds, rs, n)

LEMMA RowFacts ==
  ASSUME NEW ds, NEW rs, NEW n, Settled(ds, rs, n)
  PROVE  /\ Flow(ds, rs, n)!D \in Flow(ds, rs, n)!InUse
            /\ Flow(ds, rs, n)!InUse \subseteq 0..(rs + 1) /\ Flow(ds, rs, n)!InUse \subseteq Nat
         /\ None \notin Flow(ds, rs, n)!InUse /\ ~ Flow(ds, rs, n)!Plain(Flow(ds, rs, n)!D)
            /\ None \notin Nat /\ "css" \notin Classes
         /\ \A r \in Flow(ds, rs, n)!InUse : \A f : Own(ds, rs, n, r, f) \in Nat \cup {None}
         /\ part = "page" => /\ Flow(ds, rs, n)!Slots(part) = Classes \cup {"css"}
                                /\ Flow(ds, rs, n)!Fields(part) = {"layout", "css"}
                             /\ Flow(ds, rs, n)!Has(Flow(ds, rs, n)!D, "layout")
                                /\ ~ Flow(ds, rs, n)!Has(Flow(ds, rs, n)!D, "css")
                             /\ \A r \in Flow(ds, rs, n)!InUse : Own(ds, rs, n, r, "layout") # None
         /\ part # "page" => Flow(ds, rs, n)!Slots(part) = Flow(ds, rs, n)!Fields(part)
<1>1. rs \in Nat /\ first \in BOOLEAN
  BY DEF Settled
<1>2. Flow(ds, rs, n)!D \in Flow(ds, rs, n)!InUse /\ Flow(ds, rs, n)!InUse \subseteq 0..(rs + 1)
        /\ Flow(ds, rs, n)!InUse \subseteq Nat
  BY <1>1 DEF Flow!D, Flow!InUse, Flow!AllRows
<1>3. None \notin Nat /\ "css" \notin Classes
  BY DecisionsAssumption
<1>4. part = "page" => Flow(ds, rs, n)!Has(Flow(ds, rs, n)!D, "layout")
        /\ ~ Flow(ds, rs, n)!Has(Flow(ds, rs, n)!D, "css")
  BY DEF Settled, RowsCached, Flow!Has
<1>. QED
  BY <1>2, <1>3, <1>4 DEF Own, Flow!Plain, Flow!Slots, Flow!Fields

LEMMA KeepRight ==
  ASSUME NEW ds, NEW rs, NEW n, Settled(ds, rs, n), part = "page",
         NEW m, MemoRight(ds, rs, n, m), NEW r \in Flow(ds, rs, n)!InUse, NEW s, NEW v,
         \/ s \in Classes /\ v = Own(ds, rs, n, r, "layout")
         \/ s = "css" /\ v = Own(ds, rs, n, r, "css")
  PROVE  LET k == Flow(ds, rs, n)!Keep(m, r, s, v)
         IN  /\ MemoRight(ds, rs, n, k) /\ k[r].state = m[r].state /\ k[r].slot[s] = v
             /\ \A q \in Flow(ds, rs, n)!InUse : q # r => k[q] = m[q]
             /\ \A t \in Flow(ds, rs, n)!Slots(part) : t # s => k[r].slot[t] = m[r].slot[t]
<1> DEFINE k == Flow(ds, rs, n)!Keep(m, r, s, v)
           R == Flow(ds, rs, n)!InUse
           L == Flow(ds, rs, n)!Slots(part)
           V == [L -> Nat \cup {None}]
           S == {"unknown", "plain", "done"}
<1>1. m \in [R -> [state : S, slot : V]] /\ \A q \in R : RowRight(ds, rs, n, m, q)
  BY DEF MemoRight
<1>2. s \in L /\ v \in Nat \cup {None} /\ L = Classes \cup {"css"} /\ "css" \notin Classes
  BY RowFacts
<1>3. r \in R
  OBVIOUS
<1> HIDE DEF R, V, S
<1>4. /\ k \in [R -> [state : S, slot : V \cup {[m[r].slot EXCEPT ![s] = v]}]]
      /\ \A q \in R : q # r => k[q] = m[q]
      /\ k[r].state = m[r].state /\ k[r].slot = [m[r].slot EXCEPT ![s] = v]
  BY <1>1, <1>3 DEF Flow!Keep
<1>5. m[r].slot \in V
  BY <1>1, <1>3
<1> HIDE DEF L, k
<1>6. [m[r].slot EXCEPT ![s] = v] \in V /\ k[r].slot[s] = v
      /\ \A t \in L : t # s => k[r].slot[t] = m[r].slot[t]
  BY <1>2, <1>4, <1>5 DEF V
<1>7. V \cup {[m[r].slot EXCEPT ![s] = v]} = V
  BY <1>6
<1>8. k \in [R -> [state : S, slot : V]]
  BY <1>4, <1>7
<1>9. RowRight(ds, rs, n, k, r)
  <2>1. RowRight(ds, rs, n, m, r)
    BY <1>1, <1>3
  <2>2. \A c \in Classes : k[r].slot[c] = None \/ k[r].slot[c] = Own(ds, rs, n, r, "layout")
    BY <1>2, <1>6, <2>1 DEF RowRight
  <2>3. m[r].state = "done" => k[r].slot["css"] = Own(ds, rs, n, r, "css")
    BY <1>2, <1>6, <2>1 DEF RowRight
  <2>. QED
    BY <1>4, <2>1, <2>2, <2>3 DEF RowRight
<1>10. \A q \in R : RowRight(ds, rs, n, k, q)
  <2>1. \A q \in R : q # r => RowRight(ds, rs, n, k, q)
    BY <1>1, <1>4 DEF RowRight
  <2>. QED
    BY <1>9, <2>1
<1>11. MemoRight(ds, rs, n, k)
  BY <1>8, <1>10 DEF MemoRight, R, S, V, L
<1>. QED
  BY <1>4, <1>6, <1>11 DEF R, L, k

LEMMA DoneRight ==
  ASSUME NEW ds, NEW rs, NEW n, Settled(ds, rs, n), part = "page",
         NEW m, MemoRight(ds, rs, n, m), NEW r \in Flow(ds, rs, n)!InUse,
         ~ Flow(ds, rs, n)!Plain(r),
         ~ NoContext(ds, rs, n, r), m[r].slot["css"] = Own(ds, rs, n, r, "css")
  PROVE  LET k == Flow(ds, rs, n)!Done(m, r)
         IN  /\ MemoRight(ds, rs, n, k) /\ k[r].state = "done" /\ k[r].slot = m[r].slot
             /\ \A q \in Flow(ds, rs, n)!InUse : q # r => k[q] = m[q]
<1> DEFINE k == Flow(ds, rs, n)!Done(m, r)
           R == Flow(ds, rs, n)!InUse
           V == [Flow(ds, rs, n)!Slots(part) -> Nat \cup {None}]
           S == {"unknown", "plain", "done"}
<1>1. m \in [R -> [state : S, slot : V]] /\ \A q \in R : RowRight(ds, rs, n, m, q)
  BY DEF MemoRight
<1>3. r \in R /\ S \cup {"done"} = S
  OBVIOUS
<1> HIDE DEF R, V, S
<1>4. /\ k \in [R -> [state : S \cup {"done"}, slot : V]]
      /\ \A q \in R : q # r => k[q] = m[q]
      /\ k[r].state = "done" /\ k[r].slot = m[r].slot
  BY <1>1, <1>3 DEF Flow!Done
<1> HIDE DEF k
<1>9. RowRight(ds, rs, n, k, r)
  BY <1>1, <1>3, <1>4 DEF RowRight
<1>10. \A q \in R : RowRight(ds, rs, n, k, q)
  <2>1. \A q \in R : q # r => RowRight(ds, rs, n, k, q)
    BY <1>1, <1>4 DEF RowRight
  <2>. QED
    BY <1>9, <2>1
<1>11. MemoRight(ds, rs, n, k)
  BY <1>3, <1>4, <1>10 DEF MemoRight, R, S, V
<1>. QED
  BY <1>4, <1>11 DEF R, k

(* The default's page.                                                     *)
LEMMA DefaultPageRight ==
  ASSUME NEW ds, NEW rs, NEW n, Settled(ds, rs, n), part = "page",
         NEW m, MemoRight(ds, rs, n, m), NEW class \in Classes
  PROVE  LET k == Flow(ds, rs, n)!InitDefaultPage(m, class)
         IN  /\ MemoRight(ds, rs, n, k) /\ k[Flow(ds, rs, n)!D].state = "done"
             /\ k[Flow(ds, rs, n)!D].slot[class] = Own(ds, rs, n, Flow(ds, rs, n)!D, "layout")
             /\ k[Flow(ds, rs, n)!D].slot["css"] = Own(ds, rs, n, Flow(ds, rs, n)!D, "css")
             /\ \A q \in Flow(ds, rs, n)!InUse : q # Flow(ds, rs, n)!D => k[q] = m[q]
<1> DEFINE d == Flow(ds, rs, n)!D
           k == Flow(ds, rs, n)!InitDefaultPage(m, class)
           m1 == Flow(ds, rs, n)!Keep(m, d, class, d)
           m2 == Flow(ds, rs, n)!Keep(m1, d, "css", IF Flow(ds, rs, n)!Has(d, "css") THEN d ELSE None)
           m3 == Flow(ds, rs, n)!Done(m2, d)
<1>1. /\ d \in Flow(ds, rs, n)!InUse /\ ~ Flow(ds, rs, n)!Plain(d) /\ class # "css"
         /\ class \in Flow(ds, rs, n)!Slots(part) /\ "css" \in Flow(ds, rs, n)!Slots(part)
      /\ Own(ds, rs, n, d, "layout") = d /\ Own(ds, rs, n, d, "css") = None
      /\ ~ NoContext(ds, rs, n, d) /\ ~ Flow(ds, rs, n)!Has(d, "css")
  BY RowFacts DEF Own, NoContext
<1>2. k = IF m[d].state = "done" /\ m[d].slot[class] # None THEN m
          ELSE IF m[d].state = "done" THEN m1 ELSE m3
  BY DEF Flow!InitDefaultPage
<1>3. RowRight(ds, rs, n, m, d)
  BY <1>1 DEF MemoRight
<1>4. /\ MemoRight(ds, rs, n, m1) /\ m1[d].state = m[d].state /\ m1[d].slot[class] = d
      /\ \A q \in Flow(ds, rs, n)!InUse : q # d => m1[q] = m[q]
      /\ m1[d].slot["css"] = m[d].slot["css"]
  BY <1>1, KeepRight
<1> HIDE DEF m1
<1>5. /\ MemoRight(ds, rs, n, m2) /\ m2[d].slot["css"] = None
      /\ m2[d].slot[class] = m1[d].slot[class]
      /\ \A q \in Flow(ds, rs, n)!InUse : q # d => m2[q] = m1[q]
  BY <1>1, <1>4, KeepRight
<1> HIDE DEF m2
<1>6. /\ MemoRight(ds, rs, n, m3) /\ m3[d].state = "done" /\ m3[d].slot = m2[d].slot
      /\ \A q \in Flow(ds, rs, n)!InUse : q # d => m3[q] = m2[q]
  BY <1>1, <1>5, DoneRight
<1> HIDE DEF m3, k
<1>7. CASE m[d].state = "done" /\ m[d].slot[class] # None
  <2>1. m[d].slot[class] = d /\ m[d].slot["css"] = None
    BY <1>1, <1>3, <1>7 DEF RowRight
  <2>. QED
    BY <1>1, <1>2, <1>7, <2>1 DEF k, d
<1>8. CASE m[d].state = "done" /\ m[d].slot[class] = None
  <2>1. m[d].slot["css"] = None
    BY <1>1, <1>3, <1>8 DEF RowRight
  <2>2. k = m1
    BY <1>2, <1>8
  <2>. QED
    BY <1>1, <1>4, <1>8, <2>1, <2>2 DEF k, d
<1>9. CASE m[d].state # "done"
  <2>1. k = m3
    BY <1>2, <1>9
  <2>2. \A q \in Flow(ds, rs, n)!InUse : q # d => k[q] = m[q]
    BY <1>4, <1>5, <1>6, <2>1
  <2>. QED
    BY <1>1, <1>4, <1>5, <1>6, <2>1, <2>2 DEF k, d
<1>. QED
  BY <1>7, <1>8, <1>9

LEMMA LayoutRight ==
  ASSUME NEW ds, NEW rs, NEW n, Settled(ds, rs, n), part = "page",
         NEW m, MemoRight(ds, rs, n, m), NEW class \in Classes, NEW r \in Flow(ds, rs, n)!InUse,
         r # Flow(ds, rs, n)!D
  PROVE  LET k == Flow(ds, rs, n)!WithLayout(m, r, class)
         IN  /\ MemoRight(ds, rs, n, k) /\ k[r].state = m[r].state
             /\ k[r].slot[class] = Own(ds, rs, n, r, "layout")
             /\ k[r].slot["css"] = m[r].slot["css"]
<1> DEFINE k == Flow(ds, rs, n)!WithLayout(m, r, class)
           m1 == Flow(ds, rs, n)!InitDefaultPage(m, class)
           d == Flow(ds, rs, n)!D
<1>1. class # "css" /\ "css" \in Flow(ds, rs, n)!Slots(part) /\ Flow(ds, rs, n)!Has(d, "layout")
        /\ d \in Flow(ds, rs, n)!InUse
  BY RowFacts
<1>2. CASE Flow(ds, rs, n)!Has(r, "layout")
  <2>1. k = Flow(ds, rs, n)!Keep(m, r, class, r) /\ Own(ds, rs, n, r, "layout") = r
    BY <1>2 DEF Flow!WithLayout, Own
  <2>. QED
    BY <1>1, <2>1, KeepRight
<1>3. CASE ~ Flow(ds, rs, n)!Has(r, "layout")
  <2>1. k = Flow(ds, rs, n)!Keep(m1, r, class, m1[d].slot[class])
    BY <1>3 DEF Flow!WithLayout
  <2>2. /\ MemoRight(ds, rs, n, m1) /\ m1[d].slot[class] = Own(ds, rs, n, d, "layout")
        /\ m1[r] = m[r]
    BY DefaultPageRight
  <2>3. Own(ds, rs, n, d, "layout") = Own(ds, rs, n, r, "layout")
    BY <1>1, <1>3 DEF Own
  <2> HIDE DEF m1, k
  <2>4. MemoRight(ds, rs, n, k) /\ k[r].state = m1[r].state
        /\ k[r].slot[class] = Own(ds, rs, n, r, "layout") /\ k[r].slot["css"] = m1[r].slot["css"]
    BY <1>1, <2>1, <2>2, <2>3, KeepRight
  <2>. QED
    BY <2>2, <2>4 DEF k
<1>. QED
  BY <1>2, <1>3

LEMMA CssRight ==
  ASSUME NEW ds, NEW rs, NEW n, Settled(ds, rs, n), part = "page",
         NEW m, MemoRight(ds, rs, n, m), NEW class \in Classes, NEW r \in Flow(ds, rs, n)!InUse,
         r # Flow(ds, rs, n)!D,
         ~ Flow(ds, rs, n)!Plain(r), ~ NoContext(ds, rs, n, r)
  PROVE  LET k == Flow(ds, rs, n)!WithCss(m, r, class)
         IN  /\ MemoRight(ds, rs, n, k) /\ k[r].state = "done"
             /\ k[r].slot[class] = m[r].slot[class]
             /\ k[r].slot["css"] = Own(ds, rs, n, r, "css")
<1> DEFINE k == Flow(ds, rs, n)!WithCss(m, r, class)
           m1 == Flow(ds, rs, n)!InitDefaultPage(m, class)
           d == Flow(ds, rs, n)!D
<1>1. class # "css" /\ class \in Flow(ds, rs, n)!Slots(part) /\ ~ Flow(ds, rs, n)!Has(d, "css")
        /\ d \in Flow(ds, rs, n)!InUse
  BY RowFacts
<1>2. CASE Flow(ds, rs, n)!Has(r, "css")
  <2> DEFINE m2 == Flow(ds, rs, n)!Keep(m, r, "css", r)
  <2>1. k = Flow(ds, rs, n)!Done(m2, r) /\ Own(ds, rs, n, r, "css") = r
    BY <1>2 DEF Flow!WithCss, Own
  <2>2. MemoRight(ds, rs, n, m2) /\ m2[r].slot["css"] = r /\ m2[r].slot[class] = m[r].slot[class]
    BY <1>1, <2>1, KeepRight
  <2> HIDE DEF m2, k
  <2>3. MemoRight(ds, rs, n, k) /\ k[r].state = "done" /\ k[r].slot = m2[r].slot
    BY <2>1, <2>2, DoneRight
  <2>. QED
    BY <2>1, <2>2, <2>3 DEF k
<1>3. CASE ~ Flow(ds, rs, n)!Has(r, "css")
  <2> DEFINE m2 == Flow(ds, rs, n)!Keep(m1, r, "css", m1[d].slot["css"])
  <2>1. k = Flow(ds, rs, n)!Done(m2, r) /\ Own(ds, rs, n, d, "css") = Own(ds, rs, n, r, "css")
    BY <1>1, <1>3 DEF Flow!WithCss, Own
  <2>2. /\ MemoRight(ds, rs, n, m1) /\ m1[d].slot["css"] = Own(ds, rs, n, d, "css") /\ m1[r] = m[r]
    BY DefaultPageRight
  <2> HIDE DEF m1
  <2>3. MemoRight(ds, rs, n, m2) /\ m2[r].slot["css"] = Own(ds, rs, n, r, "css")
        /\ m2[r].slot[class] = m1[r].slot[class]
    BY <1>1, <2>1, <2>2, KeepRight
  <2> HIDE DEF m2, k
  <2>4. MemoRight(ds, rs, n, k) /\ k[r].state = "done" /\ k[r].slot = m2[r].slot
    BY <2>1, <2>3, DoneRight
  <2>. QED
    BY <2>2, <2>3, <2>4 DEF k
<1>. QED
  BY <1>2, <1>3

(* The fields of a mail or a signed-out page.                              *)
Filled(ds, rs, n, m, r, v) == Flow(ds, rs, n)!Done([m EXCEPT ![r].slot = v], r)

LEMMA FieldsSet ==
  ASSUME NEW ds, NEW rs, NEW n, Settled(ds, rs, n), part # "page",
         NEW m, MemoRight(ds, rs, n, m), NEW r \in Flow(ds, rs, n)!InUse,
         ~ Flow(ds, rs, n)!Plain(r),
         NEW v, v = Flow(ds, rs, n)!Expected(r), NEW k, k = Filled(ds, rs, n, m, r, v)
  PROVE  /\ MemoRight(ds, rs, n, k) /\ k[r].state = "done" /\ k[r].slot = v
         /\ \A q \in Flow(ds, rs, n)!InUse : q # r => k[q] = m[q]
<1> DEFINE R == Flow(ds, rs, n)!InUse
           V == [Flow(ds, rs, n)!Slots(part) -> Nat \cup {None}]
           S == {"unknown", "plain", "done"}
<1>1. m \in [R -> [state : S, slot : V]] /\ \A q \in R : RowRight(ds, rs, n, m, q)
  BY DEF MemoRight
<1>2. v \in V
  <2>1. \A f : (IF Flow(ds, rs, n)!Has(r, f) THEN r ELSE IF Flow(ds, rs, n)!Has(Flow(ds, rs, n)!D, f) THEN Flow(ds, rs, n)!D ELSE None) \in Nat \cup {None}
    BY RowFacts
  <2>. QED
    BY <2>1, RowFacts DEF Flow!Expected
<1>3. r \in R /\ "done" \in S
  OBVIOUS
<1> HIDE DEF R, V, S
<1>4. /\ k \in [R -> [state : S, slot : V]]
      /\ \A q \in R : q # r => k[q] = m[q]
      /\ k[r].state = "done" /\ k[r].slot = v
  BY <1>1, <1>2, <1>3 DEF Filled, Flow!Done
<1>5. RowRight(ds, rs, n, k, r)
  BY <1>4 DEF RowRight
<1>6. \A q \in R : RowRight(ds, rs, n, k, q)
  <2>1. \A q \in R : q # r => RowRight(ds, rs, n, k, q)
    BY <1>1, <1>4 DEF RowRight
  <2>. QED
    BY <1>5, <2>1
<1>7. MemoRight(ds, rs, n, k)
  BY <1>4, <1>6 DEF MemoRight, R, S, V
<1>. QED
  BY <1>4, <1>7 DEF R

LEMMA DefaultFieldsRight ==
  ASSUME NEW ds, NEW rs, NEW n, Settled(ds, rs, n), part # "page",
         NEW m, MemoRight(ds, rs, n, m)
  PROVE  LET k == Flow(ds, rs, n)!InitDefaultFields(m)
         IN  /\ MemoRight(ds, rs, n, k) /\ k[Flow(ds, rs, n)!D].state = "done"
                /\ k[Flow(ds, rs, n)!D].slot = Flow(ds, rs, n)!Expected(Flow(ds, rs, n)!D)
             /\ \A q \in Flow(ds, rs, n)!InUse : q # Flow(ds, rs, n)!D => k[q] = m[q]
<1>0. PICK d : d = Flow(ds, rs, n)!D
  OBVIOUS
<1>1. d \in Flow(ds, rs, n)!InUse /\ ~ Flow(ds, rs, n)!Plain(d)
  BY <1>0, RowFacts
<1>2. PICK v : v = Flow(ds, rs, n)!Expected(d)
  OBVIOUS
<1>3. v = [f \in Flow(ds, rs, n)!Fields(part) |-> IF Flow(ds, rs, n)!Has(d, f) THEN d ELSE None]
  BY <1>0, <1>2 DEF Flow!Expected
<1>4. Flow(ds, rs, n)!InitDefaultFields(m) = IF m[d].state = "done" THEN m
        ELSE Filled(ds, rs, n, m, d, v)
  BY <1>0, <1>3 DEF Flow!InitDefaultFields, Filled
<1>5. CASE m[d].state = "done"
  <2>1. m[d].slot = Flow(ds, rs, n)!Expected(d)
    BY <1>1, <1>5 DEF MemoRight, RowRight
  <2>. QED
    BY <1>0, <1>4, <1>5, <2>1
<1>6. CASE m[d].state # "done"
  <2>1. PICK k : k = Filled(ds, rs, n, m, d, v)
    OBVIOUS
  <2>2. /\ MemoRight(ds, rs, n, k) /\ k[d].state = "done" /\ k[d].slot = v
        /\ \A q \in Flow(ds, rs, n)!InUse : q # d => k[q] = m[q]
    BY <1>1, <1>2, <2>1, FieldsSet
  <2>3. Flow(ds, rs, n)!InitDefaultFields(m) = k
    BY <1>4, <1>6, <2>1
  <2>. QED
    BY <1>0, <1>2, <2>2, <2>3
<1>. QED
  BY <1>5, <1>6

LEMMA FieldsRight ==
  ASSUME NEW ds, NEW rs, NEW n, Settled(ds, rs, n), part # "page",
         NEW m, MemoRight(ds, rs, n, m), NEW r \in Flow(ds, rs, n)!InUse, r # Flow(ds, rs, n)!D,
         ~ Flow(ds, rs, n)!Plain(r)
  PROVE  LET k == Flow(ds, rs, n)!InitFields(m, r)
         IN  MemoRight(ds, rs, n, k) /\ k[r].state = "done"
               /\ k[r].slot = Flow(ds, rs, n)!Expected(r)
<1> DEFINE d == Flow(ds, rs, n)!D
           m1 == IF Flow(ds, rs, n)!Fields(part) \subseteq cached[r].has THEN m
             ELSE Flow(ds, rs, n)!InitDefaultFields(m)
           v == [f \in Flow(ds, rs, n)!Fields(part) |-> IF Flow(ds, rs, n)!Has(r, f) THEN r ELSE m1[d].slot[f]]
<1>1. Flow(ds, rs, n)!InitFields(m, r) = Filled(ds, rs, n, m1, r, v)
  BY DEF Flow!InitFields, Filled
<1>2. MemoRight(ds, rs, n, m1)
  BY DefaultFieldsRight
<1>3. v = Flow(ds, rs, n)!Expected(r)
  <2>1. CASE Flow(ds, rs, n)!Fields(part) \subseteq cached[r].has
    <3>1. \A f \in Flow(ds, rs, n)!Fields(part) : Flow(ds, rs, n)!Has(r, f)
      BY <2>1 DEF Flow!Has
    <3>. QED
      BY <3>1 DEF Flow!Expected
  <2>2. CASE ~ (Flow(ds, rs, n)!Fields(part) \subseteq cached[r].has)
    <3>1. m1[d].slot = Flow(ds, rs, n)!Expected(d)
      BY <2>2, DefaultFieldsRight
    <3> HIDE DEF m1
    <3>2. \A f \in Flow(ds, rs, n)!Fields(part) : 
            m1[d].slot[f] = IF Flow(ds, rs, n)!Has(d, f) THEN d ELSE None
      BY <3>1 DEF Flow!Expected
    <3>. QED
      BY <3>2 DEF Flow!Expected
  <2>. QED
    BY <2>1, <2>2
<1>4. PICK k : k = Flow(ds, rs, n)!InitFields(m, r)
  OBVIOUS
<1> HIDE DEF m1, v
<1>5. MemoRight(ds, rs, n, k) /\ k[r].state = "done" /\ k[r].slot = v
  BY <1>1, <1>2, <1>3, <1>4, FieldsSet
<1>. QED
  BY <1>3, <1>4, <1>5

(***************************************************************************)
(* What a look at a row leaves on it: the row shows what is configured, is  *)
(* passed over where it is plain, and stays unknown where its page fails.   *)
(***************************************************************************)
LEMMA RowLooked ==
  ASSUME NEW ds, NEW rs, NEW n, Settled(ds, rs, n),
         NEW m, MemoRight(ds, rs, n, m), NEW r \in Flow(ds, rs, n)!InUse, NEW class,
         part = "page" => class \in Classes
  PROVE  LET k == Flow(ds, rs, n)!InitRow(m, r, class)
         IN  /\ MemoRight(ds, rs, n, k)
             /\ k[r].state # "plain" =>
                  /\ ~ Flow(ds, rs, n)!Plain(r)
                  /\ ~ (part = "page" /\ NoContext(ds, rs, n, r)) =>
                       k[r].state = "done"
                         /\ Flow(ds, rs, n)!Slot(k, r, class) = Flow(ds, rs, n)!Expected(r)
<1> DEFINE k == Flow(ds, rs, n)!InitRow(m, r, class)
           Shown == k[r].state = "done"
             /\ Flow(ds, rs, n)!Slot(k, r, class) = Flow(ds, rs, n)!Expected(r)
           Looked == /\ MemoRight(ds, rs, n, k)
                     /\ k[r].state # "plain" =>
                          /\ ~ Flow(ds, rs, n)!Plain(r)
                          /\ ~ (part = "page" /\ NoContext(ds, rs, n, r)) => Shown
<1>1. RowRight(ds, rs, n, m, r) /\ m[r].state \in {"unknown", "plain", "done"}
  BY DEF MemoRight
<1>2. k = IF m[r].state = "plain" \/ Flow(ds, rs, n)!Remembered(m, r, class) THEN m
          ELSE IF m[r].state = "unknown" /\ Flow(ds, rs, n)!Plain(r) THEN [m EXCEPT ![r].state = "plain"]
          ELSE IF part = "page"
               THEN IF r = Flow(ds, rs, n)!D THEN Flow(ds, rs, n)!InitDefaultPage(m, class) ELSE Flow(ds, rs, n)!InitPage(m, r, class)
               ELSE IF r = Flow(ds, rs, n)!D THEN Flow(ds, rs, n)!InitDefaultFields(m) ELSE Flow(ds, rs, n)!InitFields(m, r)
  BY DEF Flow!InitRow
<1>3. ASSUME part = "page", k[r].state = "done", k[r].slot[class] = Own(ds, rs, n, r, "layout"),
             k[r].slot["css"] = Own(ds, rs, n, r, "css")
      PROVE  Shown
  <2>1. Flow(ds, rs, n)!Slot(k, r, class) = [layout |-> Own(ds, rs, n, r, "layout"), css |-> Own(ds, rs, n, r, "css")]
    BY <1>3 DEF Flow!Slot
  <2>2. Flow(ds, rs, n)!Expected(r) = [f \in {"layout", "css"} |-> Own(ds, rs, n, r, f)]
    BY <1>3, RowFacts DEF Flow!Expected, Own
  <2> DEFINE x == Own(ds, rs, n, r, "layout")
             y == Own(ds, rs, n, r, "css")
             g == [f \in {"layout", "css"} |-> Own(ds, rs, n, r, f)]
  <2>3. g = [f \in {"layout", "css"} |-> g[f]] /\ g["layout"] = x /\ g["css"] = y
    OBVIOUS
  <2> HIDE DEF x, y, g
  <2>4. [layout |-> x, css |-> y] = g
    BY <2>3, PageSlot
  <2>. QED
    BY <1>3, <2>1, <2>2, <2>4 DEF x, y, g
<1>4. ASSUME part # "page", k[r].state = "done", k[r].slot = Flow(ds, rs, n)!Expected(r) PROVE Shown
  BY <1>4 DEF Flow!Slot
<1>5. CASE m[r].state = "plain"
  <2>1. k = m
    BY <1>2, <1>5
  <2> HIDE DEF k
  <2>. QED
    BY <1>5, <2>1 DEF k
<1>6. CASE m[r].state # "plain" /\ Flow(ds, rs, n)!Remembered(m, r, class)
  <2>1. k = m
    BY <1>2, <1>6
  <2>2. m[r].state = "done" /\ (part = "page" => m[r].slot[class] # None)
    BY <1>6 DEF Flow!Remembered
  <2> HIDE DEF k
  <2>3. ~ Flow(ds, rs, n)!Plain(r)
    BY <1>1, <2>2 DEF RowRight
  <2>4. CASE part = "page"
    <3>1. m[r].slot[class] = Own(ds, rs, n, r, "layout")
            /\ m[r].slot["css"] = Own(ds, rs, n, r, "css")
      BY <1>1, <2>2, <2>4 DEF RowRight
    <3>2. Shown
      BY <1>3, <2>1, <2>2, <2>4, <3>1
    <3>. QED
      BY <2>1, <2>3, <3>2 DEF k
  <2>5. CASE part # "page"
    <3>1. m[r].slot = Flow(ds, rs, n)!Expected(r)
      BY <1>1, <2>2, <2>5 DEF RowRight
    <3>2. Shown
      BY <1>4, <2>1, <2>2, <2>5, <3>1
    <3>. QED
      BY <2>1, <2>3, <3>2 DEF k
  <2>. QED
    BY <2>4, <2>5
<1>7. CASE m[r].state = "unknown" /\ Flow(ds, rs, n)!Plain(r)
             /\ ~ Flow(ds, rs, n)!Remembered(m, r, class)
  <2> DEFINE R == Flow(ds, rs, n)!InUse
             V == [Flow(ds, rs, n)!Slots(part) -> Nat \cup {None}]
             S == {"unknown", "plain", "done"}
  <2>1. k = [m EXCEPT ![r].state = "plain"]
    BY <1>2, <1>7
  <2>2. m \in [R -> [state : S, slot : V]] /\ \A q \in R : RowRight(ds, rs, n, m, q)
    BY DEF MemoRight
  <2>3. r \in R /\ "plain" \in S
    OBVIOUS
  <2> HIDE DEF k, R, V, S
  <2>4. /\ k \in [R -> [state : S, slot : V]] /\ k[r].state = "plain" /\ k[r].slot = m[r].slot
        /\ \A q \in R : q # r => k[q] = m[q]
    BY <2>1, <2>2, <2>3
  <2>5. RowRight(ds, rs, n, k, r)
    BY <1>1, <1>7, <2>4 DEF RowRight
  <2>6. \A q \in R : RowRight(ds, rs, n, k, q)
    <3>1. \A q \in R : q # r => RowRight(ds, rs, n, k, q)
      BY <2>2, <2>4 DEF RowRight
    <3>. QED
      BY <2>5, <3>1
  <2>7. MemoRight(ds, rs, n, k)
    BY <2>4, <2>6 DEF MemoRight, R, S, V
  <2>. QED
    BY <2>4, <2>7 DEF k
<1>8. CASE m[r].state # "plain" /\ ~ Flow(ds, rs, n)!Remembered(m, r, class)
             /\ ~ (m[r].state = "unknown" /\ Flow(ds, rs, n)!Plain(r))
  <2>1. ~ Flow(ds, rs, n)!Plain(r)
    BY <1>1, <1>8 DEF RowRight
  <2>2. CASE part = "page" /\ r = Flow(ds, rs, n)!D
    <3>1. k = Flow(ds, rs, n)!InitDefaultPage(m, class) /\ class \in Classes
      BY <1>2, <1>8, <2>2
    <3> HIDE DEF k
    <3>2. /\ MemoRight(ds, rs, n, k) /\ k[r].state = "done"
          /\ k[r].slot[class] = Own(ds, rs, n, r, "layout")
             /\ k[r].slot["css"] = Own(ds, rs, n, r, "css")
      BY <2>2, <3>1, DefaultPageRight
    <3>3. Shown
      BY <1>3, <2>2, <3>2
    <3>. QED
      BY <2>1, <3>2, <3>3 DEF k
  <2>3. CASE part = "page" /\ r # Flow(ds, rs, n)!D
    <3> DEFINE m1 == Flow(ds, rs, n)!WithLayout(m, r, class)
               m2 == Flow(ds, rs, n)!WithCss(m1, r, class)
    <3>1. k = Flow(ds, rs, n)!InitPage(m, r, class) /\ class \in Classes
      BY <1>2, <1>8, <2>3
    <3>2. k = IF m[r].state = "done" \/ Flow(ds, rs, n)!PageFails(m, r) THEN m1 ELSE m2
      BY <3>1 DEF Flow!InitPage
    <3> HIDE DEF k
    <3>3. /\ MemoRight(ds, rs, n, m1) /\ m1[r].state = m[r].state
          /\ m1[r].slot[class] = Own(ds, rs, n, r, "layout") /\ m1[r].slot["css"] = m[r].slot["css"]
      BY <2>3, <3>1, LayoutRight
    <3> HIDE DEF m1
    <3>4. CASE m[r].state = "done"
      <4>1. m[r].slot["css"] = Own(ds, rs, n, r, "css")
        BY <1>1, <2>3, <3>4 DEF RowRight
      <4>2. k = m1
        BY <3>2, <3>4
      <4>3. Shown
        BY <1>3, <2>3, <3>3, <3>4, <4>1, <4>2
      <4>. QED
        BY <2>1, <3>3, <4>2, <4>3 DEF k
    <3>5. CASE m[r].state # "done" /\ Flow(ds, rs, n)!PageFails(m, r)
      <4>1. NoContext(ds, rs, n, r)
        BY <2>3, <3>5 DEF Flow!PageFails, NoContext
      <4>2. k = m1
        BY <3>2, <3>5
      <4>. QED
        BY <2>1, <2>3, <3>3, <4>1, <4>2 DEF k
    <3>6. CASE m[r].state # "done" /\ ~ Flow(ds, rs, n)!PageFails(m, r)
      <4>1. ~ NoContext(ds, rs, n, r)
        BY <3>6 DEF Flow!PageFails, NoContext
      <4>2. k = m2
        BY <3>2, <3>6
      <4>3. /\ MemoRight(ds, rs, n, m2) /\ m2[r].state = "done"
            /\ m2[r].slot[class] = m1[r].slot[class] /\ m2[r].slot["css"] = Own(ds, rs, n, r, "css")
        BY <2>1, <2>3, <3>1, <3>3, <4>1, CssRight
      <4> HIDE DEF m2
      <4>4. Shown
        BY <1>3, <2>3, <3>3, <4>2, <4>3
      <4>. QED
        BY <2>1, <4>2, <4>3, <4>4 DEF k
    <3>. QED
      BY <3>4, <3>5, <3>6
  <2>4. CASE part # "page" /\ r = Flow(ds, rs, n)!D
    <3>1. k = Flow(ds, rs, n)!InitDefaultFields(m)
      BY <1>2, <1>8, <2>4
    <3> HIDE DEF k
    <3>2. MemoRight(ds, rs, n, k) /\ k[r].state = "done" /\ k[r].slot = Flow(ds, rs, n)!Expected(r)
      BY <2>4, <3>1, DefaultFieldsRight
    <3>3. Shown
      BY <1>4, <2>4, <3>2
    <3>. QED
      BY <2>1, <3>2, <3>3 DEF k
  <2>5. CASE part # "page" /\ r # Flow(ds, rs, n)!D
    <3>1. k = Flow(ds, rs, n)!InitFields(m, r)
      BY <1>2, <1>8, <2>5
    <3> HIDE DEF k
    <3>2. MemoRight(ds, rs, n, k) /\ k[r].state = "done" /\ k[r].slot = Flow(ds, rs, n)!Expected(r)
      BY <2>1, <2>5, <3>1, FieldsRight
    <3>3. Shown
      BY <1>4, <2>5, <3>2
    <3>. QED
      BY <2>1, <3>2, <3>3 DEF k
  <2>. QED
    BY <2>2, <2>3, <2>4, <2>5
<1>. QED
  BY <1>5, <1>6, <1>7, <1>8

(***************************************************************************)
(* The rows of a domain are passed in their order up to the first that is   *)
(* customized, and the answer is what is configured for it.                 *)
(***************************************************************************)
FlowShapes(ds, rs, n) ==
  /\ rs \in Nat /\ part \in {"page", "email", "signout"} /\ first \in BOOLEAN
  /\ table \in [Flow(ds, rs, n)!InUse -> [domains : SUBSET ds, has : SUBSET Flow(ds, rs, n)!Fields(part)]]
  /\ table[Flow(ds, rs, n)!D].domains = ds
     /\ table[Flow(ds, rs, n)!D].has \in Flow(ds, rs, n)!DefaultFields(part)
  /\ request.at \in 0..(rs + 2) /\ rowsFound \in [ds -> {None} \cup SUBSET Flow(ds, rs, n)!InUse]
  /\ answer.row \in Flow(ds, rs, n)!InUse \cup {None, Flow(ds, rs, n)!Broken}

NothingCached(ds, rs, n) ==
  /\ cached = None /\ memo = [r \in Flow(ds, rs, n)!InUse |-> Flow(ds, rs, n)!Blank]
     /\ request = Flow(ds, rs, n)!Idle
  /\ answer = Flow(ds, rs, n)!NoAnswer

(* The rows before the one that is looked at are not customized.           *)
PlainSoFar(ds, rs, n) ==
  request # Flow(ds, rs, n)!Idle =>
    /\ request.domain \in ds /\ (part = "page" => request.class \in Classes)
    /\ request = [domain |-> request.domain, class |-> request.class, at |-> request.at]
    /\ \A q \in Flow(ds, rs, n)!InUse : q < request.at /\ request.domain \in cached[q].domains
       => Flow(ds, rs, n)!Plain(q)

Serving(ds, rs, n) ==
  /\ Settled(ds, rs, n) /\ MemoRight(ds, rs, n, memo)
  /\ \A d \in ds : rowsFound[d] = None \/ rowsFound[d] = Flow(ds, rs, n)!Matching(d)
  /\ PlainSoFar(ds, rs, n)
  /\ Flow(ds, rs, n)!AnswersAsConfigured

FlowInv(ds, rs, n) ==
  FlowShapes(ds, rs, n) /\ (NothingCached(ds, rs, n) \/ Serving(ds, rs, n))

LEMMA FirstIsLeast ==
  ASSUME NEW ds, NEW rs, NEW n, Settled(ds, rs, n), NEW d, NEW r \in Flow(ds, rs, n)!InUse,
         d \in cached[r].domains, ~ Flow(ds, rs, n)!Plain(r),
         \A q \in Flow(ds, rs, n)!InUse : q < r /\ d \in cached[q].domains
           => Flow(ds, rs, n)!Plain(q)
  PROVE  Flow(ds, rs, n)!FirstCustomized(d) = r
<1> DEFINE First(x) == /\ d \in cached[x].domains /\ ~ Flow(ds, rs, n)!Plain(x)
                       /\ \A q \in Flow(ds, rs, n)!InUse : q < x /\ d \in cached[q].domains
                          => Flow(ds, rs, n)!Plain(q)
           x == CHOOSE x \in Flow(ds, rs, n)!InUse : First(x)
<1>1. First(r)
  OBVIOUS
<1>2. x \in Flow(ds, rs, n)!InUse /\ First(x)
  BY <1>1
<1>3. Flow(ds, rs, n)!FirstCustomized(d) = x
  BY DEF Flow!FirstCustomized
<1> HIDE DEF x
<1>4. ~ (x < r) /\ ~ (r < x)
  BY <1>1, <1>2
<1>5. x = r
  BY <1>2, <1>4, RowFacts
<1>. QED
  BY <1>3, <1>5

LEMMA FlowInit ==
  ASSUME NEW ds, NEW rs \in Nat, NEW n, Flow(ds, rs, n)!Init
  PROVE  FlowInv(ds, rs, n)
<1>1. /\ part \in {"page", "email", "signout"} /\ first \in BOOLEAN
      /\ cached = None /\ memo = [r \in Flow(ds, rs, n)!InUse |-> Flow(ds, rs, n)!Blank]
         /\ request = Flow(ds, rs, n)!Idle
      /\ answer = Flow(ds, rs, n)!NoAnswer /\ rowsFound = [d \in ds |-> None]
  BY DEF Flow!Init
<1>2. PICK own \in [Flow(ds, rs, n)!AllRows -> Flow(ds, rs, n)!RowsOf(part)],
           fields \in Flow(ds, rs, n)!DefaultFields(part) :
        table = [r \in Flow(ds, rs, n)!InUse |-> IF r = Flow(ds, rs, n)!D THEN [domains |-> ds, has |-> fields] ELSE own[r]]
  BY DEF Flow!Init
<1>3. Flow(ds, rs, n)!D \in Flow(ds, rs, n)!InUse
        /\ \A r \in Flow(ds, rs, n)!InUse : r # Flow(ds, rs, n)!D => r \in Flow(ds, rs, n)!AllRows
  BY DEF Flow!InUse
<1>4. fields \subseteq Flow(ds, rs, n)!Fields(part)
  BY <1>1 DEF Flow!DefaultFields, Flow!Fields
<1>5. table \in [Flow(ds, rs, n)!InUse -> [domains : SUBSET ds, has : SUBSET Flow(ds, rs, n)!Fields(part)]]
      /\ table[Flow(ds, rs, n)!D].domains = ds /\ table[Flow(ds, rs, n)!D].has = fields
  <2> DEFINE T == [domains : SUBSET ds, has : SUBSET Flow(ds, rs, n)!Fields(part)]
  <2>1. [domains |-> ds, has |-> fields] \in T
    BY <1>4
  <2>2. \A r \in Flow(ds, rs, n)!AllRows : own[r] \in T
    BY DEF Flow!RowsOf
  <2> HIDE DEF T
  <2>3. table \in [Flow(ds, rs, n)!InUse -> T]
    BY <1>2, <1>3, <2>1, <2>2
  <2>4. table[Flow(ds, rs, n)!D] = [domains |-> ds, has |-> fields]
    BY <1>2, <1>3
  <2>. QED
    BY <2>3, <2>4 DEF T
<1>6. request.at = 0 /\ answer.row = None
  BY <1>1 DEF Flow!Idle, Flow!NoAnswer
<1>7. FlowShapes(ds, rs, n)
  BY <1>1, <1>5, <1>6 DEF FlowShapes
<1>. QED
  BY <1>1, <1>7 DEF FlowInv, NothingCached
-----------------------------------------------------------------------------
(* What the rows and the memory of them say stays while these stay.         *)
LEMMA FlowSame ==
  ASSUME NEW ds, NEW rs, NEW n, UNCHANGED <<part, first, cached>>
  PROVE  /\ Flow(ds, rs, n)!D' = Flow(ds, rs, n)!D /\ Flow(ds, rs, n)!InUse' = Flow(ds, rs, n)!InUse
         /\ \A r : Flow(ds, rs, n)!Plain(r)' <=> Flow(ds, rs, n)!Plain(r)
         /\ \A r, f : Flow(ds, rs, n)!Has(r, f)' <=> Flow(ds, rs, n)!Has(r, f)
         /\ \A r, f : Own(ds, rs, n, r, f)' = Own(ds, rs, n, r, f)
         /\ \A r : Flow(ds, rs, n)!Expected(r)' = Flow(ds, rs, n)!Expected(r)
         /\ \A r : NoContext(ds, rs, n, r)' <=> NoContext(ds, rs, n, r)
         /\ Settled(ds, rs, n) => Settled(ds, rs, n)'
         /\ \A d : Flow(ds, rs, n)!Matching(d)' = Flow(ds, rs, n)!Matching(d)
<1>1. Flow(ds, rs, n)!D' = Flow(ds, rs, n)!D /\ Flow(ds, rs, n)!InUse' = Flow(ds, rs, n)!InUse
  BY DEF Flow!D, Flow!InUse, Flow!AllRows
<1>2. \A r : Flow(ds, rs, n)!Plain(r)' <=> Flow(ds, rs, n)!Plain(r)
  BY <1>1 DEF Flow!Plain
<1>3. \A r, f : Flow(ds, rs, n)!Has(r, f)' <=> Flow(ds, rs, n)!Has(r, f)
  BY DEF Flow!Has
<1>4. \A r, f : Own(ds, rs, n, r, f)' = Own(ds, rs, n, r, f)
  BY <1>1, <1>3 DEF Own
<1>5. \A r : Flow(ds, rs, n)!Expected(r)' = Flow(ds, rs, n)!Expected(r)
  BY <1>1, <1>3 DEF Flow!Expected, Flow!Fields
<1>6. \A r : NoContext(ds, rs, n, r)' <=> NoContext(ds, rs, n, r)
  BY <1>1, <1>3 DEF NoContext
<1>7. Settled(ds, rs, n) => Settled(ds, rs, n)'
  BY <1>1 DEF Settled, RowsCached, Flow!Fields
<1>8. \A d : Flow(ds, rs, n)!Matching(d)' = Flow(ds, rs, n)!Matching(d)
  BY <1>1 DEF Flow!Matching
<1>. QED
  BY <1>1, <1>2, <1>3, <1>4, <1>5, <1>6, <1>7, <1>8
LEMMA MemoSame ==
  ASSUME NEW ds, NEW rs, NEW n, UNCHANGED <<part, first, cached>>,
         NEW k, MemoRight(ds, rs, n, k), memo' = k
  PROVE  MemoRight(ds, rs, n, memo)'
<1>1. /\ Flow(ds, rs, n)!D' = Flow(ds, rs, n)!D /\ Flow(ds, rs, n)!InUse' = Flow(ds, rs, n)!InUse
      /\ \A r : Flow(ds, rs, n)!Plain(r)' <=> Flow(ds, rs, n)!Plain(r)
      /\ \A r, f : Own(ds, rs, n, r, f)' = Own(ds, rs, n, r, f)
      /\ \A r : Flow(ds, rs, n)!Expected(r)' = Flow(ds, rs, n)!Expected(r)
      /\ \A r : NoContext(ds, rs, n, r)' <=> NoContext(ds, rs, n, r)
  BY FlowSame
<1>2. \A r \in Flow(ds, rs, n)!InUse : RowRight(ds, rs, n, memo, r)'
  <2>1. SUFFICES ASSUME NEW r \in Flow(ds, rs, n)!InUse PROVE RowRight(ds, rs, n, memo, r)'
    OBVIOUS
  <2>2. RowRight(ds, rs, n, k, r)
    BY DEF MemoRight
  <2>. QED
    BY <1>1, <2>2 DEF RowRight
<1>. QED
  BY <1>1, <1>2 DEF MemoRight, Flow!Slots, Flow!Fields

LEMMA AnswerSame ==
  ASSUME NEW ds, NEW rs, NEW n, UNCHANGED <<part, first, cached, answer>>
  PROVE  Flow(ds, rs, n)!AnswersAsConfigured => Flow(ds, rs, n)!AnswersAsConfigured'
<1>1. \A d : Flow(ds, rs, n)!FirstCustomized(d)' = Flow(ds, rs, n)!FirstCustomized(d)
  BY FlowSame DEF Flow!FirstCustomized
<1>2. PICK r : r = Flow(ds, rs, n)!FirstCustomized(answer.domain)
  OBVIOUS
<1>3. r = Flow(ds, rs, n)!FirstCustomized(answer.domain)'
  BY <1>1, <1>2
<1>4. Flow(ds, rs, n)!AnswersAsConfigured <=>
        (answer # Flow(ds, rs, n)!NoAnswer =>
           IF part = "page" /\ r # Flow(ds, rs, n)!D /\ Flow(ds, rs, n)!Has(r, "css")
                /\ ~ Flow(ds, rs, n)!Has(r, "layout")
           THEN answer.row = Flow(ds, rs, n)!Broken
           ELSE answer.row = r /\ answer.slot = Flow(ds, rs, n)!Expected(r))
  BY <1>2 DEF Flow!AnswersAsConfigured
<1>6. /\ Flow(ds, rs, n)!D' = Flow(ds, rs, n)!D
         /\ Flow(ds, rs, n)!Expected(r)' = Flow(ds, rs, n)!Expected(r)
      /\ Flow(ds, rs, n)!Has(r, "css")' <=> Flow(ds, rs, n)!Has(r, "css")
      /\ Flow(ds, rs, n)!Has(r, "layout")' <=> Flow(ds, rs, n)!Has(r, "layout")
  BY FlowSame
<1>5. Flow(ds, rs, n)!AnswersAsConfigured' <=>
        (answer # Flow(ds, rs, n)!NoAnswer =>
           IF part = "page" /\ r # Flow(ds, rs, n)!D /\ Flow(ds, rs, n)!Has(r, "css")
                /\ ~ Flow(ds, rs, n)!Has(r, "layout")
           THEN answer.row = Flow(ds, rs, n)!Broken
           ELSE answer.row = r /\ answer.slot = Flow(ds, rs, n)!Expected(r))
  BY <1>3, <1>6 DEF Flow!AnswersAsConfigured, Flow!NoAnswer, Flow!Broken
<1>. QED
  BY <1>4, <1>5

LEMMA PlainSame ==
  ASSUME NEW ds, NEW rs, NEW n, UNCHANGED <<part, first, cached, request>>
  PROVE  PlainSoFar(ds, rs, n) => PlainSoFar(ds, rs, n)'
BY FlowSame DEF PlainSoFar, Flow!Idle

LEMMA ShapesKept ==
  ASSUME NEW ds, NEW rs, NEW n, FlowShapes(ds, rs, n), UNCHANGED <<part, first, table>>,
         request'.at \in 0..(rs + 2), rowsFound' \in [ds -> {None} \cup SUBSET Flow(ds, rs, n)!InUse],
         answer'.row \in Flow(ds, rs, n)!InUse \cup {None, Flow(ds, rs, n)!Broken}
  PROVE  FlowShapes(ds, rs, n)'
<1>1. Flow(ds, rs, n)!D' = Flow(ds, rs, n)!D /\ Flow(ds, rs, n)!InUse' = Flow(ds, rs, n)!InUse
  BY DEF FlowShapes, Flow!D, Flow!InUse, Flow!AllRows
<1>. QED
  BY <1>1 DEF FlowShapes, Flow!Fields, Flow!DefaultFields, Flow!Broken

LEMMA FlowKept ==
  ASSUME NEW ds, NEW rs, NEW n,
         UNCHANGED <<part, first, cached, memo, rowsFound, request, answer>>
  PROVE  /\ NothingCached(ds, rs, n) => NothingCached(ds, rs, n)'
         /\ Serving(ds, rs, n) => Serving(ds, rs, n)'
<1>1. NothingCached(ds, rs, n) => NothingCached(ds, rs, n)'
  <2>1. Flow(ds, rs, n)!InUse' = Flow(ds, rs, n)!InUse
          /\ Flow(ds, rs, n)!Blank' = Flow(ds, rs, n)!Blank
    BY FlowSame DEF Flow!Blank, Flow!Slots, Flow!Fields
  <2>2. [r \in Flow(ds, rs, n)!InUse |-> Flow(ds, rs, n)!Blank]' = [r \in Flow(ds, rs, n)!InUse |-> Flow(ds, rs, n)!Blank]
    BY <2>1
  <2>. QED
    BY <2>2 DEF NothingCached, Flow!Idle, Flow!NoAnswer
<1>2. MemoRight(ds, rs, n, memo) => MemoRight(ds, rs, n, memo)'
  <2>1. PICK k : k = memo
    OBVIOUS
  <2>. QED
    BY <2>1, MemoSame
<1>3. (\A d \in ds : rowsFound[d] = None \/ rowsFound[d] = Flow(ds, rs, n)!Matching(d)) =>
        (\A d \in ds : rowsFound[d] = None \/ rowsFound[d] = Flow(ds, rs, n)!Matching(d))'
  BY FlowSame
<1>. QED
  BY <1>1, <1>2, <1>3, FlowSame, PlainSame, AnswerSame DEF Serving

LEMMA FlowChange ==
  ASSUME NEW ds, NEW rs, NEW n, FlowInv(ds, rs, n), Flow(ds, rs, n)!Change
  PROVE  FlowInv(ds, rs, n)'
<1>1. UNCHANGED <<part, first, cached, memo, rowsFound, request, answer>>
  BY DEF Flow!Change
<1>2. PICK r \in Flow(ds, rs, n)!AllRows, new \in Flow(ds, rs, n)!RowsOf(part) : table' = [table EXCEPT ![r] = new]
  BY DEF Flow!Change
<1>3. r \in Flow(ds, rs, n)!InUse /\ r # Flow(ds, rs, n)!D
  BY DEF FlowInv, FlowShapes, Flow!InUse, Flow!AllRows, Flow!D
<1>4. new \in [domains : SUBSET ds, has : SUBSET Flow(ds, rs, n)!Fields(part)]
  BY DEF Flow!RowsOf
<1>5. /\ table' \in [Flow(ds, rs, n)!InUse -> [domains : SUBSET ds, has : SUBSET Flow(ds, rs, n)!Fields(part)]]
      /\ table'[Flow(ds, rs, n)!D] = table[Flow(ds, rs, n)!D]
  <2> DEFINE T == [domains : SUBSET ds, has : SUBSET Flow(ds, rs, n)!Fields(part)]
  <2>1. table \in [Flow(ds, rs, n)!InUse -> T] /\ new \in T
    BY <1>4 DEF FlowInv, FlowShapes
  <2> HIDE DEF T
  <2>2. table' \in [Flow(ds, rs, n)!InUse -> T]
          /\ table'[Flow(ds, rs, n)!D] = table[Flow(ds, rs, n)!D]
    BY <1>2, <1>3, <2>1
  <2>. QED
    BY <2>2 DEF T
<1>6. Flow(ds, rs, n)!D' = Flow(ds, rs, n)!D /\ Flow(ds, rs, n)!InUse' = Flow(ds, rs, n)!InUse
  BY <1>1, FlowSame
<1>7. FlowShapes(ds, rs, n)'
  BY <1>1, <1>5, <1>6 DEF FlowInv, FlowShapes, Flow!Fields, Flow!DefaultFields, Flow!Broken
<1>. QED
  BY <1>1, <1>7, FlowKept DEF FlowInv
LEMMA FlowRefresh ==
  ASSUME NEW ds, NEW rs, NEW n, FlowInv(ds, rs, n), Flow(ds, rs, n)!Refresh
  PROVE  FlowInv(ds, rs, n)'
<1> DEFINE T == [domains : SUBSET ds, has : SUBSET Flow(ds, rs, n)!Fields(part)]
           d == Flow(ds, rs, n)!D
           R == Flow(ds, rs, n)!InUse
<1>1. /\ cached' = Flow(ds, rs, n)!Loaded /\ memo' = [r \in R |-> Flow(ds, rs, n)!Blank]
         /\ rowsFound' = [c \in ds |-> None]
      /\ answer' = Flow(ds, rs, n)!NoAnswer /\ request = Flow(ds, rs, n)!Idle
      /\ UNCHANGED <<part, first, table, request>>
  BY DEF Flow!Refresh
<1>2. /\ rs \in Nat /\ part \in {"page", "email", "signout"} /\ first \in BOOLEAN
      /\ table \in [R -> T] /\ table[d].domains = ds
         /\ table[d].has \in Flow(ds, rs, n)!DefaultFields(part)
      /\ FlowShapes(ds, rs, n)
  BY DEF FlowInv, FlowShapes
<1>3. d' = d /\ R' = R /\ d \in R
  BY <1>1 DEF Flow!D, Flow!InUse, Flow!AllRows
<1>4. RowsCached(ds, rs, n)'
  <2>1. /\ cached' = [r \in R |-> IF r = d THEN [table[r] EXCEPT !.has = @ \ {"css"}] ELSE table[r]]
        /\ cached'[d] = [table[d] EXCEPT !.has = @ \ {"css"}]
    BY <1>1, <1>3 DEF Flow!Loaded
  <2>2. \A r \in R : table[r] \in T /\ [table[r] EXCEPT !.has = @ \ {"css"}] \in T
    BY <1>2
  <2>3. cached'[d].domains = ds /\ cached'[d].has = table[d].has \ {"css"}
    BY <1>2, <1>3, <2>1
  <2>4. part = "page" => cached'[d].has = {"layout"}
    BY <1>2, <2>3 DEF Flow!DefaultFields
  <2>5. cached' \in [R -> T]
    <3> HIDE DEF T
    <3>. QED
      BY <2>1, <2>2
  <2>. QED
    BY <1>1, <1>3, <2>3, <2>4, <2>5 DEF RowsCached, Flow!Fields
<1>5. Settled(ds, rs, n)'
  BY <1>1, <1>2, <1>4 DEF Settled
<1>6. MemoRight(ds, rs, n, memo)'
  <2>1. Flow(ds, rs, n)!Blank.state = "unknown"
          /\ Flow(ds, rs, n)!Blank.slot = [s \in Flow(ds, rs, n)!Slots(part) |-> None]
    BY DEF Flow!Blank
  <2>2. Flow(ds, rs, n)!Blank \in [state : {"unknown", "plain", "done"}, slot : [Flow(ds, rs, n)!Slots(part) -> Nat \cup {None}]]
    BY DEF Flow!Blank
  <2>3. part = "page" => \A c \in Classes : Flow(ds, rs, n)!Blank.slot[c] = None
    BY <2>1 DEF Flow!Slots
  <2>4. \A r \in R : memo'[r] = Flow(ds, rs, n)!Blank
    BY <1>1
  <2>5. \A r \in R : RowRight(ds, rs, n, memo, r)'
    BY <1>1, <2>1, <2>3, <2>4 DEF RowRight
  <2>6. Flow(ds, rs, n)!Slots(part)' = Flow(ds, rs, n)!Slots(part)
    BY <1>1 DEF Flow!Slots, Flow!Fields
  <2>7. memo' \in [R -> [state : {"unknown", "plain", "done"}, slot : [Flow(ds, rs, n)!Slots(part) -> Nat \cup {None}]]]
    BY <1>1, <2>2
  <2>. QED
    BY <1>3, <2>5, <2>6, <2>7 DEF MemoRight
<1>7. request' = Flow(ds, rs, n)!Idle' /\ answer' = Flow(ds, rs, n)!NoAnswer'
  BY <1>1 DEF Flow!Idle, Flow!NoAnswer
<1>8. rowsFound' \in [ds -> {None} \cup SUBSET R] /\ \A c \in ds : rowsFound'[c] = None
  BY <1>1
<1>9. Serving(ds, rs, n)'
  BY <1>5, <1>6, <1>7, <1>8 DEF Serving, PlainSoFar, Flow!AnswersAsConfigured
<1>10. request'.at \in 0..(rs + 2) /\ answer'.row = None
  BY <1>1, <1>2 DEF Flow!Idle, Flow!NoAnswer
<1>11. FlowShapes(ds, rs, n)'
  BY <1>1, <1>2, <1>8, <1>10, ShapesKept
<1>. QED
  BY <1>9, <1>11 DEF FlowInv

LEMMA FlowAsk ==
  ASSUME NEW ds, NEW rs, NEW n, FlowInv(ds, rs, n), Flow(ds, rs, n)!AskAny
  PROVE  FlowInv(ds, rs, n)'
<1>1. PICK d \in ds, c \in (IF part = "page" THEN Classes ELSE {None}) : Flow(ds, rs, n)!Ask(d, c)
  BY DEF Flow!AskAny
<1>2. /\ cached # None /\ request' = [domain |-> d, class |-> c, at |-> 0]
         /\ answer' = Flow(ds, rs, n)!NoAnswer
      /\ UNCHANGED <<part, first, table, cached, memo, rowsFound>>
  BY <1>1 DEF Flow!Ask
<1>3. Serving(ds, rs, n) /\ FlowShapes(ds, rs, n)
  BY <1>2 DEF FlowInv, NothingCached
<1>4. Settled(ds, rs, n)'
  BY <1>2, <1>3, FlowSame DEF Serving
<1>5. MemoRight(ds, rs, n, memo)'
  <2>1. PICK k : k = memo /\ MemoRight(ds, rs, n, k)
    BY <1>3 DEF Serving
  <2>. QED
    BY <1>2, <2>1, MemoSame
<1>6. \A b \in ds : rowsFound'[b] = None \/ rowsFound'[b] = Flow(ds, rs, n)!Matching(b)'
  BY <1>2, <1>3, FlowSame DEF Serving
<1>7. PlainSoFar(ds, rs, n)'
  <2>1. \A q \in Flow(ds, rs, n)!InUse' : ~ (q < 0)
    BY <1>4, RowFacts, <1>2, <1>3, FlowSame DEF Serving
  <2>. QED
    BY <1>1, <1>2, <2>1 DEF PlainSoFar
<1>8. Flow(ds, rs, n)!AnswersAsConfigured'
  BY <1>2 DEF Flow!AnswersAsConfigured, Flow!NoAnswer
<1>9. Serving(ds, rs, n)'
  BY <1>4, <1>5, <1>6, <1>7, <1>8 DEF Serving
<1>10. FlowShapes(ds, rs, n)'
  <2>1. request'.at \in 0..(rs + 2) /\ answer'.row = None
          /\ rowsFound' \in [ds -> {None} \cup SUBSET Flow(ds, rs, n)!InUse]
    BY <1>2, <1>3 DEF FlowShapes, Flow!NoAnswer
  <2>. QED
    BY <1>2, <1>3, <2>1, ShapesKept
<1>. QED
  BY <1>9, <1>10 DEF FlowInv

LEMMA FlowFind ==
  ASSUME NEW ds, NEW rs, NEW n, FlowInv(ds, rs, n), Flow(ds, rs, n)!Find
  PROVE  FlowInv(ds, rs, n)'
<1>1. /\ request # Flow(ds, rs, n)!Idle
         /\ rowsFound' = [rowsFound EXCEPT ![request.domain] = Flow(ds, rs, n)!Matching(request.domain)]
      /\ UNCHANGED <<part, first, table, cached, memo, request, answer>>
  BY DEF Flow!Find
<1>2. Serving(ds, rs, n) /\ FlowShapes(ds, rs, n) /\ request.domain \in ds
  BY <1>1 DEF FlowInv, NothingCached, Serving, PlainSoFar
<1>3. MemoRight(ds, rs, n, memo)'
  <2>1. PICK k : k = memo /\ MemoRight(ds, rs, n, k)
    BY <1>2 DEF Serving
  <2>. QED
    BY <1>1, <2>1, MemoSame
<1>4. /\ rowsFound' \in [ds -> {None} \cup SUBSET Flow(ds, rs, n)!InUse]
      /\ \A b \in ds : rowsFound'[b] = None \/ rowsFound'[b] = Flow(ds, rs, n)!Matching(b)
  <2>1. \A b : Flow(ds, rs, n)!Matching(b) \subseteq Flow(ds, rs, n)!InUse
    BY DEF Flow!Matching
  <2>2. rowsFound \in [ds -> {None} \cup SUBSET Flow(ds, rs, n)!InUse]
    BY <1>2 DEF FlowShapes
  <2>. QED
    BY <1>1, <1>2, <2>1, <2>2 DEF Serving
<1>5. \A b \in ds : rowsFound'[b] = None \/ rowsFound'[b] = Flow(ds, rs, n)!Matching(b)'
  <2>1. \A b : Flow(ds, rs, n)!Matching(b)' = Flow(ds, rs, n)!Matching(b)
    BY <1>1, FlowSame
  <2>. QED
    BY <1>4, <2>1
<1>6. Settled(ds, rs, n)' /\ PlainSoFar(ds, rs, n)' /\ Flow(ds, rs, n)!AnswersAsConfigured'
  BY <1>1, <1>2, FlowSame, PlainSame, AnswerSame DEF Serving
<1>7. Serving(ds, rs, n)'
  BY <1>3, <1>5, <1>6 DEF Serving
<1>8. FlowShapes(ds, rs, n)'
  BY <1>1, <1>2, <1>4, ShapesKept DEF FlowShapes
<1>. QED
  BY <1>7, <1>8 DEF FlowInv
(***************************************************************************)
(* A turn of the loop: the default row is always still to come, the least   *)
(* of the rows to come is looked at, and where it is not plain it is the    *)
(* first customized one.                                                   *)
(***************************************************************************)
LEMMA FlowVisit ==
  ASSUME NEW ds, NEW rs, NEW n, FlowInv(ds, rs, n), Flow(ds, rs, n)!Visit
  PROVE  FlowInv(ds, rs, n)'
<1>1. /\ request # Flow(ds, rs, n)!Idle /\ rowsFound[request.domain] # None
      /\ UNCHANGED <<part, first, table, cached, rowsFound>>
  BY DEF Flow!Visit
<1>2. PICK d, class, at : d = request.domain /\ class = request.class /\ at = request.at
  OBVIOUS
<1>3. /\ Serving(ds, rs, n) /\ FlowShapes(ds, rs, n) /\ Settled(ds, rs, n)
         /\ MemoRight(ds, rs, n, memo)
      /\ d \in ds /\ (part = "page" => class \in Classes) /\ at \in 0..(rs + 2) /\ rs \in Nat
      /\ request = [domain |-> d, class |-> class, at |-> at]
      /\ \A q \in Flow(ds, rs, n)!InUse : q < at /\ d \in cached[q].domains
         => Flow(ds, rs, n)!Plain(q)
  BY <1>1, <1>2 DEF FlowInv, NothingCached, Serving, PlainSoFar, FlowShapes
<1>4. rowsFound[d] = Flow(ds, rs, n)!Matching(d)
  BY <1>1, <1>2, <1>3 DEF Serving
<1>5. Flow(ds, rs, n)!Coming = {q \in Flow(ds, rs, n)!InUse : d \in cached[q].domains /\ q >= at}
  BY <1>2, <1>4 DEF Flow!Coming, Flow!Matching
<1>6. Flow(ds, rs, n)!D \in Flow(ds, rs, n)!Coming
        /\ Flow(ds, rs, n)!Coming \subseteq Flow(ds, rs, n)!InUse
           /\ Flow(ds, rs, n)!InUse \subseteq Nat /\ Flow(ds, rs, n)!InUse \subseteq 0..(rs + 1)
  <2>1. /\ Flow(ds, rs, n)!D \in Flow(ds, rs, n)!InUse /\ Flow(ds, rs, n)!InUse \subseteq Nat
           /\ ~ Flow(ds, rs, n)!Plain(Flow(ds, rs, n)!D) /\ cached[Flow(ds, rs, n)!D].domains = ds
        /\ Flow(ds, rs, n)!InUse \subseteq 0..(rs + 1)
    BY <1>3, RowFacts DEF Settled, RowsCached
  <2>2. ~ (Flow(ds, rs, n)!D < at)
    BY <1>3, <2>1
  <2>3. Flow(ds, rs, n)!D >= at
    BY <1>3, <2>1, <2>2
  <2>. QED
    BY <1>3, <1>5, <2>1, <2>3
<1>7. \E x \in Flow(ds, rs, n)!Coming : \A q \in Flow(ds, rs, n)!Coming : x <= q
  BY <1>6, LeastExists
<1>8. PICK r : r = CHOOSE x \in Flow(ds, rs, n)!Coming : \A q \in Flow(ds, rs, n)!Coming : x <= q
  OBVIOUS
<1>9. r \in Flow(ds, rs, n)!Coming /\ \A q \in Flow(ds, rs, n)!Coming : r <= q
  BY <1>7, <1>8
<1>10. r \in Flow(ds, rs, n)!InUse /\ d \in cached[r].domains /\ r >= at
  BY <1>5, <1>9
<1>11. \A q \in Flow(ds, rs, n)!InUse : q < r /\ d \in cached[q].domains => Flow(ds, rs, n)!Plain(q)
  <2>1. SUFFICES ASSUME NEW q \in Flow(ds, rs, n)!InUse, q < r, d \in cached[q].domains
                     PROVE Flow(ds, rs, n)!Plain(q)
    OBVIOUS
  <2>2. q \notin Flow(ds, rs, n)!Coming
    BY <1>6, <1>9, <1>10, <2>1
  <2>3. q < at
    BY <1>3, <1>5, <1>6, <2>1, <2>2
  <2>. QED
    BY <1>3, <2>1, <2>3
<1>12. PICK m : m = Flow(ds, rs, n)!InitRow(memo, r, class)
  OBVIOUS
<1>13. /\ MemoRight(ds, rs, n, m)
       /\ m[r].state # "plain" =>
            /\ ~ Flow(ds, rs, n)!Plain(r)
            /\ ~ (part = "page" /\ NoContext(ds, rs, n, r)) =>
                 m[r].state = "done"
                   /\ Flow(ds, rs, n)!Slot(m, r, class) = Flow(ds, rs, n)!Expected(r)
  BY <1>3, <1>10, <1>12, RowLooked
<1>14. RowRight(ds, rs, n, m, r) /\ m[r].state \in {"unknown", "plain", "done"}
  BY <1>10, <1>13 DEF MemoRight
<1>15. /\ memo' = m
       /\ IF m[r].state = "plain"
          THEN request' = [request EXCEPT !.at = r + 1] /\ UNCHANGED answer
          ELSE /\ answer' = [row |-> IF m[r].state = "done" THEN r ELSE Flow(ds, rs, n)!Broken,
                             slot |-> IF m[r].state = "done" THEN Flow(ds, rs, n)!Slot(m, r, class)
                                      ELSE None,
                             domain |-> d]
               /\ request' = Flow(ds, rs, n)!Idle
  BY <1>2, <1>8, <1>12 DEF Flow!Visit
<1>16. MemoRight(ds, rs, n, memo)' /\ Settled(ds, rs, n)'
  BY <1>1, <1>3, <1>13, <1>15, MemoSame, FlowSame
<1>17. \A b \in ds : rowsFound'[b] = None \/ rowsFound'[b] = Flow(ds, rs, n)!Matching(b)'
  <2>1. \A b : Flow(ds, rs, n)!Matching(b)' = Flow(ds, rs, n)!Matching(b)
    BY <1>1, FlowSame
  <2>. QED
    BY <1>1, <1>3, <2>1 DEF Serving
<1>18. /\ request'.at \in 0..(rs + 2)
          /\ answer'.row \in Flow(ds, rs, n)!InUse \cup {None, Flow(ds, rs, n)!Broken}
       /\ PlainSoFar(ds, rs, n)' /\ Flow(ds, rs, n)!AnswersAsConfigured'
  <2>1. CASE m[r].state = "plain"
    <3>1. request' = [domain |-> d, class |-> class, at |-> r + 1] /\ UNCHANGED answer
      BY <1>3, <1>15, <2>1
    <3>2. r + 1 \in 0..(rs + 2)
      BY <1>3, <1>6, <1>10
    <3>3. \A q \in Flow(ds, rs, n)!InUse : q < r + 1 /\ d \in cached[q].domains
            => Flow(ds, rs, n)!Plain(q)
      <4>1. Flow(ds, rs, n)!Plain(r)
        BY <1>14, <2>1 DEF RowRight
      <4>2. \A q \in Flow(ds, rs, n)!InUse : q < r + 1 => q < r \/ q = r
        BY <1>6, <1>10
      <4>. QED
        BY <1>11, <4>1, <4>2
    <3>4. PlainSoFar(ds, rs, n)'
      <4>1. Flow(ds, rs, n)!InUse' = Flow(ds, rs, n)!InUse
              /\ \A q : Flow(ds, rs, n)!Plain(q)' <=> Flow(ds, rs, n)!Plain(q)
        BY <1>1, FlowSame
      <4>2. /\ request'.domain = d /\ request'.class = class /\ request'.at = r + 1
            /\ cached' = cached /\ part' = part
        BY <1>1, <3>1
      <4>3. \A q \in Flow(ds, rs, n)!InUse' : q < request'.at
              /\ request'.domain \in cached'[q].domains => Flow(ds, rs, n)!Plain(q)'
        BY <3>3, <4>1, <4>2
      <4>. QED
        BY <1>3, <3>1, <4>2, <4>3 DEF PlainSoFar
    <3>. QED
      BY <1>1, <1>3, <3>1, <3>2, <3>4, AnswerSame DEF Serving, FlowShapes
  <2>2. CASE m[r].state # "plain"
    <3>1. ~ Flow(ds, rs, n)!Plain(r)
      BY <1>13, <2>2
    <3>2. Flow(ds, rs, n)!FirstCustomized(d) = r
      BY <1>3, <1>10, <1>11, <3>1, FirstIsLeast
    <3>3. /\ answer'.domain = d /\ request' = Flow(ds, rs, n)!Idle
          /\ answer'.row = IF m[r].state = "done" THEN r ELSE Flow(ds, rs, n)!Broken
          /\ m[r].state = "done" => answer'.slot = Flow(ds, rs, n)!Slot(m, r, class)
      BY <1>15, <2>2
    <3>4. IF part = "page" /\ NoContext(ds, rs, n, r) THEN answer'.row = Flow(ds, rs, n)!Broken
          ELSE answer'.row = r /\ answer'.slot = Flow(ds, rs, n)!Expected(r)
      <4>1. part = "page" /\ NoContext(ds, rs, n, r) => m[r].state # "done"
        BY <1>14 DEF RowRight
      <4>. QED
        BY <1>13, <2>2, <3>3, <4>1
    <3>5. Flow(ds, rs, n)!AnswersAsConfigured'
      <4>1. /\ Flow(ds, rs, n)!FirstCustomized(d)' = r /\ Flow(ds, rs, n)!D' = Flow(ds, rs, n)!D
               /\ Flow(ds, rs, n)!Expected(r)' = Flow(ds, rs, n)!Expected(r)
            /\ Flow(ds, rs, n)!Has(r, "css")' <=> Flow(ds, rs, n)!Has(r, "css")
            /\ Flow(ds, rs, n)!Has(r, "layout")' <=> Flow(ds, rs, n)!Has(r, "layout")
            /\ \A q : Flow(ds, rs, n)!Plain(q)' <=> Flow(ds, rs, n)!Plain(q)
            /\ Flow(ds, rs, n)!InUse' = Flow(ds, rs, n)!InUse
        <5>1. Flow(ds, rs, n)!FirstCustomized(d)' = Flow(ds, rs, n)!FirstCustomized(d)
          BY <1>1, FlowSame DEF Flow!FirstCustomized
        <5>. QED
          BY <1>1, <3>2, <5>1, FlowSame
      <4>2. Flow(ds, rs, n)!FirstCustomized(answer.domain)' = r
        BY <3>3, <4>1
      <4>3. IF part = "page" /\ r # Flow(ds, rs, n)!D /\ Flow(ds, rs, n)!Has(r, "css")
                 /\ ~ Flow(ds, rs, n)!Has(r, "layout")
            THEN answer'.row = Flow(ds, rs, n)!Broken
            ELSE answer'.row = r /\ answer'.slot = Flow(ds, rs, n)!Expected(r)
        BY <3>4 DEF NoContext
      <4>. QED
        BY <1>1, <4>1, <4>2, <4>3 DEF Flow!AnswersAsConfigured, Flow!Broken
    <3>6. PlainSoFar(ds, rs, n)' /\ request'.at = 0
      BY <3>3 DEF PlainSoFar, Flow!Idle
    <3>. QED
      BY <1>3, <1>10, <3>3, <3>5, <3>6
  <2>. QED
    BY <2>1, <2>2
<1>19. Serving(ds, rs, n)'
  BY <1>16, <1>17, <1>18 DEF Serving
<1>20. FlowShapes(ds, rs, n)'
  BY <1>1, <1>3, <1>18, ShapesKept DEF FlowShapes
<1>. QED
  BY <1>19, <1>20 DEF FlowInv
LEMMA FlowNext ==
  ASSUME NEW ds, NEW rs, NEW n, FlowInv(ds, rs, n), [Flow(ds, rs, n)!Next]_flowVars
  PROVE  FlowInv(ds, rs, n)'
<1>1. CASE Flow(ds, rs, n)!Change
  BY <1>1, FlowChange
<1>2. CASE Flow(ds, rs, n)!Refresh
  BY <1>2, FlowRefresh
<1>3. CASE Flow(ds, rs, n)!AskAny
  BY <1>3, FlowAsk
<1>4. CASE Flow(ds, rs, n)!Find
  BY <1>4, FlowFind
<1>5. CASE Flow(ds, rs, n)!Visit
  BY <1>5, FlowVisit
<1>6. CASE UNCHANGED flowVars
  <2>1. UNCHANGED <<part, first, table, cached, memo, rowsFound, request, answer>>
    BY <1>6 DEF flowVars
  <2>2. FlowShapes(ds, rs, n)'
    BY <2>1, ShapesKept DEF FlowInv, FlowShapes
  <2>. QED
    BY <2>1, <2>2, FlowKept DEF FlowInv
<1>. QED
  BY <1>1, <1>2, <1>3, <1>4, <1>5, <1>6 DEF Flow!Next

(* For both of the tables that the checks use.                             *)
FlowsInv ==
  /\ which = "userflows" => FlowInv(FlowDomains, FlowRows, FlowRequests)
  /\ which = "shared userflows" => FlowInv(SharedDomains, SharedRows, SharedRequests)

LEMMA FlowsHold == Spec => []FlowsInv
<1>1. Init => FlowsInv
  <2>1. FlowRows \in Nat /\ SharedRows \in Nat
    BY DecisionsAssumption
  <2>2. ASSUME Init, which = "userflows" PROVE FlowInv(FlowDomains, FlowRows, FlowRequests)
    <3>1. Flow(FlowDomains, FlowRows, FlowRequests)!Init
      BY <2>2 DEF Init
    <3>. QED
      BY <2>1, <3>1, FlowInit
  <2>3. ASSUME Init, which = "shared userflows"
        PROVE FlowInv(SharedDomains, SharedRows, SharedRequests)
    <3>1. Flow(SharedDomains, SharedRows, SharedRequests)!Init
      BY <2>3 DEF Init
    <3>. QED
      BY <2>1, <3>1, FlowInit
  <2>. QED
    BY <2>2, <2>3 DEF FlowsInv
<1>2. FlowsInv /\ [Next]_unionVars => FlowsInv'
  <2> SUFFICES ASSUME FlowsInv, [Next]_unionVars PROVE FlowsInv'
    OBVIOUS
  <2>1. which' = which
    BY DEF Next, unionVars
  <2>2. ASSUME which = "userflows" PROVE FlowInv(FlowDomains, FlowRows, FlowRequests)'
    <3>1. [Flow(FlowDomains, FlowRows, FlowRequests)!Next]_flowVars
      BY <2>2 DEF Next, unionVars
    <3>. QED
      BY <2>2, <3>1, FlowNext DEF FlowsInv
  <2>3. ASSUME which = "shared userflows" PROVE FlowInv(SharedDomains, SharedRows, SharedRequests)'
    <3>1. [Flow(SharedDomains, SharedRows, SharedRequests)!Next]_flowVars
      BY <2>3 DEF Next, unionVars
    <3>. QED
      BY <2>3, <3>1, FlowNext DEF FlowsInv
  <2>. QED
    BY <2>1, <2>2, <2>3 DEF FlowsInv
<1>. QED
  BY <1>1, <1>2, PTL DEF Spec

(* A domain is shown the first of its userflows that customizes anything,   *)
(* with the default's fields where it has none, whatever was asked for,     *)
(* edited or refreshed before: nothing that is remembered on a cached row   *)
(* survives the rows it was made from.                                     *)
THEOREM UserflowsAnswer == Spec => []AnswersAsConfigured
<1>1. ASSUME NEW ds, NEW rs, NEW n, FlowInv(ds, rs, n)
      PROVE  Flow(ds, rs, n)!AnswersAsConfigured /\ Flow(ds, rs, n)!TypeOK
  <2>1. request.at \in 0..(rs + 2)
          /\ answer.row \in Flow(ds, rs, n)!InUse \cup {None, Flow(ds, rs, n)!Broken}
    BY <1>1 DEF FlowInv, FlowShapes
  <2>2. Flow(ds, rs, n)!AnswersAsConfigured
    BY <1>1 DEF FlowInv, NothingCached, Serving, Flow!AnswersAsConfigured
  <2>3. \A r \in Flow(ds, rs, n)!InUse : memo[r].state \in {"unknown", "plain", "done"}
    BY <1>1 DEF FlowInv, NothingCached, Flow!Blank, Serving, MemoRight
  <2>. QED
    BY <2>1, <2>2, <2>3 DEF Flow!TypeOK
<1>2. FlowsInv => AnswersAsConfigured
  BY <1>1 DEF FlowsInv, AnswersAsConfigured
<1>. QED
  BY <1>2, FlowsHold, PTL

-----------------------------------------------------------------------------
(***************************************************************************)
(* The online status: the periods of one cluster.                           *)
(***************************************************************************)
LEMMA ClockAssumption ==
  /\ Now \in Nat /\ Earliest \in Nat /\ Earliest < Now /\ Alive \in Nat /\ Replaced \in Nat
  /\ MaxServers \in Nat /\ Clusters # {}
BY DecisionsAssumption

(* The last heartbeat of a server of the list, or now if it is recent.      *)
BeatOf(s, i) == Online!Beats(s[i]).beat

LEMMA ServerTimes ==
  ASSUME NEW s \in Online!ServerLists
  PROVE  /\ s \in Seq(Online!Server) /\ Len(s) \in 0..MaxServers /\ DOMAIN s = 1..Len(s)
         /\ \A i \in DOMAIN s : /\ s[i].ready \in Nat /\ BeatOf(s, i) \in Nat
                                /\ s[i].ready <= BeatOf(s, i) /\ BeatOf(s, i) <= Now
<1>1. PICK n \in 0..MaxServers : s \in [1..n -> Online!Server]
  BY DEF Online!ServerLists
<1>2. n \in Nat /\ MaxServers \in Nat
  BY ClockAssumption
<1>3. s \in Seq(Online!Server) /\ Len(s) = n /\ DOMAIN s = 1..n
  BY <1>1, <1>2
<1>4. ASSUME NEW x \in Online!Server
      PROVE  /\ x.ready \in Nat /\ Online!Beats(x).beat \in Nat
             /\ x.ready <= Online!Beats(x).beat /\ Online!Beats(x).beat <= Now
  BY ClockAssumption DEF Online!Server, Online!Times, Online!Beats
<1>. QED
  BY <1>1, <1>3, <1>4 DEF BeatOf

(* The list is in the order of the ready times.                            *)
LEMMA ReadyOrdered ==
  ASSUME NEW s \in Online!ServerLists, NEW i \in DOMAIN s, NEW j \in DOMAIN s, i <= j
  PROVE  s[i].ready <= s[j].ready
<1> DEFINE Bad == {k \in DOMAIN s : i <= k /\ ~ (s[i].ready <= s[k].ready)}
<1>1. /\ DOMAIN s = 1..Len(s) /\ Len(s) \in Nat
      /\ \A k \in DOMAIN s : s[k].ready \in Nat
  BY ServerTimes
<1>2. \A k \in 1..(Len(s) - 1) : s[k].ready <= s[k + 1].ready
  BY <1>1 DEF Online!ServerLists, Online!Sorted, Online!Earlier
<1>3. SUFFICES ASSUME Bad # {} PROVE FALSE
  OBVIOUS
<1>4. Bad \subseteq Nat
  BY <1>1
<1> HIDE DEF Bad
<1>5. PICK k \in Bad : \A q \in Bad : k <= q
  BY <1>3, <1>4, LeastExists
<1>6. k \in DOMAIN s /\ i <= k /\ ~ (s[i].ready <= s[k].ready)
  BY <1>5 DEF Bad
<1>7. k # i
  BY <1>1, <1>6
<1>8. k - 1 \in 1..(Len(s) - 1) /\ i <= k - 1 /\ k - 1 \in DOMAIN s /\ (k - 1) + 1 = k
  BY <1>1, <1>6, <1>7
<1>9. k - 1 \notin Bad
  BY <1>1, <1>5, <1>6, <1>8
<1>10. s[i].ready <= s[k - 1].ready
  BY <1>8, <1>9 DEF Bad
<1>11. s[k - 1].ready <= s[k].ready
  BY <1>2, <1>8
<1>. QED
  BY <1>1, <1>6, <1>8, <1>10, <1>11

Period == [from : Nat, to : 0..Now, online : SUBSET Nat]

LEMMA TilesAppend ==
  ASSUME NEW P, NEW p \in Seq(P), NEW x \in P, Online!Tiles(p), x.from < x.to,
         IF p = <<>> THEN x.from = Earliest ELSE p[Len(p)].to = x.from
  PROVE  Online!Tiles(Append(p, x))
<1> DEFINE q == Append(p, x)
<1>1. /\ q \in Seq(P) /\ q # <<>> /\ Len(q) = Len(p) + 1 /\ Len(p) \in Nat /\ DOMAIN q = 1..(Len(p) + 1)
      /\ \A n \in 1..Len(p) : q[n] = p[n]
      /\ q[Len(p) + 1] = x /\ DOMAIN p = 1..Len(p)
  OBVIOUS
<1> HIDE DEF q
<1>2. \A n \in DOMAIN q : q[n].from < q[n].to
  BY <1>1 DEF Online!Tiles
<1>3. q[1].from = Earliest
  <2>1. CASE p = <<>>
    BY <1>1, <2>1
  <2>2. CASE p # <<>>
    <3>1. 1 \in 1..Len(p)
      BY <1>1, <2>2
    <3>. QED
      BY <1>1, <2>2, <3>1 DEF Online!Tiles
  <2>. QED
    BY <2>1, <2>2
<1>4. ASSUME NEW n \in 1..(Len(q) - 1) PROVE q[n].to = q[n + 1].from
  <2>1. CASE n = Len(p)
    <3>1. p # <<>> /\ q[n] = p[Len(p)] /\ q[n + 1] = x
      BY <1>1, <1>4, <2>1
    <3>. QED
      BY <2>1, <3>1
  <2>2. CASE n # Len(p)
    <3> DEFINE k == Len(p)
    <3>3. n \in 1..((k + 1) - 1) /\ n # k /\ k \in Nat
      BY <1>1, <1>4, <2>2
    <3> HIDE DEF k
    <3>4. n \in 1..(k - 1) /\ n \in 1..k /\ n + 1 \in 1..k
      BY <3>3
    <3>1. n \in 1..(Len(p) - 1) /\ n \in 1..Len(p) /\ n + 1 \in 1..Len(p)
      BY <3>4 DEF k
    <3>2. q[n] = p[n] /\ q[n + 1] = p[n + 1]
      BY <1>1, <3>1
    <3>. QED
      BY <3>1, <3>2 DEF Online!Tiles
  <2>. QED
    BY <2>1, <2>2
<1>5. Online!Tiles(q)
  BY <1>2, <1>3, <1>4 DEF Online!Tiles
<1>. QED
  BY <1>5 DEF q

-----------------------------------------------------------------------------
(* A server was online at a time, as OnlineAt says it, for the list s and    *)
(* the times e at which its servers were taken from it.                     *)
UpAt(s, e, i, t) ==
  /\ i \in Online!Monitored(s) /\ s[i].ready <= t
  /\ t < IF e[i] = -1 THEN BeatOf(s, i) ELSE e[i]

Took(s, e, i) ==
  /\ BeatOf(s, i) # Now /\ BeatOf(s, i) - e[i] < Replaced
  /\ \E j \in DOMAIN s : j # i /\ s[j].ready = e[i]

(* A server is on the list until it is taken from it, never before its last  *)
(* heartbeat but for another one that took its place.                       *)
TakenRight(s, l, e, b) ==
  \A i \in Online!Monitored(s) :
    /\ i \in l <=> e[i] = -1
    /\ i \in l => b <= BeatOf(s, i)
    /\ i \notin l => e[i] \in 0..b /\ (e[i] = BeatOf(s, i) \/ Took(s, e, i))

ShowsRight(s, e, p) ==
  \A n \in DOMAIN p : \A t \in Nat : p[n].from <= t /\ t < p[n].to =>
    p[n].online \subseteq DOMAIN s /\ \A i \in DOMAIN s : i \in p[n].online <=> UpAt(s, e, i, t)

ReachedTo(p) == IF p = <<>> THEN Earliest ELSE p[Len(p)].to

(* The servers s of a cluster, those left on the list, when the others were  *)
(* taken from it, the time up to which the periods p are found.             *)
ClusterRight(s, l, e, b, p) ==
  /\ s \in Online!ServerLists /\ l \subseteq Online!Monitored(s) /\ DOMAIN e = DOMAIN s
  /\ b \in Earliest..Now /\ p \in Seq(Period)
  /\ TakenRight(s, l, e, b) /\ Online!Tiles(p) /\ ShowsRight(s, e, p)
  /\ \A n \in DOMAIN p : p[n].to <= ReachedTo(p)

(* None or one of the servers that were online is taken from the list, at    *)
(* its last heartbeat or for a server that is ready then.                   *)
ListAfter(s, l, e, o, end, l2, e2) ==
  \/ l2 = l /\ e2 = e
  \/ \E x \in o : /\ l2 = l \ {x} /\ e2 = [e EXCEPT ![x] = end]
                  /\ \/ end = BeatOf(s, x)
                     \/ Took(s, e2, x)

Extended(p, b, end, o) ==
  IF b = end THEN p ELSE Append(p, [from |-> b, to |-> end, online |-> o])

(* A round that ends the period at "end": no server on the list ends or      *)
(* becomes ready within it, and one that was online may be taken from it.   *)
LEMMA RoundRight ==
  ASSUME NEW s, NEW l, NEW e, NEW b, NEW p, ClusterRight(s, l, e, b, p), ReachedTo(p) = b,
         NEW end \in b..Now, NEW o, o = {i \in l : s[i].ready <= b},
         \A i \in l : IF i \in o THEN end <= BeatOf(s, i) ELSE end <= s[i].ready,
         NEW l2, NEW e2, ListAfter(s, l, e, o, end, l2, e2), NEW p2, p2 = Extended(p, b, end, o)
  PROVE  ClusterRight(s, l2, e2, end, p2) /\ ReachedTo(p2) = end
<1> DEFINE M == Online!Monitored(s)
<1>1. /\ s \in Online!ServerLists /\ l \subseteq M /\ DOMAIN e = DOMAIN s
      /\ b \in Earliest..Now /\ p \in Seq(Period)
      /\ TakenRight(s, l, e, b) /\ Online!Tiles(p) /\ ShowsRight(s, e, p)
      /\ \A n \in DOMAIN p : p[n].to <= b
  BY DEF ClusterRight
<1>2. /\ M \subseteq DOMAIN s /\ DOMAIN s \subseteq Nat
      /\ \A i \in DOMAIN s : /\ s[i].ready \in Nat /\ BeatOf(s, i) \in Nat
                             /\ s[i].ready <= BeatOf(s, i) /\ BeatOf(s, i) <= Now
  BY <1>1, ServerTimes DEF Online!Monitored
<1>3. b \in Nat /\ end \in Nat /\ b <= end /\ end <= Now /\ Now \in Nat /\ Earliest \in Nat
      /\ end \in Earliest..Now /\ o \subseteq l /\ l \subseteq DOMAIN s
  BY <1>1, <1>2, ClockAssumption
<1> HIDE DEF M
<1>4. /\ DOMAIN e2 = DOMAIN s /\ l2 \subseteq M
      /\ \A i \in M : \/ e2[i] = e[i] /\ (i \in l2 <=> i \in l)
                      \/ /\ i \in o /\ i \notin l2 /\ e2[i] = end
                         /\ (end = BeatOf(s, i) \/ Took(s, e2, i))
  BY <1>1, <1>2, <1>3 DEF ListAfter
<1>5. TakenRight(s, l2, e2, end)
  <2> SUFFICES ASSUME NEW i \in M
               PROVE  /\ i \in l2 <=> e2[i] = -1
                      /\ i \in l2 => end <= BeatOf(s, i)
                      /\ i \notin l2 => e2[i] \in 0..end /\ (e2[i] = BeatOf(s, i) \/ Took(s, e2, i))
    BY DEF TakenRight, M
  <2>1. /\ i \in l <=> e[i] = -1
        /\ i \in l => b <= BeatOf(s, i)
        /\ i \notin l => e[i] \in 0..b /\ (e[i] = BeatOf(s, i) \/ Took(s, e, i))
    BY <1>1 DEF TakenRight, M
  <2>2. CASE e2[i] = e[i] /\ (i \in l2 <=> i \in l)
    <3>1. Took(s, e, i) => Took(s, e2, i)
      BY <2>2 DEF Took
    <3>2. i \in l => end <= BeatOf(s, i)
      <4>1. i \in DOMAIN s /\ s[i].ready \in Nat /\ BeatOf(s, i) \in Nat /\ s[i].ready <= BeatOf(s, i)
        BY <1>2
      <4>2. i \in l => end <= BeatOf(s, i) \/ end <= s[i].ready
        OBVIOUS
      <4>. QED
        BY <1>3, <4>1, <4>2
    <3>3. e[i] \in 0..b => e[i] \in 0..end
      BY <1>3
    <3>. QED
      BY <2>1, <2>2, <3>1, <3>2, <3>3
  <2>3. CASE /\ i \in o /\ i \notin l2 /\ e2[i] = end
             /\ (end = BeatOf(s, i) \/ Took(s, e2, i))
    BY <1>3, <2>3
  <2>. QED
    BY <1>4, <2>2, <2>3
(* What was shown stays: a server is taken from the list at "end", no earlier. *)
<1>6. ASSUME NEW i \in DOMAIN s, NEW t \in Nat, t < end
      PROVE  UpAt(s, e2, i, t) <=> UpAt(s, e, i, t)
  <2> SUFFICES ASSUME i \in M PROVE UpAt(s, e2, i, t) <=> UpAt(s, e, i, t)
    BY DEF UpAt, M
  <2>1. CASE e2[i] = e[i]
    BY <2>1 DEF UpAt
  <2>2. CASE i \in o /\ e2[i] = end
    <3>1. e[i] = -1 /\ end # -1 /\ end <= BeatOf(s, i) /\ BeatOf(s, i) \in Nat
      BY <1>1, <1>2, <1>3, <2>2 DEF TakenRight, M
    <3>. QED
      BY <1>3, <1>6, <2>2, <3>1 DEF UpAt
  <2>. QED
    BY <1>4, <2>1, <2>2
<1>7. ASSUME NEW i \in DOMAIN s, NEW t \in Nat, b <= t, t < end
      PROVE  i \in o <=> UpAt(s, e, i, t)
  <2>1. i \in M => /\ i \in l <=> e[i] = -1
                   /\ i \notin l => e[i] \in 0..b
    BY <1>1 DEF TakenRight, M
  <2>2. s[i].ready \in Nat /\ BeatOf(s, i) \in Nat
    BY <1>2
  <2>3. CASE i \in o
    <3>1. i \in M /\ e[i] = -1 /\ s[i].ready <= b /\ end <= BeatOf(s, i)
      BY <1>1, <1>3, <2>1, <2>3
    <3>2. s[i].ready <= t /\ t < BeatOf(s, i)
      BY <1>3, <1>7, <2>2, <3>1
    <3>. QED
      BY <2>3, <3>1, <3>2 DEF UpAt, M
  <2>4. CASE i \in l /\ i \notin o
    <3>1. end <= s[i].ready
      BY <2>4
    <3>2. ~ (s[i].ready <= t)
      BY <1>3, <1>7, <2>2, <3>1
    <3>. QED
      BY <2>4, <3>2 DEF UpAt
  <2>5. CASE i \notin l
    <3>1. i \in M => e[i] # -1 /\ ~ (t < e[i])
      BY <1>3, <1>7, <2>1, <2>5
    <3>. QED
      BY <1>3, <2>5, <3>1 DEF UpAt, M
  <2>. QED
    BY <2>3, <2>4, <2>5
<1>11. \A n \in DOMAIN p : p[n].to \in Nat /\ p[n].to <= b
  <2>1. \A n \in DOMAIN p : p[n] \in Period
    BY <1>1
  <2>. QED
    BY <1>1, <2>1, ClockAssumption DEF Period
<1>8. ShowsRight(s, e2, p)
  <2> SUFFICES ASSUME NEW n \in DOMAIN p, NEW t \in Nat, p[n].from <= t, t < p[n].to
               PROVE  /\ p[n].online \subseteq DOMAIN s
                      /\ \A i \in DOMAIN s : i \in p[n].online <=> UpAt(s, e2, i, t)
    BY DEF ShowsRight
  <2>1. p[n].to \in Nat /\ p[n].to <= b
    BY <1>11
  <2>2. t < end
    BY <1>3, <2>1
  <2>. QED
    BY <1>1, <1>6, <2>2 DEF ShowsRight
<1>9. CASE b = end
  BY <1>1, <1>3, <1>4, <1>5, <1>8, <1>9 DEF ClusterRight, M, Extended
<1>10. CASE b # end
  <2>1. PICK x : x = [from |-> b, to |-> end, online |-> o]
    OBVIOUS
  <2>2. x \in Period /\ x.from = b /\ x.to = end /\ x.online = o /\ x.from < x.to /\ p2 = Append(p, x)
    BY <1>2, <1>3, <1>10, <2>1 DEF Period, Extended
  <2>3. /\ p2 \in Seq(Period) /\ p2 # <<>> /\ Len(p2) = Len(p) + 1 /\ Len(p) \in Nat
        /\ DOMAIN p2 = 1..(Len(p) + 1) /\ DOMAIN p = 1..Len(p)
        /\ \A n \in 1..Len(p) : p2[n] = p[n]
        /\ p2[Len(p) + 1] = x
    BY <1>1, <2>2
  <2>4. Online!Tiles(p2)
    <3>1. IF p = <<>> THEN x.from = Earliest ELSE p[Len(p)].to = x.from
      BY <2>2 DEF ReachedTo
    <3>2. p \in Seq(Period) /\ Online!Tiles(p) /\ x \in Period /\ x.from < x.to
      BY <1>1, <2>2
    <3>3. Online!Tiles(Append(p, x))
      BY <3>1, <3>2, TilesAppend
    <3>. QED
      BY <2>2, <3>3
  <2>5. ReachedTo(p2) = end
    BY <2>2, <2>3 DEF ReachedTo
  <2>6. \A n \in DOMAIN p2 : (n \in DOMAIN p /\ p2[n] = p[n]) \/ p2[n] = x
    BY <2>3
  <2>7. \A n \in DOMAIN p2 : p2[n].to <= end
    <3>2. \A n \in DOMAIN p : p[n].to <= end
      BY <1>3, <1>11
    <3>. QED
      BY <1>3, <2>2, <2>6, <3>2
  <2>8. ShowsRight(s, e2, p2)
    <3> SUFFICES ASSUME NEW n \in DOMAIN p2, NEW t \in Nat, p2[n].from <= t, t < p2[n].to
                 PROVE  /\ p2[n].online \subseteq DOMAIN s
                        /\ \A i \in DOMAIN s : i \in p2[n].online <=> UpAt(s, e2, i, t)
      BY DEF ShowsRight
    <3>1. CASE n \in DOMAIN p /\ p2[n] = p[n]
      BY <1>8, <3>1 DEF ShowsRight
    <3>2. CASE p2[n] = x
      <4>1. b <= t /\ t < end
        BY <2>2, <3>2
      <4>2. \A i \in DOMAIN s : (i \in o <=> UpAt(s, e, i, t)) /\ (UpAt(s, e2, i, t) <=> UpAt(s, e, i, t))
        BY <1>6, <1>7, <4>1
      <4>. QED
        BY <1>3, <2>2, <3>2, <4>2
    <3>. QED
      BY <2>6, <3>1, <3>2
  <2>9. p2 \in Seq(Period) /\ s \in Online!ServerLists /\ end \in Earliest..Now
    BY <1>1, <1>3, <2>3
  <2>10. l2 \subseteq Online!Monitored(s) /\ DOMAIN e2 = DOMAIN s
    BY <1>4 DEF M
  <2>11. \A n \in DOMAIN p2 : p2[n].to <= ReachedTo(p2)
    BY <2>5, <2>7
  <2>12. ClusterRight(s, l2, e2, end, p2)
    BY <1>5, <2>4, <2>8, <2>9, <2>10, <2>11 DEF ClusterRight
  <2>. QED
    BY <2>5, <2>12
<1>. QED
  BY <1>9, <1>10

-----------------------------------------------------------------------------
(***************************************************************************)
(* The rounds of the loop, for one cluster.                                 *)
(***************************************************************************)
ClustersRight ==
  /\ DOMAIN server = Clusters /\ DOMAIN left = Clusters /\ DOMAIN ended = Clusters
  /\ DOMAIN begin = Clusters /\ DOMAIN periods = Clusters /\ complete \subseteq Clusters
  /\ \A c \in Clusters :
       /\ ClusterRight(server[c], left[c], ended[c], begin[c], periods[c])
       /\ IF c \in complete THEN left[c] = {} /\ ReachedTo(periods[c]) = Now
          ELSE ReachedTo(periods[c]) = begin[c]

LEMMA OnlineInit ==
  ASSUME Online!Init
  PROVE  ClustersRight
<1>1. /\ server \in [Clusters -> Online!ServerLists]
      /\ left = [c \in Clusters |-> Online!Monitored(server[c])]
      /\ ended = [c \in Clusters |-> [i \in DOMAIN server[c] |-> -1]]
      /\ begin = [c \in Clusters |-> Earliest] /\ periods = [c \in Clusters |-> <<>>] /\ complete = {}
  BY DEF Online!Init, Online!NoTime
<1>2. ASSUME NEW c \in Clusters
      PROVE  ClusterRight(server[c], left[c], ended[c], begin[c], periods[c])
  <2>1. PICK s, e : s = server[c] /\ e = ended[c]
    OBVIOUS
  <2>2. /\ s \in Online!ServerLists /\ left[c] = Online!Monitored(s) /\ e = [i \in DOMAIN s |-> -1]
        /\ begin[c] = Earliest /\ periods[c] = <<>>
    BY <1>1, <2>1
  <2>3. Earliest \in Earliest..Now /\ Earliest \in Nat /\ Now \in Nat
    BY ClockAssumption
  <2>4. Online!Monitored(s) \subseteq DOMAIN s
    BY DEF Online!Monitored
  <2>5. ASSUME NEW i \in Online!Monitored(s) PROVE Earliest <= BeatOf(s, i)
    <3>1. ~ (s[i].ready < Earliest /\ BeatOf(s, i) < Earliest)
      BY DEF Online!Monitored, BeatOf
    <3>2. s[i].ready \in Nat /\ BeatOf(s, i) \in Nat /\ s[i].ready <= BeatOf(s, i)
      BY <2>2, <2>4, ServerTimes
    <3>. QED
      BY <2>3, <3>1, <3>2
  <2>6. TakenRight(s, Online!Monitored(s), e, Earliest)
    BY <2>2, <2>4, <2>5 DEF TakenRight
  <2>7. Online!Tiles(<<>>) /\ ShowsRight(s, e, <<>>)
    BY DEF Online!Tiles, ShowsRight
  <2>8. ClusterRight(s, Online!Monitored(s), e, Earliest, <<>>)
    BY <2>2, <2>3, <2>6, <2>7 DEF ClusterRight
  <2>. QED
    BY <2>1, <2>2, <2>8
<1>3. \A c \in Clusters : ReachedTo(periods[c]) = begin[c]
  BY <1>1 DEF ReachedTo
<1>. QED
  BY <1>1, <1>2, <1>3 DEF ClustersRight

LEMMA FirstEnds ==
  ASSUME NEW s \in Online!ServerLists, NEW o, o \subseteq DOMAIN s, o # {}
  PROVE  \E i \in o : \A j \in o \ {i} :
           BeatOf(s, i) < BeatOf(s, j) \/ (BeatOf(s, i) = BeatOf(s, j) /\ i < j)
<1>1. o \subseteq Nat /\ \A i \in o : BeatOf(s, i) \in Nat
  BY ServerTimes
<1> DEFINE B == {BeatOf(s, i) : i \in o}
<1>2. B \subseteq Nat /\ B # {}
  BY <1>1
<1>3. PICK b \in B : \A x \in B : b <= x
  BY <1>2, LeastExists
<1> DEFINE E == {i \in o : BeatOf(s, i) = b}
<1>4. E \subseteq Nat /\ E # {}
  BY <1>1
<1>5. PICK i \in E : \A j \in E : i <= j
  BY <1>4, LeastExists
<1>6. i \in o /\ BeatOf(s, i) = b /\ i \in Nat
  BY <1>1
<1>7. ASSUME NEW j \in o, j # i
      PROVE  BeatOf(s, i) < BeatOf(s, j) \/ (BeatOf(s, i) = BeatOf(s, j) /\ i < j)
  <2>1. b <= BeatOf(s, j) /\ BeatOf(s, j) \in Nat /\ b \in Nat /\ j \in Nat
    BY <1>1, <1>2, <1>3
  <2>2. BeatOf(s, j) = b => i <= j
    BY <1>5
  <2>. QED
    BY <1>6, <1>7, <2>1, <2>2
<1>. QED
  BY <1>6, <1>7

(* The server that EndsFirst and the time that NextReady choose.            *)
LEMMA ChosenServer ==
  ASSUME ClustersRight, NEW c \in Clusters, Online!Online(c) # {}
  PROVE  /\ Online!EndsFirst(c) \in Online!Online(c)
         /\ \A j \in Online!Online(c) :
              BeatOf(server[c], Online!EndsFirst(c)) <= BeatOf(server[c], j)
<1>1. PICK s, o : s = server[c] /\ o = Online!Online(c)
  OBVIOUS
<1>2. s \in Online!ServerLists /\ o \subseteq DOMAIN s
  BY <1>1 DEF ClustersRight, ClusterRight, Online!Online, Online!Monitored
<1>3. \A i : Online!Beat(c, i) = BeatOf(s, i)
  BY <1>1 DEF Online!Beat, BeatOf
<1> DEFINE First(i) == \A j \in o \ {i} :
             BeatOf(s, i) < BeatOf(s, j) \/ (BeatOf(s, i) = BeatOf(s, j) /\ i < j)
           f == CHOOSE i \in o : First(i)
<1>4. f \in o /\ First(f)
  BY <1>1, <1>2, FirstEnds
<1>5. Online!EndsFirst(c) = f
  BY <1>1, <1>3 DEF Online!EndsFirst
<1> HIDE DEF f
<1>6. ASSUME NEW j \in o PROVE BeatOf(s, f) <= BeatOf(s, j)
  <2>1. BeatOf(s, f) \in Nat /\ BeatOf(s, j) \in Nat
    BY <1>2, <1>4, ServerTimes
  <2>. QED
    BY <1>4, <2>1
<1>. QED
  BY <1>1, <1>4, <1>5, <1>6

LEMMA ChosenTime ==
  ASSUME ClustersRight, NEW c \in Clusters, Online!Later(c) # {}
  PROVE  /\ \A j \in Online!Later(c) : Online!NextReady(c) <= server[c][j].ready
         /\ \E k \in Online!Later(c) : Online!NextReady(c) = server[c][k].ready
<1>1. PICK s, o : s = server[c] /\ o = Online!Later(c)
  OBVIOUS
<1>2. s \in Online!ServerLists /\ o \subseteq DOMAIN s
  BY <1>1 DEF ClustersRight, ClusterRight, Online!Later, Online!Monitored
<1>3. o \subseteq Nat
  BY <1>2, ServerTimes
<1> DEFINE k == CHOOSE i \in o : \A j \in o : i <= j
<1>4. k \in o /\ \A j \in o : k <= j
  BY <1>1, <1>3, LeastExists
<1>5. Online!NextReady(c) = s[k].ready
  BY <1>1 DEF Online!NextReady, Online!Ready
<1> HIDE DEF k
<1>6. ASSUME NEW j \in o PROVE s[k].ready <= s[j].ready
  BY <1>2, <1>4, ReadyOrdered
<1>. QED
  BY <1>1, <1>4, <1>5, <1>6

(* What a round does to the lists and the periods of its cluster.           *)
LEMMA ClusterStep ==
  ASSUME ClustersRight, NEW c \in Clusters, c \notin complete, NEW end \in begin[c]..Now,
         \A i \in left[c] : IF i \in Online!Online(c) THEN end <= BeatOf(server[c], i)
                            ELSE end <= server[c][i].ready,
         Online!Period(c, end),
         \/ UNCHANGED <<left, ended>>
         \/ \E x \in Online!Online(c) :
              /\ Online!Gone(c, x, end)
              /\ \/ end = BeatOf(server[c], x)
                 \/ /\ BeatOf(server[c], x) # Now /\ BeatOf(server[c], x) - end < Replaced
                    /\ \E j \in DOMAIN server[c] : j # x /\ server[c][j].ready = end
  PROVE  /\ DOMAIN left' = Clusters /\ DOMAIN ended' = Clusters /\ DOMAIN periods' = Clusters
         /\ \A d \in Clusters \ {c} :
              left'[d] = left[d] /\ ended'[d] = ended[d] /\ periods'[d] = periods[d]
         /\ ClusterRight(server[c], left'[c], ended'[c], end, periods'[c])
         /\ ReachedTo(periods'[c]) = end
<1>1. PICK s, l, e, b, p : s = server[c] /\ l = left[c] /\ e = ended[c] /\ b = begin[c] /\ p = periods[c]
  OBVIOUS
<1>2. PICK o : o = Online!Online(c)
  OBVIOUS
<1>3. /\ DOMAIN left = Clusters /\ DOMAIN ended = Clusters /\ DOMAIN periods = Clusters
      /\ ClusterRight(s, l, e, b, p) /\ ReachedTo(p) = b
  BY <1>1 DEF ClustersRight
<1>4. o = {i \in l : s[i].ready <= b}
  BY <1>1, <1>2 DEF Online!Online, Online!Ready
<1>5. \A i \in l : IF i \in o THEN end <= BeatOf(s, i) ELSE end <= s[i].ready
  BY <1>1, <1>2
<1>6. o \subseteq DOMAIN e
  BY <1>3, <1>4 DEF ClusterRight, Online!Monitored
<1>7. PICK l2, e2, p2 : l2 = left'[c] /\ e2 = ended'[c] /\ p2 = periods'[c]
  OBVIOUS
<1>8. /\ DOMAIN periods' = Clusters /\ \A d \in Clusters \ {c} : periods'[d] = periods[d]
      /\ p2 = Extended(p, b, end, o)
  BY <1>1, <1>2, <1>3, <1>7 DEF Online!Period, Extended
<1>9. /\ DOMAIN left' = Clusters /\ DOMAIN ended' = Clusters
      /\ \A d \in Clusters \ {c} : left'[d] = left[d] /\ ended'[d] = ended[d]
      /\ ListAfter(s, l, e, o, end, l2, e2)
  <2>1. CASE UNCHANGED <<left, ended>>
    BY <1>1, <1>3, <1>7, <2>1 DEF ListAfter
  <2>2. ASSUME NEW x \in o, Online!Gone(c, x, end),
               \/ end = BeatOf(s, x)
               \/ /\ BeatOf(s, x) # Now /\ BeatOf(s, x) - end < Replaced
                  /\ \E j \in DOMAIN s : j # x /\ s[j].ready = end
        PROVE  /\ DOMAIN left' = Clusters /\ DOMAIN ended' = Clusters
               /\ \A d \in Clusters \ {c} : left'[d] = left[d] /\ ended'[d] = ended[d]
               /\ ListAfter(s, l, e, o, end, l2, e2)
    <3>1. /\ DOMAIN left' = Clusters /\ DOMAIN ended' = Clusters
          /\ \A d \in Clusters \ {c} : left'[d] = left[d] /\ ended'[d] = ended[d]
          /\ l2 = l \ {x} /\ e2 = [e EXCEPT ![x] = end]
      BY <1>1, <1>3, <1>7, <2>2 DEF Online!Gone
    <3>2. e2[x] = end
      BY <1>6, <3>1
    <3>3. end = BeatOf(s, x) \/ Took(s, e2, x)
      BY <2>2, <3>2 DEF Took
    <3>4. ListAfter(s, l, e, o, end, l2, e2)
      BY <3>1, <3>3 DEF ListAfter
    <3>. QED
      BY <3>1, <3>4
  <2>. QED
    BY <1>1, <1>2, <2>1, <2>2
<1>10. ClusterRight(s, l2, e2, end, p2) /\ ReachedTo(p2) = end
  <2>1. end \in b..Now
    BY <1>1
  <2>. QED
    BY <1>3, <1>4, <1>5, <1>8, <1>9, <2>1, RoundRight
<1>. QED
  BY <1>1, <1>7, <1>8, <1>9, <1>10

LEMMA RoundKeeps ==
  ASSUME ClustersRight, NEW c \in Clusters, c \notin complete, NEW end,
         UNCHANGED <<server, complete>>, begin' = [begin EXCEPT ![c] = end],
         /\ DOMAIN left' = Clusters /\ DOMAIN ended' = Clusters /\ DOMAIN periods' = Clusters
         /\ \A d \in Clusters \ {c} :
              left'[d] = left[d] /\ ended'[d] = ended[d] /\ periods'[d] = periods[d]
         /\ ClusterRight(server[c], left'[c], ended'[c], end, periods'[c])
         /\ ReachedTo(periods'[c]) = end
  PROVE  ClustersRight'
<1>1. DOMAIN begin' = Clusters /\ begin'[c] = end /\ \A d \in Clusters \ {c} : begin'[d] = begin[d]
  BY DEF ClustersRight
<1>2. ASSUME NEW d \in Clusters
      PROVE  /\ ClusterRight(server[d], left'[d], ended'[d], begin'[d], periods'[d])
             /\ IF d \in complete THEN left'[d] = {} /\ ReachedTo(periods'[d]) = Now
                ELSE ReachedTo(periods'[d]) = begin'[d]
  <2>1. CASE d = c
    BY <1>1, <2>1
  <2>2. CASE d # c
    BY <1>1, <2>2 DEF ClustersRight
  <2>. QED
    BY <2>1, <2>2
<1>. QED
  BY <1>1, <1>2 DEF ClustersRight

LEMMA OfflineRight ==
  ASSUME ClustersRight, NEW c \in Clusters, c \notin complete, Online!Offline(c)
  PROVE  ClustersRight'
<1>1. PICK end : end = Online!NextReady(c)
  OBVIOUS
<1>2. /\ Online!Online(c) = {} /\ Online!Later(c) # {} /\ Online!Period(c, end)
      /\ begin' = [begin EXCEPT ![c] = end] /\ UNCHANGED <<server, left, ended, complete>>
  BY <1>1 DEF Online!Offline
<1>3. /\ \A j \in Online!Later(c) : end <= server[c][j].ready
      /\ \E k \in Online!Later(c) : end = server[c][k].ready
  BY <1>1, <1>2, ChosenTime
<1>4. Online!Later(c) = left[c]
  BY <1>2 DEF Online!Later
<1>5. end \in begin[c]..Now
  <2>1. PICK k \in left[c] : end = server[c][k].ready
    BY <1>3, <1>4
  <2>2. ~ (server[c][k].ready <= begin[c])
    BY <1>2 DEF Online!Online, Online!Ready
  <2>3. server[c] \in Online!ServerLists /\ k \in DOMAIN server[c] /\ begin[c] \in Earliest..Now
    BY DEF ClustersRight, ClusterRight, Online!Monitored
  <2>4. server[c][k].ready \in Nat /\ BeatOf(server[c], k) \in Nat
        /\ server[c][k].ready <= BeatOf(server[c], k) /\ BeatOf(server[c], k) <= Now
    BY <2>3, ServerTimes
  <2>. QED
    BY <2>1, <2>2, <2>3, <2>4, ClockAssumption
<1>6. \A i \in left[c] : IF i \in Online!Online(c) THEN end <= BeatOf(server[c], i)
                         ELSE end <= server[c][i].ready
  BY <1>2, <1>3, <1>4
<1>7. UNCHANGED <<left, ended>>
  BY <1>2
<1>. QED
  BY <1>2, <1>5, <1>6, <1>7, ClusterStep, RoundKeeps

LEMMA OnlineTimes ==
  ASSUME ClustersRight, NEW c \in Clusters
  PROVE  /\ server[c] \in Online!ServerLists /\ begin[c] \in Nat /\ begin[c] <= Now
         /\ left[c] \subseteq DOMAIN server[c]
         /\ Online!Online(c) \cup Online!Later(c) = left[c] /\ Online!Online(c) \cap Online!Later(c) = {}
         /\ \A i \in Online!Later(c) : ~ (server[c][i].ready <= begin[c])
         /\ \A i \in Online!Online(c) : server[c][i].ready <= begin[c]
         /\ \A i \in left[c] : /\ server[c][i].ready \in Nat /\ BeatOf(server[c], i) \in Nat
                               /\ BeatOf(server[c], i) <= Now /\ begin[c] <= BeatOf(server[c], i)
                               /\ server[c][i].ready <= BeatOf(server[c], i)
<1>1. ClusterRight(server[c], left[c], ended[c], begin[c], periods[c])
  BY DEF ClustersRight
<1>2. /\ server[c] \in Online!ServerLists /\ left[c] \subseteq Online!Monitored(server[c])
      /\ begin[c] \in Earliest..Now /\ TakenRight(server[c], left[c], ended[c], begin[c])
  BY <1>1 DEF ClusterRight
<1>3. Online!Monitored(server[c]) \subseteq DOMAIN server[c]
  BY DEF Online!Monitored
<1>4. \A i \in left[c] : begin[c] <= BeatOf(server[c], i)
  BY <1>2 DEF TakenRight
<1>5. Online!Online(c) = {i \in left[c] : server[c][i].ready <= begin[c]}
  BY DEF Online!Online, Online!Ready
<1>6. Online!Later(c) = left[c] \ Online!Online(c)
  BY DEF Online!Later
<1>7. \A i \in left[c] : /\ server[c][i].ready \in Nat /\ BeatOf(server[c], i) \in Nat
                         /\ BeatOf(server[c], i) <= Now /\ server[c][i].ready <= BeatOf(server[c], i)
  BY <1>2, <1>3, ServerTimes
<1>8. begin[c] \in Nat /\ begin[c] <= Now
  BY <1>2, ClockAssumption
<1>. QED
  BY <1>2, <1>3, <1>4, <1>5, <1>6, <1>7, <1>8

LEMMA EndsRight ==
  ASSUME ClustersRight, NEW c \in Clusters, c \notin complete, Online!Ends(c)
  PROVE  ClustersRight'
<1>1. PICK f, end : f = Online!EndsFirst(c) /\ end = BeatOf(server[c], f)
  OBVIOUS
<1>2. \A i : Online!Beat(c, i) = BeatOf(server[c], i)
  BY DEF Online!Beat, BeatOf
<1>3. /\ Online!Online(c) # {} /\ Online!Period(c, end) /\ Online!Gone(c, f, end)
      /\ Online!Later(c) # {} => end < Online!NextReady(c)
      /\ begin' = [begin EXCEPT ![c] = end] /\ UNCHANGED <<server, complete>>
  BY <1>1, <1>2 DEF Online!Ends
<1>4. f \in Online!Online(c) /\ \A j \in Online!Online(c) : end <= BeatOf(server[c], j)
  BY <1>1, <1>3, ChosenServer
<1>5. f \in left[c]
  BY <1>4, OnlineTimes
<1>6. end \in begin[c]..Now
  BY <1>1, <1>5, OnlineTimes, ClockAssumption
<1>7. ASSUME NEW i \in left[c]
      PROVE  IF i \in Online!Online(c) THEN end <= BeatOf(server[c], i)
             ELSE end <= server[c][i].ready
  <2>1. CASE i \in Online!Online(c)
    BY <1>4, <2>1
  <2>2. CASE i \notin Online!Online(c)
    <3>1. i \in Online!Later(c)
      BY <2>2, OnlineTimes
    <3>2. /\ Online!NextReady(c) <= server[c][i].ready
          /\ \E k \in Online!Later(c) : Online!NextReady(c) = server[c][k].ready
      BY <3>1, ChosenTime
    <3>3. Online!NextReady(c) \in Nat /\ server[c][i].ready \in Nat /\ end \in Nat
      BY <1>1, <1>5, <3>2, OnlineTimes
    <3>4. end < Online!NextReady(c)
      BY <1>3, <3>1
    <3>5. end <= server[c][i].ready
      BY <3>2, <3>3, <3>4
    <3>. QED
      BY <2>2, <3>5
  <2>. QED
    BY <2>1, <2>2
<1>8. \E x \in Online!Online(c) :
        /\ Online!Gone(c, x, end)
        /\ \/ end = BeatOf(server[c], x)
           \/ /\ BeatOf(server[c], x) # Now /\ BeatOf(server[c], x) - end < Replaced
              /\ \E j \in DOMAIN server[c] : j # x /\ server[c][j].ready = end
  BY <1>1, <1>3, <1>4
<1>. QED
  BY <1>3, <1>6, <1>7, <1>8, ClusterStep, RoundKeeps

LEMMA StartsRight ==
  ASSUME ClustersRight, NEW c \in Clusters, c \notin complete, Online!Starts(c)
  PROVE  ClustersRight'
<1>1. PICK f, end : f = Online!EndsFirst(c) /\ end = Online!NextReady(c)
  OBVIOUS
<1>2. \A i : Online!Beat(c, i) = BeatOf(server[c], i)
  BY DEF Online!Beat, BeatOf
<1>3. /\ Online!Online(c) # {} /\ Online!Later(c) # {} /\ end <= BeatOf(server[c], f)
      /\ Online!Period(c, end)
      /\ IF BeatOf(server[c], f) # Now /\ BeatOf(server[c], f) - end < Replaced
           THEN Online!Gone(c, f, end) ELSE UNCHANGED <<left, ended>>
      /\ begin' = [begin EXCEPT ![c] = end] /\ UNCHANGED <<server, complete>>
  BY <1>1, <1>2 DEF Online!Starts
<1>4. f \in Online!Online(c) /\ \A j \in Online!Online(c) : BeatOf(server[c], f) <= BeatOf(server[c], j)
  BY <1>1, <1>3, ChosenServer
<1>5. \A j \in Online!Later(c) : end <= server[c][j].ready
  BY <1>1, <1>3, ChosenTime
<1>6. PICK k \in Online!Later(c) : end = server[c][k].ready
  BY <1>1, <1>3, ChosenTime
<1>7. f \in left[c] /\ k \in left[c] /\ k # f /\ k \in DOMAIN server[c]
  BY <1>4, OnlineTimes
<1>8. end \in Nat /\ begin[c] <= end /\ end <= Now /\ begin[c] \in Nat
  <2>1. ~ (end <= begin[c]) /\ end \in Nat /\ begin[c] \in Nat
    BY <1>6, <1>7, OnlineTimes
  <2>2. end <= BeatOf(server[c], k) /\ BeatOf(server[c], k) <= Now /\ BeatOf(server[c], k) \in Nat
    BY <1>6, <1>7, OnlineTimes
  <2>. QED
    BY <2>1, <2>2, ClockAssumption
<1>9. end \in begin[c]..Now
  BY <1>8, ClockAssumption
<1>10. ASSUME NEW i \in left[c]
       PROVE  IF i \in Online!Online(c) THEN end <= BeatOf(server[c], i)
              ELSE end <= server[c][i].ready
  <2>1. CASE i \in Online!Online(c)
    <3>1. BeatOf(server[c], f) <= BeatOf(server[c], i)
      BY <1>4, <2>1
    <3>2. BeatOf(server[c], f) \in Nat /\ BeatOf(server[c], i) \in Nat
      BY <1>7, OnlineTimes
    <3>3. end <= BeatOf(server[c], i)
      BY <1>3, <1>8, <3>1, <3>2
    <3>. QED
      BY <2>1, <3>3
  <2>2. CASE i \notin Online!Online(c)
    <3>1. i \in Online!Later(c)
      BY <2>2, OnlineTimes
    <3>. QED
      BY <1>5, <2>2, <3>1
  <2>. QED
    BY <2>1, <2>2
<1>11. \/ UNCHANGED <<left, ended>>
       \/ \E x \in Online!Online(c) :
            /\ Online!Gone(c, x, end)
            /\ \/ end = BeatOf(server[c], x)
               \/ /\ BeatOf(server[c], x) # Now /\ BeatOf(server[c], x) - end < Replaced
                  /\ \E j \in DOMAIN server[c] : j # x /\ server[c][j].ready = end
  BY <1>3, <1>4, <1>6, <1>7
<1>. QED
  BY <1>3, <1>9, <1>10, <1>11, ClusterStep, RoundKeeps

(* The last round: the time up to now is added, and "begin" stays behind.   *)
LEMMA FinishRight ==
  ASSUME ClustersRight, NEW c \in Clusters, c \notin complete, Online!Finish(c)
  PROVE  ClustersRight'
<1>1. /\ left[c] = {} /\ IF begin[c] < Now THEN Online!Period(c, Now) ELSE UNCHANGED periods
      /\ complete' = complete \cup {c} /\ UNCHANGED <<server, left, ended, begin>>
  BY DEF Online!Finish
<1>2. /\ ClusterRight(server[c], left[c], ended[c], begin[c], periods[c])
      /\ ReachedTo(periods[c]) = begin[c] /\ DOMAIN periods = Clusters
  BY DEF ClustersRight
<1>3. /\ DOMAIN periods' = Clusters /\ \A d \in Clusters \ {c} : periods'[d] = periods[d]
      /\ ClusterRight(server[c], left[c], ended[c], begin[c], periods'[c])
      /\ ReachedTo(periods'[c]) = Now
  <2>1. CASE begin[c] < Now
    <3>1. Now \in begin[c]..Now
      BY <2>1, OnlineTimes, ClockAssumption
    <3>2. \A i \in left[c] : IF i \in Online!Online(c) THEN Now <= BeatOf(server[c], i)
                             ELSE Now <= server[c][i].ready
      BY <1>1
    <3>3. UNCHANGED <<left, ended>> /\ Online!Period(c, Now)
      BY <1>1, <2>1
    <3>4. /\ DOMAIN periods' = Clusters /\ \A d \in Clusters \ {c} : periods'[d] = periods[d]
          /\ ClusterRight(server[c], left'[c], ended'[c], Now, periods'[c])
          /\ ReachedTo(periods'[c]) = Now
      BY <3>1, <3>2, <3>3, ClusterStep
    <3>5. left' = left /\ ended' = ended
      BY <1>1
    <3>6. ClusterRight(server[c], left[c], ended[c], begin[c], periods'[c])
      BY <1>2, <3>4, <3>5 DEF ClusterRight
    <3>. QED
      BY <3>4, <3>6
  <2>2. CASE ~ (begin[c] < Now)
    <3>1. begin[c] = Now
      BY <2>2, OnlineTimes, ClockAssumption
    <3>. QED
      BY <1>1, <1>2, <2>2, <3>1
  <2>. QED
    BY <2>1, <2>2
<1>4. ASSUME NEW d \in Clusters
      PROVE  /\ ClusterRight(server[d], left[d], ended[d], begin[d], periods'[d])
             /\ IF d \in complete' THEN left[d] = {} /\ ReachedTo(periods'[d]) = Now
                ELSE ReachedTo(periods'[d]) = begin[d]
  <2>1. CASE d = c
    BY <1>1, <1>3, <2>1
  <2>2. CASE d # c
    BY <1>1, <1>3, <2>2 DEF ClustersRight
  <2>. QED
    BY <2>1, <2>2
<1>. QED
  BY <1>1, <1>3, <1>4 DEF ClustersRight

-----------------------------------------------------------------------------
(***************************************************************************)
(* The merge of the clusters' periods.                                      *)
(***************************************************************************)
Merged == [from : Nat, to : 0..Now, online : SUBSET (Clusters \X (1..MaxServers))]

UpIn(t) ==
  {s \in Clusters \X (1..MaxServers) :
     s[2] \in DOMAIN server[s[1]] /\ UpAt(server[s[1]], ended[s[1]], s[2], t)}

(* Up to now, the merge is within the current period of each cluster.       *)
InStep(c) ==
  IF Online!MergeFrom < Now
  THEN /\ indexlist[c] \in DOMAIN periods[c]
       /\ Online!Current(c).from <= Online!MergeFrom /\ Online!MergeFrom < Online!Current(c).to
  ELSE indexlist[c] = Len(periods[c]) + 1

MergeRight ==
  /\ merged \in Seq(Merged) /\ Online!Tiles(merged) /\ DOMAIN indexlist = Clusters
  /\ Online!MergeFrom \in Earliest..Now
  /\ IF complete = Clusters THEN \A c \in Clusters : InStep(c)
     ELSE merged = <<>> /\ \A c \in Clusters : indexlist[c] = 1
  /\ \A n \in DOMAIN merged : \A t \in Nat :
       merged[n].from <= t /\ t < merged[n].to => merged[n].online = UpIn(t)

OnlineInv == which = "online" => ClustersRight /\ MergeRight

(* The periods of a cluster whose list is empty.                            *)
LEMMA WholePeriods ==
  ASSUME NEW s, NEW l, NEW e, NEW b, NEW p, ClusterRight(s, l, e, b, p), ReachedTo(p) = Now
  PROVE  /\ p # <<>> /\ Len(p) \in Nat /\ DOMAIN p = 1..Len(p) /\ 1 \in DOMAIN p /\ p[1].from = Earliest
         /\ \A n \in DOMAIN p :
              /\ p[n].from \in Nat /\ p[n].to \in Nat /\ p[n].from < p[n].to /\ p[n].to <= Now
              /\ p[n].to = Now => n = Len(p)
              /\ p[n].to # Now => n + 1 \in DOMAIN p /\ p[n + 1].from = p[n].to
<1>1. /\ p \in Seq(Period) /\ Online!Tiles(p) /\ \A n \in DOMAIN p : p[n].to <= Now
  BY DEF ClusterRight
<1>2. p # <<>> /\ p[Len(p)].to = Now
  BY ClockAssumption DEF ReachedTo
<1>3. Len(p) \in Nat /\ DOMAIN p = 1..Len(p) /\ \A n \in DOMAIN p : p[n] \in Period
  BY <1>1
<1>4. Len(p) # 0
  BY <1>1, <1>2
<1>5. 1 \in DOMAIN p /\ p[1].from = Earliest
  BY <1>1, <1>2, <1>3, <1>4 DEF Online!Tiles
<1>6. ASSUME NEW n \in DOMAIN p
      PROVE  p[n].from \in Nat /\ p[n].to \in Nat /\ p[n].from < p[n].to /\ p[n].to <= Now
  BY <1>1, <1>3, ClockAssumption DEF Online!Tiles, Period
<1>7. ASSUME NEW n \in DOMAIN p, n # Len(p)
      PROVE  n + 1 \in DOMAIN p /\ p[n + 1].from = p[n].to
  <2> DEFINE k == Len(p)
  <2>1. k \in Nat /\ n \in 1..k /\ n # k
    BY <1>3, <1>7
  <2> HIDE DEF k
  <2>2. n \in 1..(k - 1) /\ n + 1 \in 1..k
    BY <2>1
  <2>. QED
    BY <1>1, <1>3, <2>2 DEF Online!Tiles, k
<1>8. ASSUME NEW n \in DOMAIN p, p[n].to = Now PROVE n = Len(p)
  <2> SUFFICES ASSUME n # Len(p) PROVE FALSE
    OBVIOUS
  <2>1. n + 1 \in DOMAIN p /\ p[n + 1].from = Now
    BY <1>7, <1>8
  <2>2. p[n + 1].from < p[n + 1].to /\ p[n + 1].to <= Now /\ p[n + 1].to \in Nat
    BY <1>6, <2>1
  <2>. QED
    BY <2>1, <2>2, ClockAssumption
<1>. QED
  BY <1>2, <1>3, <1>5, <1>6, <1>7, <1>8

LEMMA MergeInit ==
  ASSUME Online!Init
  PROVE  MergeRight
<1>1. complete = {} /\ indexlist = [c \in Clusters |-> 1] /\ merged = <<>>
  BY DEF Online!Init
<1>2. complete # Clusters
  BY <1>1, ClockAssumption
<1>3. Online!MergeFrom = Earliest /\ Earliest \in Earliest..Now
  BY <1>1, ClockAssumption DEF Online!MergeFrom
<1>4. Online!Tiles(<<>>) /\ <<>> \in Seq(Merged)
  BY DEF Online!Tiles
<1>. QED
  BY <1>1, <1>2, <1>3, <1>4 DEF MergeRight

LEMMA PopulateKeepsMerge ==
  ASSUME ClustersRight, MergeRight, ClustersRight', complete # Clusters,
         UNCHANGED <<indexlist, merged>>
  PROVE  MergeRight'
<1>1. merged = <<>> /\ (\A c \in Clusters : indexlist[c] = 1) /\ DOMAIN indexlist = Clusters
  BY DEF MergeRight
<1>2. Online!MergeFrom' = Earliest /\ Earliest \in Earliest..Now /\ Earliest < Now
  BY <1>1, ClockAssumption DEF Online!MergeFrom
<1>3. ASSUME complete' = Clusters, NEW c \in Clusters PROVE InStep(c)'
  <2>1. ClusterRight(server'[c], left'[c], ended'[c], begin'[c], periods'[c])
        /\ ReachedTo(periods'[c]) = Now
    BY <1>3 DEF ClustersRight
  <2>2. /\ 1 \in DOMAIN periods'[c] /\ periods'[c][1].from = Earliest
        /\ periods'[c][1].from < periods'[c][1].to
    BY <2>1, WholePeriods
  <2>3. Earliest <= Earliest
    BY ClockAssumption
  <2>4. indexlist'[c] = 1
    BY <1>1
  <2>. QED
    BY <1>2, <2>2, <2>3, <2>4 DEF InStep, Online!Current
<1>4. Online!Tiles(merged') /\ merged' \in Seq(Merged) /\ DOMAIN merged' = {}
  BY <1>1 DEF Online!Tiles
<1>. QED
  BY <1>1, <1>2, <1>3, <1>4 DEF MergeRight

LEMMA MergeStep ==
  ASSUME ClustersRight, MergeRight, Online!Merge
  PROVE  MergeRight'
<1>1. /\ complete = Clusters /\ \E c \in Clusters : indexlist[c] <= Len(periods[c])
      /\ UNCHANGED <<server, left, ended, begin, periods, complete>>
  BY DEF Online!Merge
<1>2. PICK m : m = Online!MergeFrom
  OBVIOUS
<1>3. /\ merged \in Seq(Merged) /\ Online!Tiles(merged) /\ DOMAIN indexlist = Clusters
      /\ m \in Earliest..Now /\ \A c \in Clusters : InStep(c)
      /\ \A n \in DOMAIN merged : \A t \in Nat :
           merged[n].from <= t /\ t < merged[n].to => merged[n].online = UpIn(t)
  BY <1>1, <1>2 DEF MergeRight
<1>4. m \in Nat /\ Now \in Nat
  BY <1>3, ClockAssumption
<1>5. ASSUME NEW c \in Clusters
      PROVE  /\ periods[c] # <<>> /\ Len(periods[c]) \in Nat /\ DOMAIN periods[c] = 1..Len(periods[c])
             /\ \A n \in DOMAIN periods[c] :
                  /\ periods[c][n].from \in Nat /\ periods[c][n].to \in Nat
                  /\ periods[c][n].from < periods[c][n].to /\ periods[c][n].to <= Now
                  /\ periods[c][n].to = Now => n = Len(periods[c])
                  /\ periods[c][n].to # Now =>
                       n + 1 \in DOMAIN periods[c] /\ periods[c][n + 1].from = periods[c][n].to
             /\ ShowsRight(server[c], ended[c], periods[c])
             /\ server[c] \in Online!ServerLists
  <2>1. ClusterRight(server[c], left[c], ended[c], begin[c], periods[c]) /\ ReachedTo(periods[c]) = Now
    BY <1>1 DEF ClustersRight
  <2>2. ShowsRight(server[c], ended[c], periods[c]) /\ server[c] \in Online!ServerLists
    BY <2>1 DEF ClusterRight
  <2>. QED
    BY <2>1, <2>2, WholePeriods
<1>6. m < Now
  <2>1. PICK c \in Clusters : indexlist[c] <= Len(periods[c])
    BY <1>1
  <2>2. Len(periods[c]) \in Nat
    BY <1>5
  <2>3. indexlist[c] # Len(periods[c]) + 1
    BY <2>1, <2>2
  <2>. QED
    BY <1>2, <1>3, <2>3 DEF InStep
<1>7. ASSUME NEW c \in Clusters
      PROVE  /\ indexlist[c] \in DOMAIN periods[c] /\ indexlist[c] \in Nat
             /\ Online!Current(c) = periods[c][indexlist[c]]
             /\ Online!Current(c).from \in Nat /\ Online!Current(c).to \in Nat
             /\ Online!Current(c).from <= m /\ m < Online!Current(c).to /\ Online!Current(c).to <= Now
  <2>1. /\ indexlist[c] \in DOMAIN periods[c] /\ Online!Current(c) = periods[c][indexlist[c]]
        /\ Online!Current(c).from <= m /\ m < Online!Current(c).to
    BY <1>2, <1>3, <1>6 DEF InStep, Online!Current
  <2>. QED
    BY <1>5, <2>1
<1> DEFINE T == {Online!Current(c).to : c \in Clusters}
<1>8. PICK to : to = CHOOSE t \in T : \A c \in Clusters : t <= Online!Current(c).to
  OBVIOUS
<1>9. to \in T /\ \A c \in Clusters : to <= Online!Current(c).to
  <2>1. T \subseteq Nat /\ T # {}
    BY <1>7, ClockAssumption
  <2>2. \E t \in T : \A k \in T : t <= k
    BY <2>1, LeastExists
  <2>3. \E t \in T : \A c \in Clusters : t <= Online!Current(c).to
    BY <2>2
  <2> HIDE DEF T
  <2>. QED
    BY <1>8, <2>3
<1>10. to \in Nat /\ m < to /\ to <= Now
  BY <1>7, <1>9
<1> DEFINE X == {s \in Clusters \X (1..MaxServers) : s[2] \in Online!Current(s[1]).online}
<1>11. PICK x : x = [from |-> m, to |-> to, online |-> X]
  OBVIOUS
<1>12. /\ merged' = Append(merged, x)
       /\ indexlist' = [c \in Clusters |-> IF Online!Current(c).to = to THEN indexlist[c] + 1
                                           ELSE indexlist[c]]
  <2> DEFINE at == {c \in Clusters : Online!Current(c).from <= Online!MergeFrom}
             least == CHOOSE t \in {Online!Current(c).to : c \in at} :
                        \A c \in at : t <= Online!Current(c).to
  <2>1. /\ merged' = Append(merged, [from |-> Online!MergeFrom, to |-> least,
                                     online |-> {s \in at \X (1..MaxServers) :
                                                   s[2] \in Online!Current(s[1]).online}])
        /\ indexlist' = [c \in Clusters |-> IF c \in at /\ Online!Current(c).to = least
                                            THEN indexlist[c] + 1 ELSE indexlist[c]]
    BY DEF Online!Merge
  <2>2. at = Clusters
    BY <1>2, <1>7
  <2> HIDE DEF at
  <2>3. least = to
    BY <1>8, <2>2
  <2> HIDE DEF least
  <2>. QED
    BY <1>2, <1>11, <2>1, <2>2, <2>3
<1> HIDE DEF T, X
<1>13. /\ x \in Merged /\ x.from = m /\ x.to = to /\ x.online = X /\ x.from < x.to
  <2>1. X \in SUBSET (Clusters \X (1..MaxServers)) /\ to \in 0..Now
    BY <1>4, <1>10 DEF X
  <2>. QED
    BY <1>4, <1>10, <1>11, <2>1 DEF Merged
<1>14. /\ merged' \in Seq(Merged) /\ merged' # <<>> /\ merged'[Len(merged')] = x
       /\ \A n \in DOMAIN merged' : (n \in DOMAIN merged /\ merged'[n] = merged[n]) \/ merged'[n] = x
  <2>1. /\ merged' \in Seq(Merged) /\ Len(merged') = Len(merged) + 1 /\ Len(merged) \in Nat
        /\ DOMAIN merged' = 1..(Len(merged) + 1) /\ DOMAIN merged = 1..Len(merged)
        /\ \A n \in 1..Len(merged) : merged'[n] = merged[n]
        /\ merged'[Len(merged) + 1] = x
    BY <1>3, <1>12, <1>13
  <2>2. merged' # <<>>
    BY <2>1
  <2>. QED
    BY <2>1, <2>2
<1>15. Online!Tiles(merged')
  <2>1. IF merged = <<>> THEN x.from = Earliest ELSE merged[Len(merged)].to = x.from
    BY <1>2, <1>13 DEF Online!MergeFrom
  <2>2. merged \in Seq(Merged) /\ Online!Tiles(merged) /\ x \in Merged /\ x.from < x.to
    BY <1>3, <1>13
  <2>3. Online!Tiles(Append(merged, x))
    BY <2>1, <2>2, TilesAppend
  <2>. QED
    BY <1>12, <2>3
<1>16. Online!MergeFrom' = to
  BY <1>13, <1>14 DEF Online!MergeFrom
<1>17. ASSUME NEW c \in Clusters PROVE InStep(c)'
  <2>1. PICK p, n, k : p = periods[c] /\ n = indexlist[c] /\ k = Len(p)
    OBVIOUS
  <2>2. periods' = periods /\ indexlist'[c] = IF p[n].to = to THEN n + 1 ELSE n
    BY <1>1, <1>7, <1>12, <2>1
  <2>3. /\ n \in DOMAIN p /\ n \in Nat /\ p[n].from \in Nat /\ p[n].to \in Nat
        /\ p[n].from <= m /\ m < p[n].to /\ p[n].to <= Now /\ to <= p[n].to
        /\ p[n].to = Now => n = k
        /\ p[n].to # Now => n + 1 \in DOMAIN p /\ p[n + 1].from = p[n].to
    BY <1>5, <1>7, <1>9, <2>1
  <2>4. CASE to = Now
    <3>1. p[n].to = to /\ n = k
      BY <1>4, <1>10, <2>3, <2>4
    <3>2. indexlist'[c] = Len(periods'[c]) + 1
      BY <2>1, <2>2, <3>1
    <3>. QED
      BY <1>4, <1>16, <2>4, <3>2 DEF InStep
  <2>5. CASE to # Now /\ p[n].to = to
    <3>1. to < Now
      BY <1>4, <1>10, <2>5
    <3>2. n + 1 \in DOMAIN p /\ p[n + 1].from = to
      BY <2>3, <2>5
    <3>3. p[n + 1].from < p[n + 1].to
      BY <1>5, <2>1, <3>2
    <3>4. Online!Current(c)' = p[n + 1] /\ indexlist'[c] = n + 1 /\ periods'[c] = p
      BY <2>1, <2>2, <2>5 DEF Online!Current
    <3>. QED
      BY <1>10, <1>16, <3>1, <3>2, <3>3, <3>4 DEF InStep
  <2>6. CASE to # Now /\ p[n].to # to
    <3>1. to < Now /\ to < p[n].to /\ p[n].from <= to
      BY <1>4, <1>10, <2>3, <2>6
    <3>2. Online!Current(c)' = p[n] /\ indexlist'[c] = n /\ periods'[c] = p
      BY <2>1, <2>2, <2>6 DEF Online!Current
    <3>. QED
      BY <1>16, <2>3, <3>1, <3>2 DEF InStep
  <2>. QED
    BY <2>4, <2>5, <2>6
<1>18. ASSUME NEW t \in Nat, m <= t, t < to PROVE X = UpIn(t)
  <2>1. ASSUME NEW c \in Clusters, NEW i \in 1..MaxServers
        PROVE  i \in Online!Current(c).online <=>
                 i \in DOMAIN server[c] /\ UpAt(server[c], ended[c], i, t)
    <3>1. /\ indexlist[c] \in DOMAIN periods[c] /\ Online!Current(c) = periods[c][indexlist[c]]
          /\ Online!Current(c).from <= t /\ t < Online!Current(c).to
      BY <1>4, <1>7, <1>9, <1>10, <1>18
    <3>2. ShowsRight(server[c], ended[c], periods[c])
      BY <1>5
    <3>. QED
      BY <3>1, <3>2 DEF ShowsRight
  <2>. QED
    BY <2>1 DEF X, UpIn
<1>19. \A t : UpIn(t)' = UpIn(t)
  BY <1>1 DEF UpIn
<1>20. ASSUME NEW n \in DOMAIN merged', NEW t \in Nat, merged'[n].from <= t, t < merged'[n].to
       PROVE  merged'[n].online = UpIn(t)'
  <2>1. CASE n \in DOMAIN merged /\ merged'[n] = merged[n]
    BY <1>3, <1>19, <1>20, <2>1
  <2>2. CASE merged'[n] = x
    <3>1. merged'[n].online = UpIn(t)
      BY <1>13, <1>18, <1>20, <2>2
    <3>. QED
      BY <1>19, <3>1
  <2>. QED
    BY <1>14, <2>1, <2>2
<1>21. Online!MergeFrom' \in Earliest..Now /\ DOMAIN indexlist' = Clusters
  BY <1>3, <1>10, <1>12, <1>16, ClockAssumption
<1>. QED
  BY <1>1, <1>14, <1>15, <1>17, <1>20, <1>21 DEF MergeRight

LEMMA OnlineHolds == Spec => []OnlineInv
<1>1. Init => OnlineInv
  BY OnlineInit, MergeInit DEF Init, OnlineInv
<1>2. OnlineInv /\ [Next]_unionVars => OnlineInv'
  <2> SUFFICES ASSUME OnlineInv, [Next]_unionVars PROVE OnlineInv'
    OBVIOUS
  <2>1. which' = which
    BY DEF Next, unionVars
  <2>2. ASSUME which = "online" PROVE ClustersRight' /\ MergeRight'
    <3>1. ClustersRight /\ MergeRight
      BY <2>2 DEF OnlineInv
    <3>2. Online!Next \/ UNCHANGED onlineVars
      BY <2>2 DEF Next, unionVars
    <3>3. CASE UNCHANGED onlineVars
      <4>1. ClustersRight'
        BY <3>1, <3>3 DEF ClustersRight, onlineVars
      <4>2. Online!MergeFrom' = Online!MergeFrom
        BY <3>3 DEF onlineVars, Online!MergeFrom
      <4>3. \A c \in Clusters : InStep(c)' <=> InStep(c)
        BY <3>3, <4>2 DEF onlineVars, InStep, Online!Current
      <4>4. \A t : UpIn(t)' = UpIn(t)
        BY <3>3 DEF onlineVars, UpIn
      <4>5. MergeRight'
        BY <3>1, <3>3, <4>2, <4>3, <4>4 DEF MergeRight, onlineVars
      <4>. QED
        BY <4>1, <4>5
    <3>4. ASSUME NEW c \in Clusters, Online!Populate(c)
          PROVE  ClustersRight' /\ MergeRight'
      <4>1. c \notin complete /\ UNCHANGED <<indexlist, merged>>
            /\ (Online!Finish(c) \/ Online!Offline(c) \/ Online!Ends(c) \/ Online!Starts(c))
        BY <3>4 DEF Online!Populate, Online!Finish, Online!Offline, Online!Ends, Online!Starts
      <4>2. ClustersRight'
        BY <3>1, <4>1, FinishRight, OfflineRight, EndsRight, StartsRight
      <4>. QED
        BY <3>1, <4>1, <4>2, PopulateKeepsMerge
    <3>5. CASE Online!Merge
      <4>1. UNCHANGED <<server, left, ended, begin, periods, complete>>
        BY <3>5 DEF Online!Merge
      <4>2. ClustersRight'
        BY <3>1, <4>1 DEF ClustersRight
      <4>. QED
        BY <3>1, <3>5, <4>2, MergeStep
    <3>. QED
      BY <3>2, <3>3, <3>4, <3>5 DEF Online!Next
  <2>. QED
    BY <2>1, <2>2 DEF OnlineInv
<1>. QED
  BY <1>1, <1>2, PTL DEF Spec

(* For any servers of any clusters, the page of the online status covers the *)
(* time up to now without gaps, names in each period exactly the servers     *)
(* that were online in it, shortens the time of a server only for one that   *)
(* took its place, and the merge never runs off the end of a list.           *)
THEOREM OnlineStatusShows == Spec => []ShowsWhoWasOnline
<1>1. ASSUME OnlineInv PROVE ShowsWhoWasOnline
  <2> SUFFICES ASSUME which = "online"
               PROVE  Online!ShowsWhoWasOnline /\ Online!MergeInStep /\ Online!TypeOK
    BY DEF ShowsWhoWasOnline
  <2>1. ClustersRight /\ MergeRight
    BY <1>1 DEF OnlineInv
  <2>2. ASSUME NEW c \in Clusters
        PROVE  /\ left[c] \subseteq DOMAIN server[c] /\ begin[c] \in Online!Times
               /\ Len(periods[c]) \in Nat /\ DOMAIN periods[c] = 1..Len(periods[c])
    <3>1. ClusterRight(server[c], left[c], ended[c], begin[c], periods[c])
      BY <2>1 DEF ClustersRight
    <3>2. periods[c] \in Seq(Period)
      BY <3>1 DEF ClusterRight
    <3>3. Len(periods[c]) \in Nat /\ DOMAIN periods[c] = 1..Len(periods[c])
      BY <3>2
    <3>. QED
      BY <3>1, <3>3, ClockAssumption DEF ClusterRight, Online!Monitored, Online!Times
  <2>3. Online!TypeOK
    BY <2>1, <2>2 DEF ClustersRight, Online!TypeOK
  <2>4. Online!MergeInStep
    <3> SUFFICES ASSUME complete = Clusters
                 PROVE  \/ \A c \in Clusters : indexlist[c] <= Len(periods[c])
                        \/ \A c \in Clusters : indexlist[c] > Len(periods[c])
      BY DEF Online!MergeInStep
    <3>1. \A c \in Clusters : InStep(c)
      BY <2>1 DEF MergeRight
    <3>2. CASE Online!MergeFrom < Now
      BY <2>2, <3>1, <3>2 DEF InStep
    <3>3. CASE ~ (Online!MergeFrom < Now)
      BY <2>2, <3>1, <3>3 DEF InStep
    <3>. QED
      BY <3>2, <3>3
  <2>5. ASSUME Online!Done
        PROVE  /\ Online!Tiles(merged) /\ merged # <<>> /\ merged[Len(merged)].to = Now
               /\ \A n \in DOMAIN merged, t \in Online!Times :
                    merged[n].from <= t /\ t < merged[n].to
                      => merged[n].online = {s \in Clusters \X (1..MaxServers) :
                                               /\ s[2] \in DOMAIN server[s[1]]
                                               /\ Online!OnlineAt(s[1], s[2], t)}
               /\ \A c \in Clusters : \A i \in Online!Monitored(server[c]) :
                    ended[c][i] # Online!Beat(c, i) => Online!ReplacedIn(c, i)
    <3>1. complete = Clusters /\ \A c \in Clusters : indexlist[c] > Len(periods[c])
      BY <2>5 DEF Online!Done
    <3>2. Online!MergeFrom = Now
      <4>1. PICK c \in Clusters : TRUE
        BY ClockAssumption
      <4>2. InStep(c) /\ Online!MergeFrom \in Earliest..Now
        BY <2>1, <3>1 DEF MergeRight
      <4>3. indexlist[c] \notin DOMAIN periods[c]
        <5>1. indexlist[c] > Len(periods[c]) /\ DOMAIN periods[c] = 1..Len(periods[c])
              /\ Len(periods[c]) \in Nat
          BY <2>2, <3>1
        <5>. QED
          BY <5>1
      <4>4. ~ (Online!MergeFrom < Now)
        BY <4>2, <4>3 DEF InStep
      <4>. QED
        BY <4>2, <4>4, ClockAssumption
    <3>3. Online!Tiles(merged) /\ merged # <<>> /\ merged[Len(merged)].to = Now
      BY <2>1, <3>2, ClockAssumption DEF MergeRight, Online!MergeFrom
    <3>4. \A c, i, t : Online!OnlineAt(c, i, t) <=> UpAt(server[c], ended[c], i, t)
      BY DEF Online!OnlineAt, UpAt, Online!Ready, Online!Beat, Online!NoTime, BeatOf
    <3>5. \A t : UpIn(t) = {s \in Clusters \X (1..MaxServers) :
                              /\ s[2] \in DOMAIN server[s[1]]
                              /\ Online!OnlineAt(s[1], s[2], t)}
      BY <3>4 DEF UpIn
    <3>6. Online!Times \subseteq Nat
      BY ClockAssumption DEF Online!Times
    <3>7. \A n \in DOMAIN merged : \A t \in Online!Times :
            merged[n].from <= t /\ t < merged[n].to => merged[n].online = UpIn(t)
      BY <2>1, <3>6 DEF MergeRight
    <3>8. ASSUME NEW c \in Clusters, NEW i \in Online!Monitored(server[c]),
                 ended[c][i] # Online!Beat(c, i)
          PROVE  Online!ReplacedIn(c, i)
      <4>1. left[c] = {} /\ TakenRight(server[c], left[c], ended[c], begin[c])
        BY <2>1, <3>1 DEF ClustersRight, ClusterRight
      <4>2. Took(server[c], ended[c], i)
        BY <3>8, <4>1 DEF TakenRight, Online!Beat, BeatOf
      <4>. QED
        BY <4>2 DEF Took, Online!ReplacedIn, Online!Ready, Online!Beat, BeatOf
    <3>. QED
      BY <3>3, <3>5, <3>7, <3>8
  <2>6. Online!ShowsWhoWasOnline
    BY <2>5 DEF Online!ShowsWhoWasOnline
  <2>. QED
    BY <2>3, <2>4, <2>6
<1>. QED
  BY <1>1, OnlineHolds, PTL

=============================================================================
