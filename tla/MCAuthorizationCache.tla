------------------------ MODULE MCAuthorizationCache ------------------------
EXTENDS AuthorizationCache, TLC

CONSTANTS g0, g1, g2, e1, e2, d1, p1

MCGroups == {g0, g1, g2}

(* g0 is the public group; the others are below it.                        *)
TreeWith(u1, u2) ==
  [live |-> MCGroups,
   parent |-> [g \in MCGroups |-> IF g = g0 THEN None ELSE g0],
   users |-> [g \in MCGroups |->
               Emails \cap CASE g = g0 -> {e1, e2} [] g = g1 -> u1 [] g = g2 -> u2],
   excluded |-> [g \in MCGroups |-> {}]]

(* Two users of one group; e1 leaves for the other group, or for none.     *)
MoveTrees == {TreeWith({e1, e2}, {}), TreeWith({e2}, {e1})}
LeaveTrees == {TreeWith({e1, e2}, {}), TreeWith({e2}, {})}

OnePath == [domains |-> {d1}, paths |-> {p1}, excluded |-> {}]
AllPaths == [domains |-> {d1}, paths |-> {}, excluded |-> {}]
Nothing == [domains |-> {d1}, paths |-> {}, excluded |-> {All}]

OneAuthTable ==
  {[g \in MCGroups |-> CASE g = g0 -> <<Nothing>> [] g = g1 -> <<OnePath>> [] g = g2 -> <<AllPaths>>]}

MCAuthTables ==
  OneAuthTable \cup {
   [g \in MCGroups |-> CASE g = g0 -> <<OnePath>> [] g = g1 -> <<AllPaths>> [] g = g2 -> <<>>]}

(* Nothing tells two requests apart.                                       *)
RequestSymmetry == Permutations(Requests)

=============================================================================
