---------------------------- MODULE MCDecisions ----------------------------
(***************************************************************************)
(* The inputs TLC runs the computations of Decisions on.                    *)
(***************************************************************************)
EXTENDS Decisions

CONSTANTS g1, g2, g3, g4, e1, d1, d2, p1, p2

(***************************************************************************)
(* Every forest of at most four groups that has the public group g1, which  *)
(* refresh_cache insists on; a second root is what is left of a child of a  *)
(* deleted group (on_delete=SET_NULL).  The email can belong to the other   *)
(* groups in every way, for clean() lets a pattern pass of which it is not  *)
(* known whether the parent contains it.                                    *)
(***************************************************************************)
Parents ==
  {p \in [Groups -> {g1, g2, g3, None}] :
     p[g1] = None /\ p[g2] \in {g1, None} /\ p[g3] \in {g1, g2, None}}

Forests ==
  {[live |-> Groups, parent |-> p, users |-> u,
    excluded |-> [g \in Groups |-> IF g = g3 THEN x ELSE {}]] :
     p \in Parents,
     u \in {f \in [Groups -> SUBSET {e1}] : f[g1] = {e1}},
     x \in SUBSET {e1}}

(* Chains and stars of three groups; the email belongs to any of them.      *)
(* No row is g4.                                                           *)
Trees ==
  {[live |-> {g1, g2, g3},
    parent |-> [g \in Groups |-> CASE g = g2 -> g1 [] g = g3 -> q [] OTHER -> None],
    users |-> [g \in Groups |-> CASE g = g1 -> {e1} [] g = g4 -> {} [] OTHER -> u[g]],
    excluded |-> [g \in Groups |-> {}]] :
     q \in {g1, g2}, u \in [{g2, g3} -> SUBSET {e1}]}

Everything == [domains |-> {d1}, paths |-> {}, excluded |-> {}]
Nothing    == [domains |-> {d1}, paths |-> {}, excluded |-> {All}]
OnePath    == [domains |-> {d1}, paths |-> {p1}, excluded |-> {}]
AllButOne  == [domains |-> {d1, d2}, paths |-> {All}, excluded |-> {p1}]

Lists == {<<>>, <<Everything>>, <<Nothing>>, <<OnePath>>, <<AllButOne>>,
          <<OnePath, AllButOne>>, <<Nothing, AllButOne>>}

MCAuthTables ==
  {[g \in Groups |-> IF g = g4 THEN <<>> ELSE a[g]] : a \in [{g1, g2, g3} -> Lists]}

=============================================================================
