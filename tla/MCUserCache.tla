----------------------------- MODULE MCUserCache -----------------------------
EXTENDS UserCache

CONSTANTS c1, c2, w1, w2

(* One worker in each cluster.                                             *)
MCHome == [w \in Workers |-> IF w = w1 THEN c1 ELSE c2]

=============================================================================
