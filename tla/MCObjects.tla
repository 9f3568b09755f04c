----------------------------- MODULE MCObjects ------------------------------
(***************************************************************************)
(* A small instance of ClusterObjects: two clusters with one secret and, if *)
(* the second has a default pool, one name for their default classes.       *)
(***************************************************************************)
EXTENDS ClusterObjects

CONSTANTS c1, c2, shared, gold, p1, p2

OneSecret == [f \in Cluster |-> shared]
OneName == [f \in Cluster |-> IF f = c1 THEN {[class |-> gold, pool |-> p1]}
                              ELSE {None, [class |-> gold, pool |-> p2]}]
Foreign == {[block |-> FALSE, pool |-> p1]}
=============================================================================
