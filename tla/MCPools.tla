------------------------------ MODULE MCPools -------------------------------
(***************************************************************************)
(* Small instances of PoolsConfigMap.  Secrets x1 and x2 are named as the   *)
(* operator names the secrets of its clusters; y is a secret a storage      *)
(* class brings along.                                                     *)
(***************************************************************************)
EXTENDS PoolsConfigMap, TLC

CONSTANTS c1, c2, s1, x1, x2, y, a1, a2, i1, i2, p1, p2

Address(a) == [addr |-> a, config |-> None]
Regular(x, p) == [default |-> x, provisioner |-> None, pool |-> p, byMgmtId |-> None]
Topology(x, p, by) == [default |-> None, provisioner |-> x, pool |-> p, byMgmtId |-> by]

\* The class is the default one of c1.
DefaultOfC1 == [f \in Cluster |-> IF f = c1 THEN s1 ELSE None]

OwnSecret == [f \in Cluster |-> IF f = c1 THEN {x1} ELSE {x2}]

\* One class whose secret moves between the addresses of two clusters.
MovingClass == [s \in StorageClass |-> {Regular(y, p1)}]
MovingSecrets == [x \in Secret |-> IF x = x1 THEN {Address(a1)}
                                   ELSE IF x = x2 THEN {Address(a2)} ELSE {Address(a1), Address(a2)}]

\* Every cluster's secret has an address of its own.
OwnAddress == [x \in Secret |-> {IF x = x1 THEN Address(a1) ELSE Address(a2)}]

\* A topology class over two clusters: i1 inherits the pool of the class and
\* i2 has its own; one of its ids may be without an address, or both may go to
\* the same cluster.
TopologyClass == [s \in StorageClass |-> {Topology(y, p1, (i1 :> InheritPool) @@ (i2 :> p2))}]
Config(b1, b2) == [addr |-> None, config |-> (i1 :> b1) @@ (i2 :> b2)]
TopologySecrets == (x1 :> {Address(a1)}) @@ (x2 :> {Address(a2)})
                   @@ (y :> {Config(a1, a2), Config(a2, a2), Config(a1, NoAddr)})

\* A cluster that may change its secret to the one of the other, and a class
\* that uses a cluster's secret and may be without a pool.
SharedSecret == [f \in Cluster |-> IF f = c1 THEN {x1, x2} ELSE {x2}]
OneClass == [s \in StorageClass |-> {Regular(x1, p1)}]
AnyClass == [s \in StorageClass |-> {Regular(x1, p1), Regular(x1, EmptyPool)}]

\* What an older release left in the ConfigMap.
OldTables == {[s \in StorageClass |-> p1]}
=============================================================================
