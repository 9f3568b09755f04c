----------------------------- MODULE MCVolumes ------------------------------
(***************************************************************************)
(* A small instance of VolumeLabels: a volume of a regular class and one of *)
(* a topology class, both with the secret y, and two clusters.  Another     *)
(* class of the name s1 may have the secret x2, and the second cluster may  *)
(* name the secret of the first.                                           *)
(***************************************************************************)
EXTENDS VolumeLabels, TLC

CONSTANTS c1, c2, v1, v2, s1, s2, x1, x2, y, a1, a2, i1, i2, p1

Regular == [default |-> y, provisioner |-> None, pool |-> p1, byMgmtId |-> None]
Topology == [Regular EXCEPT !.byMgmtId = [i \in MgmtId |-> InheritPool]]

OneClassEach == (v1 :> s1) @@ (v2 :> s2)
SecondId == (v1 :> None) @@ (v2 :> i2)
Classes == (s1 :> {Regular, [Regular EXCEPT !.default = x2]}) @@ (s2 :> {Topology})
Secrets == (c1 :> {x1}) @@ (c2 :> {x2, x1})

Address(a) == [addr |-> a, config |-> None]
Config(a, b1, b2) == [addr |-> a, config |-> (i1 :> b1) @@ (i2 :> b2)]

\* The second cluster may move to the address of the first, and the topology may
\* lose an id and get it back.
Moving == (x1 :> {Address(a1)}) @@ (x2 :> {Address(a2), Address(a1)})
          @@ (y :> {Config(a1, a1, a2), Config(a1, a1, None)})
=============================================================================
