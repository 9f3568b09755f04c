------------------------------ MODULE MCStatus ------------------------------
(***************************************************************************)
(* Small instances of ClusterStatus.                                       *)
(***************************************************************************)
EXTENDS ClusterStatus

CONSTANTS c1, c2, own, other
=============================================================================
