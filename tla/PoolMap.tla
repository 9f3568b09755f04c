------------------------------ MODULE PoolMap ------------------------------
(***************************************************************************)
(* What the pools ConfigMap "ibm-flashsystem-pools" promises to its         *)
(* readers (the exporter mounts it): a map from a FlashSystemCluster name   *)
(* to the secret and the storage-class-to-pool table of that cluster, which *)
(* changes only one entry, or one storage class of one entry, at a time.    *)
(* Both controllers write the ConfigMap as a WHOLE object, from a copy they *)
(* read from a cache some time before; that such writes never undo each     *)
(* other is what PoolsConfigMap is shown to implement.                      *)
(***************************************************************************)
CONSTANTS
    Cluster,        \* names of FlashSystemClusters
    StorageClass,   \* names of StorageClasses of the block CSI driver
    Secret,         \* names of secrets
    Pool,           \* names of pools
    PoolsKey,       \* the legacy key "pools" of the ConfigMap, no cluster's name
    None            \* absent

VARIABLE pools      \* the live content, None when there is no ConfigMap

\* FlashSystemClusterMapContent; what the legacy key holds has no secret.
Entry == [secret : Secret \cup {None}, scs : [StorageClass -> Pool \cup {None}]]

Key == Cluster \cup {PoolsKey}

NoPools == [s \in StorageClass |-> None]

EmptyMap == [k \in Key |-> None]

Content == [Key -> Entry \cup {None}]

LegacyMaps == {[EmptyMap EXCEPT ![PoolsKey] = e] : e \in Entry}

Init == pools \in {None} \cup LegacyMaps

Create == /\ pools = None
          /\ pools' = EmptyMap

Delete == /\ pools # None
          /\ pools' = None

DropLegacy == /\ pools # None
              /\ pools[PoolsKey] # None
              /\ pools' = [pools EXCEPT ![PoolsKey] = None]

AddCluster(f) == /\ pools # None
                 /\ pools[f] = None
                 /\ \E x \in Secret :
                      pools' = [pools EXCEPT ![f] = [secret |-> x, scs |-> NoPools]]

RemoveCluster(f) == /\ pools # None
                    /\ pools[f] # None
                    /\ pools' = [pools EXCEPT ![f] = None]

SetPool(k, s) == /\ pools # None
                 /\ pools[k] # None
                 /\ \E p \in Pool \cup {None} :
                      pools' = [pools EXCEPT ![k].scs[s] = p]

Next == \/ Create
        \/ Delete
        \/ DropLegacy
        \/ \E f \in Cluster : AddCluster(f) \/ RemoveCluster(f)
        \/ \E k \in Key, s \in StorageClass : SetPool(k, s)

Spec == Init /\ [][Next]_pools
=============================================================================
