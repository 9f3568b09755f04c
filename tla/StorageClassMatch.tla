-------------------------- MODULE StorageClassMatch -------------------------
(***************************************************************************)
(* How the StorageClassWatcher matches a StorageClass to the               *)
(* FlashSystemClusters that serve it, and which secret changes make it     *)
(* match again.  Go lists a cache and ranges over a map in no fixed order,  *)
(* so a match has a SET of outcomes: maps from clusters to pools, or Error. *)
(*                                                                         *)
(* An argument "clusters" maps a cluster to the secret its spec names, or   *)
(* to None when the cluster is not in the list; "secrets" maps a secret's   *)
(* name to its content, or to None.                                        *)
(***************************************************************************)
CONSTANTS
    Cluster, StorageClass, Secret, Pool, None,
    Addr,           \* management addresses
    MgmtId,         \* management ids of topology secrets and classes
    NoAddr,         \* a management id's data without a management_address
    EmptyPool,      \* the pool name "" (a missing "pool" parameter reads as "")
    InheritPool,    \* a management id's data without a pool of its own
    Error,          \* the outcome "an error is returned"
    FscSecretName   \* the secrets whose name has the operator's prefix

ASSUME SentinelAssumption ==
    /\ {None, Error, EmptyPool, InheritPool} \cap Pool = {}
    /\ {None, NoAddr} \cap Addr = {}
    /\ None \notin Secret /\ None \notin Cluster
    /\ None # EmptyPool /\ None # Error /\ None # NoAddr /\ None # InheritPool
    /\ InheritPool # EmptyPool
    /\ FscSecretName \subseteq Secret

\* What a match reads of a StorageClass: the secrets its default and
\* provisioner parameters name, the pool, and by_management_id (None: regular).
Params == [default     : Secret \cup {None},
           provisioner : Secret \cup {None},
           pool        : Pool \cup {EmptyPool},
           byMgmtId    : [MgmtId -> Pool \cup {EmptyPool, InheritPool, None}] \cup {None}]

\* What is read of a secret: management_address, and the addresses in its
\* topology "config" (None: the key is absent).
SecretData == [addr   : Addr \cup {None},
               config : [MgmtId -> Addr \cup {NoAddr, None}] \cup {None}]

NoMatch == [f \in Cluster |-> None]

ScSecret(p) == IF p.default # None THEN p.default ELSE p.provisioner

Listed(clusters) == {f \in Cluster : clusters[f] # None}

\* The clusters whose secret cannot be read: a match that meets one fails.
Unreadable(clusters, secrets) ==
    {f \in Listed(clusters) : secrets[clusters[f]] = None}

\* The clusters whose own secret has the address a.
WithAddress(a, clusters, secrets) ==
    {f \in Listed(clusters) \ Unreadable(clusters, secrets) : secrets[clusters[f]].addr = a}

(***************************************************************************)
(* A regular class goes to the first cluster of the list with the address   *)
(* of the class's secret; the loop may meet an unreadable secret before it. *)
(***************************************************************************)
getFscByRegularStorageClass(p, data, clusters, secrets) ==
    LET match      == WithAddress(data.addr, clusters, secrets)
        unreadable == Unreadable(clusters, secrets)
    IN  {[NoMatch EXCEPT ![f] = p.pool] : f \in match}
        \cup {Error : f \in unreadable}
        \cup {m \in {NoMatch} : match \cup unreadable = {}}

\* The maps from addresses to clusters: the last cluster listed wins.
MapClustersByMgmtAddress(clusters, secrets) ==
    {m \in [Addr -> Cluster \cup {None}] :
        \A a \in Addr : LET with == WithAddress(a, clusters, secrets)
                        IN  m[a] \in IF with = {} THEN {None} ELSE with}

\* The management ids of a topology secret whose address is cluster f's.
IdsOf(f, data, byAddr) ==
    {i \in MgmtId : data.config[i] # None /\ byAddr[data.config[i]] = f}

extractPoolName(p, i) ==
    IF p.byMgmtId[i] = InheritPool THEN p.pool ELSE p.byMgmtId[i]

(***************************************************************************)
(* A topology class goes to the cluster of each management id of its        *)
(* secret; ids with the same cluster overwrite each other in any order.  An *)
(* id without an address fails a type assertion, which controller-runtime   *)
(* turns into an error, and an id the class does not mention is an error.   *)
(***************************************************************************)
getFscByTopologyStorageClass(p, data, clusters, secrets) ==
    IF \/ data.config = None
       \/ \E i \in MgmtId : data.config[i] = NoAddr
       \/ Unreadable(clusters, secrets) # {}
    THEN {Error}
    ELSE UNION {IF \E f \in Cluster : \E i \in IdsOf(f, data, byAddr) : p.byMgmtId[i] = None
                THEN {Error}
                ELSE {m \in [Cluster -> Pool \cup {EmptyPool, None}] :
                        \A f \in Cluster :
                            LET ids == IdsOf(f, data, byAddr)
                            IN  m[f] \in IF ids = {} THEN {None}
                                         ELSE {extractPoolName(p, i) : i \in ids}} :
                byAddr \in MapClustersByMgmtAddress(clusters, secrets)}

getFlashSystemClusterByStorageClass(p, clusters, secrets) ==
    IF ScSecret(p) = None THEN {Error}
    ELSE IF secrets[ScSecret(p)] = None THEN {Error}
    ELSE IF p.byMgmtId # None
    THEN getFscByTopologyStorageClass(p, secrets[ScSecret(p)], clusters, secrets)
    ELSE getFscByRegularStorageClass(p, secrets[ScSecret(p)], clusters, secrets)

----------------------------------------------------------------------------
(* The secret events that reach the watcher.                               *)

isTopologySecretHasMgmtAddr(data) == \A i \in MgmtId : data.config[i] # NoAddr

\* Mutant of isTopologySecretUpdated: only ids that are gone count.
isTopologySecretReduced(old, new) ==
    /\ new.config # None
    /\ \E i \in MgmtId : old.config[i] # None /\ new.config[i] = None

\* Only the ids of the old secret are compared.
isTopologySecretUpdated(old, new) ==
    /\ new.config # None
    /\ \E i \in MgmtId : old.config[i] # None /\ new.config[i] # old.config[i]

\* old = None: a create event; new = None: a delete event.
SecretMgmtAddrPredicate(old, new) ==
    LET HasAddress(data) == IF data.config # None
                            THEN isTopologySecretHasMgmtAddr(data)
                            ELSE data.addr # None
    IN  CASE old = None -> HasAddress(new)
          [] new = None -> HasAddress(old)
          [] OTHER -> IF old.config # None
                      THEN isTopologySecretUpdated(old, new)
                      ELSE old.addr # None /\ new.addr # None /\ old.addr # new.addr

\* The classes to match again; "classes" maps a listed class to its Params.
secretStorageClassMap(x, classes) ==
    {s \in StorageClass : /\ classes[s] # None
                          /\ x \in FscSecretName \/ ScSecret(classes[s]) = x}
=============================================================================
