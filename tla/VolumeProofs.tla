---------------------------- MODULE VolumeProofs ----------------------------
(***************************************************************************)
(* Proofs about VolumeLabels, for any volumes, classes, clusters, secrets,  *)
(* steps of users, restarts and faults: the types, that the watcher only    *)
(* changes labels, and that a volume at rest has the right one.             *)
(***************************************************************************)
EXTENDS VolumeLabels, VersionLogProofs

\* A copy that is still current is the live volume.
CopyLive == w.pc # "idle" /\ w.cur => Live(pv[w.req]) = w.copy

IdleWorker == w.pc = "idle" => w.req = None

TInv == TypeOK /\ CopyLive /\ IdleWorker

ClassSecret(v) == ScSecret(class[ClassOf[v]].params)

\* The address of volume v in the content of its class's secret.
AddressIn(v, data) ==
    IF class[ClassOf[v]].params.byMgmtId = None THEN data.addr
    ELSE IF data.config = None \/ IdOf[v] = None THEN Error
    ELSE IF data.config[IdOf[v]] \in {None, NoAddr} THEN Error
    ELSE data.config[IdOf[v]]

\* As far as the caches know, "addr" is the address of volume v, unless its
\* secret is gone; the secret's return will be reported.
KnownAddress(v, addr) ==
    /\ ClassSecret(v) # None
    /\ addr # Error
    /\ Cached(sec[ClassSecret(v)]) # None => AddressIn(v, Cached(sec[ClassSecret(v)])) = addr

\* As far as the caches know, the label l is right for the address "addr".
KnownCluster(l, addr) ==
    Unreadable(CachedClusters, CachedSecrets) = {} => l \in ClusterAt(addr, CachedClusters, CachedSecrets)

\* A volume that is at rest has the label of an address that is still its own.
RestMatched ==
    \A v \in Volume :
        v \notin queue /\ w.req # v /\ Synced(pv[v]) /\ isCSIBlockDriverPV(Cached(pv[v])) =>
            \E addr \in Addr \cup {None} : KnownAddress(v, addr) /\ KnownCluster(Cached(pv[v]).label, addr)

\* What the worker holds of its volume is what the caches hold, unless the
\* volume is queued again.
WorkerKnows ==
    w.pc # "idle" /\ w.req \notin queue /\ isCSIBlockDriverPV(Cached(pv[w.req])) =>
        Cached(pv[w.req]) = w.copy /\ KnownAddress(w.req, w.addr)

\* Every change of a secret on its way to the cache will be reported, if it matters.
SecretsReported ==
    \A x \in Secret : \A i \in 1..Len(sec[x]) - 1 :
        sec[x][i + 1] # None => Reported(sec[x][i], sec[x][i + 1])

\* Clusters come and go, but do not change.
ClustersReported ==
    \A f \in Cluster : \A i \in 1..Len(fsc[f]) - 1 : None \in {fsc[f][i], fsc[f][i + 1]}

LogReported == SecretsReported /\ ClustersReported

\* This holds, until some change is unheard, from the start of a process on.
IInv == TInv /\ RestMatched /\ WorkerKnows /\ LogReported

----------------------------------------------------------------------------
(* The types, and copies.                                                  *)

\* The caches' view of clusters and secrets has the types of the match.
LEMMA CachedTypes ==
    ASSUME TypeOK
    PROVE  /\ CachedSecrets \in [Secret -> SecretData \cup {None}]
           /\ CachedClusters \in [Cluster -> Secret \cup {None}]
BY LogVersions DEF TypeOK, CachedSecrets, CachedClusters

\* An address that getPVManagementAddress finds is the one in the class's secret.
LEMMA AddressFound ==
    ASSUME TypeOK, NEW v \in Volume, NEW o \in VolumeObject,
           NEW secrets \in [Secret -> SecretData \cup {None}],
           getPVManagementAddress(v, o, secrets) # Error
    PROVE  /\ getPVManagementAddress(v, o, secrets) \in Addr \cup {None}
           /\ o.bound
           /\ v \in claims /\ class[ClassOf[v]].there
           /\ ClassSecret(v) \in Secret
           /\ secrets[ClassSecret(v)] \in SecretData
           /\ getPVManagementAddress(v, o, secrets) = AddressIn(v, secrets[ClassSecret(v)])
<1> DEFINE p == class[ClassOf[v]].params
           data == secrets[ScSecret(p)]
<1>0. class[ClassOf[v]] \in ClassObject
  BY VolumeConstants DEF TypeOK
<1>1. p \in Params /\ ScSecret(p) \in Secret \cup {None}
  <2>1. p \in Params
    BY <1>0 DEF ClassObject
  <2> QED BY <2>1 DEF Params, ScSecret
<1>2. /\ o.bound /\ v \in claims /\ class[ClassOf[v]].there /\ ScSecret(p) # None
      /\ data # None
  BY DEF getPVManagementAddress
<1>3. data \in SecretData
  BY <1>1, <1>2
<1>4. getPVManagementAddress(v, o, secrets) = AddressIn(v, data)
  BY <1>2 DEF getPVManagementAddress, AddressIn
<1>5. AddressIn(v, data) # Error => AddressIn(v, data) \in Addr \cup {None}
  BY <1>3, VolumeConstants DEF AddressIn, SecretData
<1> QED BY <1>1, <1>2, <1>3, <1>4, <1>5 DEF ClassSecret

\* The worker that waits.
LEMMA IdleType == Idle \in Worker /\ Idle.pc = "idle" /\ Idle.req = None
BY DEF Idle, Worker

\* Everything of TypeOK but the logs and the worker.
PlainTypes == /\ claims \subseteq Volume
              /\ class \in [StorageClass -> ClassObject]
              /\ unheard \in BOOLEAN
              /\ queue \subseteq Volume
              /\ ops \in 0..MaxOps

LogTypes == /\ pv \in [Volume -> Log(VolumeObject \cup {None})]
            /\ fsc \in [Cluster -> Log(Secret \cup {None})]
            /\ sec \in [Secret -> Log(SecretData \cup {None})]

WorkerTypes == w \in Worker /\ (w.pc # "idle" => w.req \in Volume /\ w.copy \in VolumeObject)

\* TypeOK, in three parts.
LEMMA TypeParts == TypeOK <=> LogTypes /\ WorkerTypes /\ PlainTypes
BY DEF TypeOK, LogTypes, WorkerTypes, PlainTypes

\* TypeOK after a step, in parts.
LEMMA TypePartsPrime == TypeOK' <=> LogTypes' /\ WorkerTypes' /\ PlainTypes'
BY DEF TypeOK, LogTypes, WorkerTypes, PlainTypes

\* Initially the volumes are as the caches have them.
LEMMA InitTypes == Init => TInv
<1> SUFFICES ASSUME Init PROVE TInv
  OBVIOUS
<1>1. pv \in [Volume -> Log(VolumeObject \cup {None})]
  <2>1. \A b \in BOOLEAN : <<[label |-> None, bound |-> b]>> \in Log(VolumeObject \cup {None})
    <3>1. \A b \in BOOLEAN : [label |-> None, bound |-> b] \in VolumeObject
      BY DEF VolumeObject
    <3> QED BY <3>1, LogRestart
  <2>2. pv \in [Volume -> {<<[label |-> None, bound |-> b]>> : b \in BOOLEAN}]
    BY DEF Init
  <2> QED BY <2>1, <2>2
<1>2. fsc \in [Cluster -> Log(Secret \cup {None})]
  <2>1. \A x \in Secret \cup {None} : <<x>> \in Log(Secret \cup {None})
    BY LogRestart
  <2>2. fsc \in [Cluster -> {<<x>> : x \in Secret \cup {None}}]
    BY DEF Init
  <2> QED BY <2>1, <2>2
<1>3. sec \in [Secret -> Log(SecretData \cup {None})]
  <2> DEFINE S == (UNION {SecretDatas[x] : x \in Secret}) \cup {None}
  <2>1. \A o \in S : o \in SecretData \cup {None}
    BY VolumeConstants
  <2>2. sec \in [Secret -> {<<o>> : o \in S}]
    BY DEF Init
  <2> HIDE DEF S
  <2>3. \A o \in S : <<o>> \in Log(SecretData \cup {None})
    BY <2>1, LogRestart
  <2> QED BY <2>2, <2>3
<1>4. WorkerTypes /\ CopyLive /\ IdleWorker
  BY IdleType DEF Init, WorkerTypes, CopyLive, IdleWorker
<1>5. PlainTypes
  <2>1. PICK p : /\ \A s \in StorageClass : p[s] \in ScParams[s]
                 /\ class = [s \in StorageClass |-> [params |-> p[s], there |-> TRUE]]
    BY DEF Init
  <2>2. \A s \in StorageClass : p[s] \in Params
    BY <2>1, VolumeConstants
  <2>3. \A s \in StorageClass : [params |-> p[s], there |-> TRUE] \in ClassObject
    BY <2>2 DEF ClassObject
  <2>4. class \in [StorageClass -> ClassObject]
    BY <2>1, <2>3
  <2>5. /\ claims = Volume /\ queue = {v \in Volume : isCSIBlockDriverPV(Cached(pv[v]))}
        /\ unheard = FALSE /\ ops = 0
    BY DEF Init
  <2>6. claims \subseteq Volume /\ queue \subseteq Volume
    BY <2>5
  <2>7. unheard \in BOOLEAN
    BY <2>5
  <2>8. 0 \in 0..MaxOps
    BY VolumeConstants
  <2> QED BY <2>4, <2>5, <2>6, <2>7, <2>8 DEF PlainTypes
<1> QED BY <1>1, <1>2, <1>3, <1>4, <1>5, TypeParts DEF TInv, LogTypes

\* A return of the worker, with or without a new version of its volume.
LEMMA ReturnTypes ==
    ASSUME TInv, w.pc # "idle", NEW retry, Return(retry), LogTypes',
           UNCHANGED <<claims, class, unheard>>, ops' \in 0..MaxOps
    PROVE  TInv'
<1>1. WorkerTypes' /\ CopyLive' /\ IdleWorker'
  BY IdleType DEF Return, WorkerTypes, CopyLive, IdleWorker
<1>2. PlainTypes'
  BY TypeParts DEF TInv, PlainTypes, WorkerTypes, Return
<1> QED BY <1>1, <1>2, TypePartsPrime DEF TInv

\* A step of the worker and one of Fault.
LEMMA StartTypes ==
    ASSUME TInv, NEW v \in Volume, Start(v)
    PROVE  TInv'
<1>1. LogTypes /\ WorkerTypes /\ PlainTypes
  BY TypeParts DEF TInv
<1>2. LogTypes' /\ PlainTypes'
  BY <1>1 DEF LogTypes, PlainTypes, Start
<1> DEFINE o == Cached(pv[v])
           addr == getPVManagementAddress(v, o, CachedSecrets)
<1>3. CASE w' = Idle
  BY <1>2, <1>3, IdleType, TypePartsPrime DEF TInv, WorkerTypes, CopyLive, IdleWorker
<1>4. CASE /\ o # None
           /\ addr # Error
           /\ w' = [pc |-> "label", req |-> v, copy |-> o, cur |-> Synced(pv[v]), addr |-> addr]
  <2>0. pv[v] \in Log(VolumeObject \cup {None})
    BY <1>1 DEF LogTypes
  <2>1. pv[v] \in Log(VolumeObject \cup {None}) /\ o \in VolumeObject
    <3>1. o \in VolumeObject \cup {None}
      BY <2>0, LogVersions
    <3> QED BY <1>4, <2>0, <3>1
  <2>2. addr \in Addr \cup {None}
    BY <1>4, <2>1, CachedTypes, AddressFound DEF TInv
  <2>3. Synced(pv[v]) \in BOOLEAN
    BY DEF Synced
  <2> HIDE DEF o, addr
  <2>4. WorkerTypes'
    BY <1>4, <2>1, <2>2, <2>3 DEF WorkerTypes, Worker
  <2>5. CopyLive'
    <3>1. w'.req = v /\ w'.copy = o /\ w'.cur = Synced(pv[v]) /\ pv' = pv
      BY <1>4 DEF Start
    <3> QED BY <2>1, <3>1, SyncedIsLive DEF CopyLive, o
  <2>6. IdleWorker'
    BY <1>4 DEF IdleWorker
  <2> QED BY <1>2, <2>4, <2>5, <2>6, TypePartsPrime DEF TInv
<1> QED BY <1>3, <1>4 DEF Start

\* What PutLabel writes.
LEMMA PutLabelType ==
    ASSUME TInv, w.pc # "idle", NEW f \in Cluster \cup {None}, PutLabel(f)
    PROVE  /\ w.req \in Volume /\ w.copy \in VolumeObject
           /\ [w.copy EXCEPT !.label = f] \in VolumeObject
           /\ [w.copy EXCEPT !.label = f].bound = w.copy.bound
           /\ pv' = [pv EXCEPT ![w.req] = Append(pv[w.req], [w.copy EXCEPT !.label = f])]
           /\ pv' \in [Volume -> Log(VolumeObject \cup {None})]
<1>1. w.req \in Volume /\ w.copy \in VolumeObject
  BY DEF TInv, TypeOK
<1>2. /\ [w.copy EXCEPT !.label = f] \in VolumeObject
      /\ [w.copy EXCEPT !.label = f].bound = w.copy.bound
  BY <1>1 DEF VolumeObject
<1>3. pv' = [pv EXCEPT ![w.req] = Append(pv[w.req], [w.copy EXCEPT !.label = f])]
  BY DEF PutLabel
<1>4. pv[w.req] \in Log(VolumeObject \cup {None})
  BY <1>1 DEF TInv, TypeOK
<1>5. Append(pv[w.req], [w.copy EXCEPT !.label = f]) \in Log(VolumeObject \cup {None})
  BY <1>2, <1>4, LogAppend
<1>6. pv' \in [Volume -> Log(VolumeObject \cup {None})]
  BY <1>1, <1>3, <1>5 DEF TInv, TypeOK
<1> QED BY <1>1, <1>2, <1>3, <1>6

\* The clusters an address may have.
LEMMA ClusterAtType ==
    ASSUME NEW addr, NEW clusters, NEW secrets
    PROVE  /\ ClusterAt(addr, clusters, secrets) \subseteq Cluster \cup {None}
           /\ ClusterAt(addr, clusters, secrets) # {}
BY DEF ClusterAt, WithAddress, Listed

\* The worker labels a volume.
LEMMA LabelTypes ==
    ASSUME TInv, ensureStorageSystemLabel
    PROVE  TInv'
<1>1. /\ w.pc # "idle" /\ UNCHANGED <<fsc, sec, claims, class, unheard, ops>>
  BY DEF ensureStorageSystemLabel, Labelling
<1>2. LogTypes /\ PlainTypes
  BY TypeParts DEF TInv
<1>3. ASSUME NEW retry, Return(retry), UNCHANGED pv PROVE TInv'
  BY <1>1, <1>2, <1>3, ReturnTypes DEF LogTypes, PlainTypes
<1>4. ASSUME NEW f \in Cluster \cup {None}, PutLabel(f), Return(FALSE) PROVE TInv'
  BY <1>1, <1>2, <1>4, ReturnTypes, PutLabelType DEF LogTypes, PlainTypes
<1>5. ClusterAt(w.addr, CachedClusters, CachedSecrets) \subseteq Cluster \cup {None}
  BY ClusterAtType
<1> QED BY <1>3, <1>4, <1>5 DEF ensureStorageSystemLabel

\* The watch events.
LEMMA DeliverTypes ==
    ASSUME TInv,
           \/ \E v \in Volume : DeliverPv(v)
           \/ \E f \in Cluster : DeliverFsc(f)
           \/ \E x \in Secret : DeliverSecret(x)
    PROVE  TInv'
<1>1. LogTypes /\ WorkerTypes /\ PlainTypes
  BY TypeParts DEF TInv
<1>2. WorkerTypes' /\ PlainTypes' /\ IdleWorker'
  BY <1>1 DEF WorkerTypes, PlainTypes, TInv, IdleWorker, DeliverPv, DeliverFsc, DeliverSecret, pvMap
<1>3. ASSUME NEW v \in Volume, DeliverPv(v) PROVE LogTypes' /\ CopyLive'
  <2>1. /\ pv[v] \in Log(VolumeObject \cup {None}) /\ ~Synced(pv[v])
        /\ pv' = [pv EXCEPT ![v] = Tail(pv[v])] /\ UNCHANGED <<fsc, sec, w>>
    BY <1>1, <1>3 DEF LogTypes, DeliverPv
  <2>2. Tail(pv[v]) \in Log(VolumeObject \cup {None}) /\ Live(Tail(pv[v])) = Live(pv[v])
    BY <2>1, LogTail
  <2>3. LogTypes'
    BY <1>1, <2>1, <2>2 DEF LogTypes
  <2>4. \A u \in Volume : Live(pv'[u]) = Live(pv[u])
    BY <1>1, <2>1, <2>2 DEF LogTypes
  <2> QED BY <1>1, <2>1, <2>3, <2>4 DEF CopyLive, TInv, WorkerTypes
<1>4. ASSUME NEW f \in Cluster, DeliverFsc(f) PROVE LogTypes' /\ CopyLive'
  BY <1>1, <1>4, LogTail DEF LogTypes, DeliverFsc, CopyLive, TInv
<1>5. ASSUME NEW x \in Secret, DeliverSecret(x) PROVE LogTypes' /\ CopyLive'
  BY <1>1, <1>5, LogTail DEF LogTypes, DeliverSecret, CopyLive, TInv
<1> QED BY <1>2, <1>3, <1>4, <1>5, TypePartsPrime DEF TInv

\* The bound on the disturbances is kept.
LEMMA DisturbOps ==
    ASSUME TInv, NEW op, Disturb(op)
    PROVE  ops' \in 0..MaxOps /\ ops' # ops
BY VolumeConstants DEF TInv, TypeOK, Disturb

\* A user's write makes the worker's copy stale.
LEMMA UserPvTypes ==
    ASSUME TInv, NEW v \in Volume, NEW new \in VolumeObject \cup {None}, UserPutsPv(v, new),
           ops' \in 0..MaxOps
    PROVE  /\ TInv'
           /\ pv' = [pv EXCEPT ![v] = Append(pv[v], new)]
           /\ ~Synced(pv'[v])
           /\ \A u \in Volume \ {v} : pv'[u] = pv[u]
           /\ w'.pc = w.pc /\ w'.req = w.req /\ w'.copy = w.copy /\ w'.addr = w.addr
<1>1. LogTypes /\ WorkerTypes /\ PlainTypes
  BY TypeParts DEF TInv
<1>2. /\ pv[v] \in Log(VolumeObject \cup {None})
      /\ pv' = [pv EXCEPT ![v] = Append(pv[v], new)]
      /\ UNCHANGED <<fsc, sec, claims, class, unheard, queue>>
  BY <1>1 DEF LogTypes, UserPutsPv
<1>3. Append(pv[v], new) \in Log(VolumeObject \cup {None}) /\ ~Synced(Append(pv[v], new))
  BY <1>2, LogAppend
<1>4. LogTypes' /\ PlainTypes'
  BY <1>1, <1>2, <1>3 DEF LogTypes, PlainTypes
<1>5. /\ w' \in Worker /\ w'.pc = w.pc /\ w'.req = w.req /\ w'.copy = w.copy /\ w'.addr = w.addr
      /\ w'.cur => w.cur /\ w.req # v
  BY <1>1 DEF WorkerTypes, UserPutsPv, Worker
<1>6. WorkerTypes' /\ IdleWorker'
  BY <1>1, <1>5 DEF WorkerTypes, TInv, IdleWorker
<1>7. ~Synced(pv'[v]) /\ \A u \in Volume \ {v} : pv'[u] = pv[u]
  BY <1>1, <1>2, <1>3 DEF LogTypes
<1>8. CopyLive'
  BY <1>1, <1>5, <1>7 DEF CopyLive, TInv, WorkerTypes
<1> QED BY <1>2, <1>4, <1>5, <1>6, <1>7, <1>8, TypePartsPrime DEF TInv

UserPv(v) == CreatePv(v) \/ DeletePv(v) \/ RelabelPv(v) \/ BindPv(v)

\* Each of the users' steps on a volume is such a write.
LEMMA UserPvPuts ==
    ASSUME TInv, NEW v \in Volume, UserPv(v)
    PROVE  /\ ops' \in 0..MaxOps /\ ops' # ops
           /\ \E new \in VolumeObject \cup {None} : UserPutsPv(v, new)
<1>1. ops' \in 0..MaxOps /\ ops' # ops
  BY DisturbOps DEF UserPv, CreatePv, DeletePv, RelabelPv, BindPv
<1>2. Live(pv[v]) \in VolumeObject \cup {None}
  BY LogVersions DEF TInv, TypeOK
<1>3. \A b \in BOOLEAN : [label |-> None, bound |-> b] \in VolumeObject
  BY DEF VolumeObject
<1>4. Live(pv[v]) # None =>
         /\ \A f \in Cluster \cup {None} : [Live(pv[v]) EXCEPT !.label = f] \in VolumeObject
         /\ [Live(pv[v]) EXCEPT !.bound = ~@] \in VolumeObject
  BY <1>2 DEF VolumeObject
<1>5. CASE CreatePv(v)
  BY <1>1, <1>3, <1>5 DEF CreatePv
<1>6. CASE DeletePv(v)
  BY <1>1, <1>6 DEF DeletePv
<1>7. CASE RelabelPv(v)
  BY <1>1, <1>4, <1>7 DEF RelabelPv
<1>8. CASE BindPv(v)
  BY <1>1, <1>4, <1>8 DEF BindPv
<1> QED BY <1>1, <1>5, <1>6, <1>7, <1>8 DEF UserPv

UserFsc(f) == CreateFsc(f) \/ UpdateFsc(f) \/ DeleteFsc(f)

UserOther == \/ \E v \in Volume : DeleteClaim(v)
             \/ \E f \in Cluster : UserFsc(f)
             \/ \E x \in Secret : SetSecret(x) \/ DeleteSecret(x)
             \/ \E s \in StorageClass : CreateClass(s) \/ DeleteClass(s)

\* What the users write to clusters; only an update keeps a cluster and changes it.
LEMMA UserFscPuts ==
    ASSUME NEW f \in Cluster, UserFsc(f)
    PROVE  \E x \in Secret \cup {None} :
              /\ UserPutsFsc(f, x)
              /\ ~unheard' => None \in {Live(fsc[f]), x}
<1>1. FscSecrets[f] \subseteq Secret
  BY VolumeConstants
<1>2. CASE CreateFsc(f)
  BY <1>1, <1>2 DEF CreateFsc
<1>3. CASE UpdateFsc(f)
  BY <1>1, <1>3 DEF UpdateFsc
<1>4. CASE DeleteFsc(f)
  BY <1>4 DEF DeleteFsc
<1> QED BY <1>2, <1>3, <1>4 DEF UserFsc

\* The users' other steps leave volumes, queue and worker alone.
LEMMA UserOtherTypes ==
    ASSUME TInv, UserOther
    PROVE  /\ TInv'
           /\ UNCHANGED <<pv, queue, w>>
           /\ ops' # ops
<1>1. LogTypes /\ WorkerTypes /\ PlainTypes
  BY TypeParts DEF TInv
<1>2. ops' \in 0..MaxOps /\ ops' # ops
  BY DisturbOps DEF UserOther, UserFsc, CreateFsc, UpdateFsc, DeleteFsc, UserPutsFsc,
                    DeleteClaim, SetSecret, DeleteSecret, CreateClass, DeleteClass
<1>3. UNCHANGED <<pv, queue, w>>
  BY DEF UserOther, UserFsc, CreateFsc, UpdateFsc, DeleteFsc, UserPutsFsc,
                    DeleteClaim, SetSecret, DeleteSecret, CreateClass, DeleteClass
<1>4. WorkerTypes' /\ CopyLive' /\ IdleWorker'
  BY <1>1, <1>3 DEF WorkerTypes, CopyLive, IdleWorker, TInv
<1>5. ASSUME NEW v \in Volume, DeleteClaim(v) PROVE LogTypes' /\ PlainTypes'
  BY <1>1, <1>2, <1>5 DEF LogTypes, PlainTypes, DeleteClaim
<1>6. ASSUME NEW s \in StorageClass, CreateClass(s) \/ DeleteClass(s) PROVE LogTypes' /\ PlainTypes'
  <2>1. class[s] \in ClassObject
    BY <1>1 DEF PlainTypes
  <2>2. [class[s] EXCEPT !.there = FALSE] \in ClassObject
    BY <2>1 DEF ClassObject
  <2>3. \A p \in ScParams[s] : [params |-> p, there |-> TRUE] \in ClassObject
    BY VolumeConstants DEF ClassObject
  <2>4. PICK o \in ClassObject : class' = [class EXCEPT ![s] = o]
    BY <1>6, <2>2, <2>3 DEF CreateClass, DeleteClass
  <2>5. class' \in [StorageClass -> ClassObject]
    BY <1>1, <2>4 DEF PlainTypes
  <2>6. unheard' \in BOOLEAN
    BY <1>1, <1>6 DEF CreateClass, DeleteClass, PlainTypes
  <2>7. UNCHANGED <<pv, fsc, sec, claims, queue>>
    BY <1>6 DEF CreateClass, DeleteClass
  <2> QED BY <1>1, <1>2, <2>5, <2>6, <2>7 DEF LogTypes, PlainTypes
<1>7. ASSUME NEW f \in Cluster, UserFsc(f) PROVE LogTypes' /\ PlainTypes'
  <2>1. PICK x \in Secret \cup {None} : UserPutsFsc(f, x)
    BY <1>7, UserFscPuts
  <2>2. fsc[f] \in Log(Secret \cup {None}) /\ fsc' = [fsc EXCEPT ![f] = Append(fsc[f], x)]
    BY <1>1, <2>1 DEF LogTypes, UserPutsFsc
  <2>3. Append(fsc[f], x) \in Log(Secret \cup {None})
    BY <2>2, LogAppend
  <2>4. fsc' \in [Cluster -> Log(Secret \cup {None})]
    BY <1>1, <2>2, <2>3 DEF LogTypes
  <2>5. UNCHANGED <<pv, sec, claims, class, queue>> /\ unheard' \in BOOLEAN
    BY <1>1, <1>7, <2>1 DEF UserPutsFsc, UserFsc, CreateFsc, UpdateFsc, DeleteFsc, PlainTypes
  <2> QED BY <1>1, <1>2, <2>4, <2>5 DEF LogTypes, PlainTypes
<1>8. ASSUME NEW x \in Secret, SetSecret(x) \/ DeleteSecret(x) PROVE LogTypes' /\ PlainTypes'
  <2>1. PICK new \in SecretData \cup {None} : sec' = [sec EXCEPT ![x] = Append(sec[x], new)]
    BY <1>8, VolumeConstants DEF SetSecret, DeleteSecret
  <2>2. sec[x] \in Log(SecretData \cup {None})
    BY <1>1 DEF LogTypes
  <2>3. Append(sec[x], new) \in Log(SecretData \cup {None})
    BY <2>2, LogAppend
  <2>4. sec' \in [Secret -> Log(SecretData \cup {None})]
    BY <1>1, <2>1, <2>3 DEF LogTypes
  <2>5. UNCHANGED <<pv, fsc, claims, class, queue>> /\ unheard' \in BOOLEAN
    BY <1>1, <1>8 DEF SetSecret, DeleteSecret, PlainTypes
  <2> QED BY <1>1, <1>2, <2>4, <2>5 DEF LogTypes, PlainTypes
<1> QED BY <1>2, <1>3, <1>4, <1>5, <1>6, <1>7, <1>8, TypePartsPrime DEF UserOther, TInv

\* The process starts again from the live objects.
LEMMA RestartTypes ==
    ASSUME TInv, Restart
    PROVE  TInv' /\ ops' # ops
<1>1. LogTypes /\ PlainTypes
  BY TypeParts DEF TInv
<1>2. ops' \in 0..MaxOps /\ ops' # ops
  BY DisturbOps DEF Restart
<1>3. LogTypes'
  <2>1. pv' \in [Volume -> Log(VolumeObject \cup {None})]
    BY <1>1, LogVersions, LogRestart DEF LogTypes, Restart
  <2>2. fsc' \in [Cluster -> Log(Secret \cup {None})]
    BY <1>1, LogVersions, LogRestart DEF LogTypes, Restart
  <2>3. sec' \in [Secret -> Log(SecretData \cup {None})]
    BY <1>1, LogVersions, LogRestart DEF LogTypes, Restart
  <2> QED BY <2>1, <2>2, <2>3 DEF LogTypes
<1>4. WorkerTypes' /\ CopyLive' /\ IdleWorker'
  BY IdleType DEF Restart, WorkerTypes, CopyLive, IdleWorker
<1>5. PlainTypes'
  BY <1>1, <1>2 DEF Restart, PlainTypes
<1> QED BY <1>2, <1>3, <1>4, <1>5, TypePartsPrime DEF TInv

\* A failure of the worker.
LEMMA FaultTypes ==
    ASSUME TInv, Fault
    PROVE  TInv' /\ ops' # ops
<1>1. LogTypes'
  BY TypeParts DEF TInv, LogTypes, Fault
<1>2. ops' \in 0..MaxOps /\ ops' # ops
  BY DisturbOps DEF Fault
<1> QED BY <1>1, <1>2, ReturnTypes DEF Fault

\* The steps, by who takes them.
LEMMA NextCases ==
    ASSUME Next
    PROVE  \/ \E v \in Volume : Start(v) \/ DeliverPv(v) \/ UserPv(v)
           \/ ensureStorageSystemLabel
           \/ \E f \in Cluster : DeliverFsc(f)
           \/ \E x \in Secret : DeliverSecret(x)
           \/ UserOther
           \/ Restart
           \/ Fault
BY DEF Next, UserPv, UserOther, UserFsc

\* The types are inductive.
LEMMA StepTypes == TInv /\ [Next]_vars => TInv'
<1> SUFFICES ASSUME TInv, [Next]_vars PROVE TInv'
  OBVIOUS
<1>1. CASE UNCHANGED vars
  BY <1>1 DEF vars, TInv, TypeOK, CopyLive, IdleWorker
<1>2. ASSUME NEW v \in Volume, UserPv(v) PROVE TInv'
  BY <1>2, UserPvPuts, UserPvTypes
<1> QED BY <1>1, <1>2, NextCases, StartTypes, LabelTypes, DeliverTypes, UserOtherTypes, RestartTypes, FaultTypes

\* The first inductive invariant.
LEMMA TypesInv == Spec => []TInv
BY InitTypes, StepTypes, PTL DEF Spec

\* The variables always have their types: the worker never labels a volume that
\* it has not read, nor with an address it has not found, in whatever order
\* volumes, claims, classes and secrets go away.
THEOREM VolumeTypes == Spec => []TypeOK
BY TypesInv, PTL DEF TInv

\* No step of the watcher creates or deletes a volume or touches what binds it:
\* its Update replaces the whole object, but is refused unless the copy it was
\* made from is still the live one.
THEOREM VolumesAreKept == Spec => VolumesKept
<1> DEFINE Kept == \A v \in Volume :
                      /\ (Live(pv[v]) = None) = (Live(pv'[v]) = None)
                      /\ Live(pv[v]) # None => Live(pv'[v]).bound = Live(pv[v]).bound
<1>1. ASSUME TInv, [Next]_vars, ops' = ops PROVE Kept
  <2>1. CASE pv' = pv
    BY <2>1
  <2>2. ASSUME NEW v \in Volume, DeliverPv(v) PROVE Kept
    <3>1. /\ pv \in [Volume -> Log(VolumeObject \cup {None})] /\ ~Synced(pv[v])
          /\ pv' = [pv EXCEPT ![v] = Tail(pv[v])]
      BY <1>1, <2>2 DEF TInv, TypeOK, DeliverPv
    <3>2. Live(Tail(pv[v])) = Live(pv[v])
      BY <3>1, LogTail
    <3>3. \A u \in Volume : Live(pv'[u]) = Live(pv[u])
      BY <3>1, <3>2
    <3> QED BY <3>3
  <2>3. CASE ensureStorageSystemLabel
    <3>1. CASE w.cur /\ \E f \in Cluster \cup {None} : PutLabel(f)
      <4>0. PICK f \in Cluster \cup {None} : PutLabel(f)
        BY <3>1
      <4>1. w.pc # "idle"
        BY <2>3 DEF ensureStorageSystemLabel, Labelling
      <4> DEFINE new == [w.copy EXCEPT !.label = f]
      <4>2. /\ w.req \in Volume /\ w.copy \in VolumeObject /\ new \in VolumeObject
            /\ new.bound = w.copy.bound
            /\ pv' = [pv EXCEPT ![w.req] = Append(pv[w.req], new)]
        BY <1>1, <4>0, <4>1, PutLabelType
      <4> HIDE DEF new
      <4>3. pv \in [Volume -> Log(VolumeObject \cup {None})]
        BY <1>1 DEF TInv, TypeOK
      <4>4. Live(Append(pv[w.req], new)) = new /\ Live(pv[w.req]) = w.copy
        BY <1>1, <3>1, <4>1, <4>2, <4>3, LogAppend DEF TInv, CopyLive
      <4>5. new # None /\ w.copy # None
        BY <4>2, VolumeNone
      <4>6. Live(pv'[w.req]) = new /\ \A u \in Volume \ {w.req} : pv'[u] = pv[u]
        BY <4>2, <4>3, <4>4
      <4> QED BY <4>2, <4>4, <4>5, <4>6
    <3>2. ClusterAt(w.addr, CachedClusters, CachedSecrets) \subseteq Cluster \cup {None}
      BY ClusterAtType
    <3> QED BY <2>1, <2>3, <3>1, <3>2 DEF ensureStorageSystemLabel
  <2>4. ASSUME NEW v \in Volume, UserPv(v) PROVE FALSE
    BY <1>1, <2>4, UserPvPuts
  <2>5. UserOther \/ Restart \/ Fault => FALSE
    BY <1>1, UserOtherTypes, RestartTypes, FaultTypes
  <2>6. CASE UNCHANGED vars
    BY <2>1, <2>6 DEF vars
  <2>7. CASE \/ \E v \in Volume : Start(v)
             \/ \E f \in Cluster : DeliverFsc(f)
             \/ \E x \in Secret : DeliverSecret(x)
    BY <2>1, <2>7 DEF Start, DeliverFsc, DeliverSecret
  <2> QED BY <1>1, <2>2, <2>3, <2>4, <2>5, <2>6, <2>7, NextCases
<1>2. TInv /\ [Next]_vars =>
         [\A v \in Volume : ops' = ops =>
             /\ (Live(pv[v]) = None) = (Live(pv'[v]) = None)
             /\ Live(pv[v]) # None => Live(pv'[v]).bound = Live(pv[v]).bound]_vars
  BY <1>1
<1> QED BY <1>2, TypesInv, PTL DEF Spec, VolumesKept

----------------------------------------------------------------------------
(* Labels at rest, while every change is reported.                         *)

\* A change of a secret that is not reported leaves the addresses of volumes.
LEMMA AddressKept ==
    ASSUME NEW v \in Volume, NEW old \in SecretData, NEW new \in SecretData,
           Reported(old, new), ~SecretMgmtAddrPredicate(old, new), AddressIn(v, old) # Error
    PROVE  /\ AddressIn(v, new) = AddressIn(v, old)
           /\ new.addr = old.addr
<1>1. old # None /\ new # None
  BY VolumeNone
<1>2. (old.config = None) = (new.config = None) /\ old.addr = new.addr
  BY DEF Reported
<1>3. CASE class[ClassOf[v]].params.byMgmtId = None
  BY <1>2, <1>3 DEF AddressIn
<1>4. CASE class[ClassOf[v]].params.byMgmtId # None
  <2>1. old.config # None /\ IdOf[v] # None /\ old.config[IdOf[v]] \notin {None, NoAddr}
    BY <1>4 DEF AddressIn
  <2>2. IdOf[v] \in MgmtId
    BY <2>1, VolumeConstants
  <2>3. ~isTopologySecretUpdated(old, new)
    BY <1>1, <2>1 DEF SecretMgmtAddrPredicate
  <2>4. new.config # None /\ new.config[IdOf[v]] = old.config[IdOf[v]]
    BY <1>2, <2>1, <2>2, <2>3 DEF isTopologySecretUpdated
  <2> QED BY <1>2, <1>4, <2>1, <2>4 DEF AddressIn
<1> QED BY <1>3, <1>4

\* The same of the addresses of clusters.
LEMMA AddrKept ==
    ASSUME NEW old \in SecretData, NEW new \in SecretData,
           Reported(old, new), ~SecretMgmtAddrPredicate(old, new)
    PROVE  new.addr = old.addr
BY DEF Reported

\* A secret that comes is always reported.
LEMMA ComingReported ==
    ASSUME NEW new, Reported(None, new)
    PROVE  SecretMgmtAddrPredicate(None, new)
BY DEF Reported

\* When a secret goes or keeps its address, the clusters at an address stay.
LEMMA ClustersKept ==
    ASSUME NEW clusters \in [Cluster -> Secret \cup {None}], NEW secrets, NEW secrets2,
           NEW x \in Secret, \A y \in Secret \ {x} : secrets2[y] = secrets[y],
           secrets2[x] # None => secrets[x] # None /\ secrets2[x].addr = secrets[x].addr,
           Unreadable(clusters, secrets2) = {}
    PROVE  /\ Unreadable(clusters, secrets) = {}
           /\ \A addr : ClusterAt(addr, clusters, secrets2) = ClusterAt(addr, clusters, secrets)
<1>1. \A f \in Listed(clusters) : clusters[f] \in Secret /\ secrets2[clusters[f]] # None
  BY DEF Unreadable, Listed
<1>2. \A f \in Listed(clusters) : /\ secrets[clusters[f]] # None
                                  /\ secrets2[clusters[f]].addr = secrets[clusters[f]].addr
  BY <1>1
<1>3. Unreadable(clusters, secrets) = {}
  BY <1>2 DEF Unreadable
<1>4. \A addr : WithAddress(addr, clusters, secrets2) = WithAddress(addr, clusters, secrets)
  BY <1>2, <1>3 DEF WithAddress
<1> QED BY <1>3, <1>4 DEF ClusterAt

\* The secret of a volume's class, if the class names one.
LEMMA ClassSecretType ==
    ASSUME TypeOK, NEW v \in Volume
    PROVE  ClassSecret(v) \in Secret \cup {None}
<1>1. class[ClassOf[v]] \in ClassObject
  BY VolumeConstants DEF TypeOK
<1>2. class[ClassOf[v]].params \in Params
  BY <1>1 DEF ClassObject
<1> QED BY <1>2 DEF ClassSecret, ScSecret, Params

\* A rest that a step leaves, and a worker that it leaves.
LEMMA FrameInv ==
    ASSUME IInv, TInv', LogReported',
           \A s \in StorageClass : class'[s].params = class[s].params,
           \A x \in Secret : Cached(sec'[x]) = Cached(sec[x]),
           \A f \in Cluster : Cached(fsc'[f]) = Cached(fsc[f]),
           \A v \in Volume : Synced(pv'[v]) => pv'[v] = pv[v],
           \A v \in Volume : Cached(pv'[v]) = Cached(pv[v]),
           queue \subseteq queue',
           w'.pc = w.pc /\ w'.req = w.req /\ w'.copy = w.copy /\ w'.addr = w.addr
    PROVE  IInv'
<1>1. CachedSecrets' = CachedSecrets /\ CachedClusters' = CachedClusters
  BY DEF CachedSecrets, CachedClusters
<1>2. \A v \in Volume : ClassSecret(v) # None => ClassSecret(v) \in Secret
  BY ClassSecretType DEF IInv, TInv
<1>3. \A v \in Volume : \A addr : KnownAddress(v, addr) => KnownAddress(v, addr)'
  <2>1. \A v \in Volume : class'[ClassOf[v]].params = class[ClassOf[v]].params
    BY VolumeConstants
  <2> QED BY <1>2, <2>1 DEF KnownAddress, AddressIn, ClassSecret
<1>4. \A l, addr : KnownCluster(l, addr) => KnownCluster(l, addr)'
  BY <1>1 DEF KnownCluster
<1>5. RestMatched'
  BY <1>3, <1>4 DEF IInv, RestMatched
<1>6. WorkerKnows'
  BY <1>3 DEF IInv, WorkerKnows, TInv, TypeOK
<1> QED BY <1>5, <1>6 DEF IInv

\* Where the caches are up to date, nothing is on its way.
LEMMA OneVersion ==
    ASSUME \A x \in Secret : Len(sec[x]) = 1, \A f \in Cluster : Len(fsc[f]) = 1
    PROVE  LogReported
<1>1. ASSUME NEW x \in Secret, NEW i \in 1..Len(sec[x]) - 1 PROVE FALSE
  <2>1. i \in 1..1 - 1
    BY <1>1
  <2> QED BY <2>1
<1>2. ASSUME NEW f \in Cluster, NEW i \in 1..Len(fsc[f]) - 1 PROVE FALSE
  <2>1. i \in 1..1 - 1
    BY <1>2
  <2> QED BY <2>1
<1> QED BY <1>1, <1>2 DEF LogReported, SecretsReported, ClustersReported

\* The same after a step.
LEMMA OneVersionPrime ==
    ASSUME \A x \in Secret : Len(sec'[x]) = 1, \A f \in Cluster : Len(fsc'[f]) = 1
    PROVE  LogReported'
<1>1. ASSUME NEW x \in Secret, NEW i \in 1..Len(sec'[x]) - 1 PROVE FALSE
  <2>1. Len(sec'[x]) = 1
    OBVIOUS
  <2> QED BY <1>1, <2>1
<1>2. ASSUME NEW f \in Cluster, NEW i \in 1..Len(fsc'[f]) - 1 PROVE FALSE
  <2>1. Len(fsc'[f]) = 1
    OBVIOUS
  <2> QED BY <1>2, <2>1
<1> QED BY <1>1, <1>2 DEF LogReported, SecretsReported, ClustersReported

\* A step that writes neither.
LEMMA SameReported ==
    ASSUME LogReported, UNCHANGED <<fsc, sec>>
    PROVE  LogReported'
BY DEF LogReported, SecretsReported, ClustersReported, Reported

\* Initially every volume that can be labelled is queued.
LEMMA InitInv == Init => IInv
<1> SUFFICES ASSUME Init PROVE IInv
  OBVIOUS
<1>1. TInv
  BY InitTypes
<1>2. RestMatched
  BY DEF Init, RestMatched
<1>3. WorkerKnows
  BY IdleType DEF Init, WorkerKnows
<1>4. LogReported
  <2>1. \A x \in Secret : Len(sec[x]) = 1
    <3> DEFINE S == (UNION {SecretDatas[x] : x \in Secret}) \cup {None}
    <3>1. sec \in [Secret -> {<<o>> : o \in S}]
      BY DEF Init
    <3> HIDE DEF S
    <3> QED BY <3>1
  <2>2. \A f \in Cluster : Len(fsc[f]) = 1
    <3>1. fsc \in [Cluster -> {<<x>> : x \in Secret \cup {None}}]
      BY DEF Init
    <3> QED BY <3>1
  <2> QED BY <2>1, <2>2, OneVersion
<1> QED BY <1>1, <1>2, <1>3, <1>4 DEF IInv

\* A match starts with what the caches have.
LEMMA StartInv ==
    ASSUME IInv, NEW v \in Volume, Start(v)
    PROVE  IInv'
<1>1. TInv' /\ TypeOK /\ LogReported'
  BY StartTypes, SameReported DEF IInv, TInv, Start
<1>2. /\ w.pc = "idle" /\ w.req = None /\ queue' = queue \ {v}
      /\ UNCHANGED <<pv, fsc, sec, claims, class, unheard>>
  BY DEF Start, IInv, TInv, IdleWorker
<1> DEFINE o == Cached(pv[v])
           addr == getPVManagementAddress(v, o, CachedSecrets)
<1>3. o \in VolumeObject \cup {None}
  BY <1>1, LogVersions DEF TypeOK
<1>4. \A u \in Volume : \A a : KnownAddress(u, a) => KnownAddress(u, a)'
  BY <1>2 DEF KnownAddress, AddressIn, ClassSecret
<1>5. \A l, a : KnownCluster(l, a) => KnownCluster(l, a)'
  BY <1>2 DEF KnownCluster, CachedSecrets, CachedClusters
<1>6. \A u \in Volume : u # w.req
  BY <1>2, VolumeConstants
<1>7. CASE o = None /\ w' = Idle
  <2>1. ~isCSIBlockDriverPV(o)
    BY <1>7 DEF isCSIBlockDriverPV
  <2>2. RestMatched'
    BY <1>2, <1>4, <1>5, <1>6, <2>1 DEF IInv, RestMatched
  <2>3. WorkerKnows'
    BY <1>7, IdleType DEF WorkerKnows
  <2> QED BY <1>1, <2>2, <2>3 DEF IInv
<1>8. CASE /\ o # None
           /\ addr # Error
           /\ w' = [pc |-> "label", req |-> v, copy |-> o, cur |-> Synced(pv[v]), addr |-> addr]
  <2>1. w'.req = v /\ w'.copy = o /\ w'.addr = addr
    BY <1>8
  <2>2. RestMatched'
    BY <1>2, <1>4, <1>5, <1>6, <2>1 DEF IInv, RestMatched
  <2>3. /\ ClassSecret(v) \in Secret
        /\ addr = AddressIn(v, CachedSecrets[ClassSecret(v)])
    BY <1>1, <1>3, <1>8, CachedTypes, AddressFound
  <2>4. KnownAddress(v, addr)
    BY <1>8, <2>3, SentinelAssumption DEF KnownAddress, CachedSecrets
  <2> HIDE DEF o, addr
  <2>5. WorkerKnows'
    BY <1>2, <1>4, <2>1, <2>4 DEF WorkerKnows, o
  <2> QED BY <1>1, <2>2, <2>5 DEF IInv
<1> QED BY <1>7, <1>8 DEF Start

\* The worker returns: its volume is right, queued, or has a new version.
LEMMA ReturnInv ==
    ASSUME IInv, w.pc # "idle", NEW retry \in BOOLEAN, Return(retry), TInv',
           UNCHANGED <<fsc, sec, class>>,
           \A v \in Volume \ {w.req} : pv'[v] = pv[v],
           \/ retry
           \/ ~Synced(pv'[w.req])
           \/ pv'[w.req] = pv[w.req] /\ KnownCluster(w.copy.label, w.addr)
    PROVE  IInv'
<1>1. /\ LogReported' /\ w.req \in Volume /\ queue \subseteq queue'
      /\ w' = Idle /\ (retry => w.req \in queue')
  BY SameReported DEF IInv, TInv, TypeOK, Return
<1>2. \A u \in Volume : \A a : KnownAddress(u, a) => KnownAddress(u, a)'
  BY DEF KnownAddress, AddressIn, ClassSecret
<1>3. \A l, a : KnownCluster(l, a) => KnownCluster(l, a)'
  BY DEF KnownCluster, CachedSecrets, CachedClusters
<1>4. RestMatched'
  <2> SUFFICES ASSUME NEW v \in Volume, v \notin queue', Synced(pv'[v]),
                      isCSIBlockDriverPV(Cached(pv'[v]))
               PROVE  \E a \in Addr \cup {None} :
                         KnownAddress(v, a)' /\ KnownCluster(Cached(pv[v]).label, a)' /\ pv'[v] = pv[v]
    BY DEF RestMatched
  <2>1. CASE v # w.req
    BY <1>1, <1>2, <1>3, <2>1 DEF IInv, RestMatched
  <2>2. CASE v = w.req
    <3>1. pv'[v] = pv[v] /\ KnownCluster(w.copy.label, w.addr)
      BY <1>1, <2>2
    <3>2. Cached(pv[v]) = w.copy /\ KnownAddress(v, w.addr)
      BY <1>1, <2>2, <3>1 DEF IInv, WorkerKnows
    <3>3. w.addr \in Addr \cup {None}
      BY DEF IInv, TInv, TypeOK, Worker
    <3> QED BY <1>2, <1>3, <3>1, <3>2, <3>3
  <2> QED BY <2>1, <2>2
<1>5. WorkerKnows'
  BY <1>1, IdleType DEF WorkerKnows
<1> QED BY <1>1, <1>4, <1>5 DEF IInv

\* The worker's own steps.
LEMMA LabelInv ==
    ASSUME IInv, ensureStorageSystemLabel
    PROVE  IInv'
<1>1. /\ TInv' /\ w.pc # "idle" /\ UNCHANGED <<fsc, sec, class>>
      /\ w.req \in Volume
  BY LabelTypes DEF ensureStorageSystemLabel, Labelling, IInv, TInv, TypeOK
<1>2. ASSUME Return(TRUE), UNCHANGED pv PROVE IInv'
  BY <1>1, <1>2, ReturnInv
<1>3. ASSUME Return(FALSE), UNCHANGED pv,
             w.copy.label \in ClusterAt(w.addr, CachedClusters, CachedSecrets)
      PROVE  IInv'
  BY <1>1, <1>3, ReturnInv DEF KnownCluster
<1>4. ASSUME NEW f \in Cluster \cup {None}, PutLabel(f), Return(FALSE) PROVE IInv'
  <2>1. /\ pv \in [Volume -> Log(VolumeObject \cup {None})]
        /\ pv' = [pv EXCEPT ![w.req] = Append(pv[w.req], [w.copy EXCEPT !.label = f])]
        /\ [w.copy EXCEPT !.label = f] \in VolumeObject \cup {None}
    BY <1>1, <1>4, PutLabelType DEF IInv, TInv, TypeOK
  <2>2. ~Synced(Append(pv[w.req], [w.copy EXCEPT !.label = f]))
    BY <1>1, <2>1, LogAppend
  <2>3. ~Synced(pv'[w.req]) /\ \A v \in Volume \ {w.req} : pv'[v] = pv[v]
    BY <1>1, <2>1, <2>2
  <2> QED BY <1>1, <1>4, <2>3, ReturnInv
<1>5. ClusterAt(w.addr, CachedClusters, CachedSecrets) \subseteq Cluster \cup {None}
  BY ClusterAtType
<1> QED BY <1>2, <1>3, <1>4, <1>5 DEF ensureStorageSystemLabel

\* A new version of a volume queues it, if it can be labelled.
LEMMA DeliverPvInv ==
    ASSUME IInv, NEW v \in Volume, DeliverPv(v)
    PROVE  IInv'
<1>1. /\ TInv' /\ LogReported' /\ UNCHANGED <<fsc, sec, class, w>>
      /\ pv \in [Volume -> Log(VolumeObject \cup {None})] /\ ~Synced(pv[v])
      /\ pv' = [pv EXCEPT ![v] = Tail(pv[v])]
      /\ queue \subseteq queue'
  BY DeliverTypes, SameReported DEF IInv, TInv, TypeOK, DeliverPv
<1>2. /\ \A u \in Volume \ {v} : pv'[u] = pv[u]
      /\ Cached(pv'[v]) = pv[v][2]
  BY <1>1, TailHead
<1>3. isCSIBlockDriverPV(Cached(pv'[v])) => v \in queue'
  BY <1>2 DEF DeliverPv, isCSIBlockDriverPV
<1>4. \A u \in Volume : \A a : KnownAddress(u, a) => KnownAddress(u, a)'
  BY <1>1 DEF KnownAddress, AddressIn, ClassSecret
<1>5. \A l, a : KnownCluster(l, a) => KnownCluster(l, a)'
  BY <1>1 DEF KnownCluster, CachedSecrets, CachedClusters
<1>6. RestMatched'
  BY <1>1, <1>2, <1>3, <1>4, <1>5 DEF IInv, RestMatched
<1>7. WorkerKnows'
  BY <1>1, <1>2, <1>3, <1>4 DEF IInv, WorkerKnows, TInv, TypeOK
<1> QED BY <1>1, <1>6, <1>7 DEF IInv

\* A step that queues every volume that can be labelled.
LEMMA AllQueuedInv ==
    ASSUME TInv', LogReported',
           \A v \in Volume : isCSIBlockDriverPV(Cached(pv'[v])) => v \in queue'
    PROVE  IInv'
<1>1. RestMatched'
  BY DEF RestMatched
<1>2. WorkerKnows'
  BY DEF WorkerKnows, TInv, TypeOK
<1> QED BY <1>1, <1>2 DEF IInv

\* An event of a cluster: it has come or gone.
LEMMA DeliverFscInv ==
    ASSUME IInv, NEW f \in Cluster, DeliverFsc(f)
    PROVE  IInv'
<1>1. /\ TInv' /\ sec' = sec
      /\ fsc \in [Cluster -> Log(Secret \cup {None})] /\ ~Synced(fsc[f])
      /\ fsc' = [fsc EXCEPT ![f] = Tail(fsc[f])]
  BY DeliverTypes DEF IInv, TInv, TypeOK, DeliverFsc
<1>2. /\ \A g \in Cluster \ {f} : fsc'[g] = fsc[g]
      /\ fsc'[f] = Tail(fsc[f])
  BY <1>1
<1>3. /\ Len(fsc[f]) \in Nat /\ Len(fsc[f]) > 1
      /\ Len(Tail(fsc[f])) = Len(fsc[f]) - 1
      /\ \A i \in 1..Len(fsc[f]) - 1 : Tail(fsc[f])[i] = fsc[f][i + 1]
  BY <1>1, TailIs
<1>4. ClustersReported'
  <2> SUFFICES ASSUME NEW g \in Cluster, NEW i \in 1..Len(fsc'[g]) - 1
               PROVE  None \in {fsc'[g][i], fsc'[g][i + 1]}
    BY DEF ClustersReported
  <2>1. CASE g # f
    BY <1>2, <2>1 DEF IInv, LogReported, ClustersReported
  <2>2. CASE g = f
    <3>0. Len(fsc'[g]) = Len(fsc[f]) - 1 /\ fsc'[g] = Tail(fsc[f])
      BY <1>2, <1>3, <2>2
    <3>1. i \in 1..Len(fsc[f]) - 1 /\ i + 1 \in 1..Len(fsc[f]) - 1
      BY <1>3, <3>0
    <3>2. fsc'[g][i] = fsc[f][i + 1] /\ fsc'[g][i + 1] = fsc[f][(i + 1) + 1]
      BY <1>3, <3>0, <3>1
    <3> QED BY <2>2, <3>1, <3>2 DEF IInv, LogReported, ClustersReported
  <2> QED BY <2>1, <2>2
<1>5. SecretsReported'
  BY <1>1 DEF IInv, LogReported, SecretsReported, Reported
<1>6. None \in {fsc[f][1], fsc[f][2]}
  <2>1. 1 \in 1..Len(fsc[f]) - 1 /\ 1 + 1 = 2
    BY <1>3
  <2> QED BY <2>1 DEF IInv, LogReported, ClustersReported
<1>7. \A v \in Volume : isCSIBlockDriverPV(Cached(pv'[v])) => v \in queue'
  BY <1>6 DEF DeliverFsc, pvMap
<1> QED BY <1>1, <1>4, <1>5, <1>7, AllQueuedInv DEF LogReported

\* A secret's event queues the volumes, or leaves them where they belong.
LEMMA DeliverSecretInv ==
    ASSUME IInv, NEW x \in Secret, DeliverSecret(x)
    PROVE  IInv'
<1> DEFINE old == Cached(sec[x])
           new == sec[x][2]
<1>1. /\ TInv' /\ UNCHANGED <<pv, fsc, class, w>>
      /\ sec \in [Secret -> Log(SecretData \cup {None})] /\ ~Synced(sec[x])
      /\ sec' = [sec EXCEPT ![x] = Tail(sec[x])]
      /\ queue' = IF SecretMgmtAddrPredicate(old, new) THEN queue \cup pvMap ELSE queue
  BY DeliverTypes DEF IInv, TInv, TypeOK, DeliverSecret
<1>2. /\ \A y \in Secret \ {x} : sec'[y] = sec[y]
      /\ sec'[x] = Tail(sec[x]) /\ Cached(sec'[x]) = new
  BY <1>1, TailHead
<1>3. /\ Len(sec[x]) \in Nat /\ Len(sec[x]) > 1
      /\ Len(Tail(sec[x])) = Len(sec[x]) - 1
      /\ \A i \in 1..Len(sec[x]) - 1 : Tail(sec[x])[i] = sec[x][i + 1]
      /\ sec[x][1] = old
  BY <1>1, TailIs
<1>4. SecretsReported'
  <2> SUFFICES ASSUME NEW y \in Secret, NEW i \in 1..Len(sec'[y]) - 1, sec'[y][i + 1] # None
               PROVE  Reported(sec'[y][i], sec'[y][i + 1])
    BY DEF SecretsReported, Reported
  <2>1. CASE y # x
    BY <1>2, <2>1 DEF IInv, LogReported, SecretsReported
  <2>2. CASE y = x
    <3>0. Len(sec'[y]) = Len(sec[x]) - 1 /\ sec'[y] = Tail(sec[x])
      BY <1>2, <1>3, <2>2
    <3> HIDE DEF old
    <3>1. i \in 1..Len(sec[x]) - 1 /\ i + 1 \in 1..Len(sec[x]) - 1
      BY <1>3, <3>0
    <3>2. sec'[y][i] = sec[x][i + 1] /\ sec'[y][i + 1] = sec[x][(i + 1) + 1]
      BY <1>3, <3>0, <3>1
    <3> QED BY <2>2, <3>1, <3>2 DEF IInv, LogReported, SecretsReported
  <2> QED BY <2>1, <2>2
<1>5. LogReported'
  BY <1>1, <1>4 DEF IInv, LogReported, ClustersReported
<1>6. CASE SecretMgmtAddrPredicate(old, new)
  <2>1. \A v \in Volume : isCSIBlockDriverPV(Cached(pv'[v])) => v \in queue'
    BY <1>1, <1>6 DEF pvMap
  <2> QED BY <1>1, <1>5, <2>1, AllQueuedInv
<1>7. CASE ~SecretMgmtAddrPredicate(old, new)
  <2>1. old \in SecretData \cup {None} /\ new \in SecretData \cup {None}
    BY <1>1, LogVersions, LogTail
  <2>2. new # None => Reported(old, new)
    <3>1. 1 \in 1..Len(sec[x]) - 1 /\ 1 + 1 = 2
      BY <1>3
    <3> QED BY <1>3, <3>1 DEF IInv, LogReported, SecretsReported
  <2>3. new # None => old # None /\ new.addr = old.addr
    BY <1>7, <2>1, <2>2, ComingReported, AddrKept
  <2> HIDE DEF old, new
  <2>4. \A v \in Volume : \A a : KnownAddress(v, a) => KnownAddress(v, a)'
    <3> SUFFICES ASSUME NEW v \in Volume, NEW a, KnownAddress(v, a) PROVE KnownAddress(v, a)'
      OBVIOUS
    <3>1. ClassSecret(v) \in Secret /\ a # Error
      BY ClassSecretType DEF KnownAddress, IInv, TInv
    <3>2. CASE ClassSecret(v) # x
      BY <1>1, <1>2, <3>1, <3>2 DEF KnownAddress, AddressIn, ClassSecret
    <3>3. CASE ClassSecret(v) = x
      <4>1. new # None => AddressIn(v, new) = a
        <5> SUFFICES ASSUME new # None PROVE AddressIn(v, new) = a
          OBVIOUS
        <5>1. old \in SecretData /\ new \in SecretData /\ Reported(old, new)
          BY <2>1, <2>2, <2>3
        <5>2. AddressIn(v, old) = a
          BY <2>3, <3>3 DEF KnownAddress, old
        <5> QED BY <1>7, <3>1, <5>1, <5>2, AddressKept
      <4> QED BY <1>1, <1>2, <3>1, <3>3, <4>1 DEF KnownAddress, AddressIn, ClassSecret
    <3> QED BY <3>2, <3>3
  <2>5. \A l, a : KnownCluster(l, a) => KnownCluster(l, a)'
    <3> SUFFICES ASSUME NEW l, NEW a, KnownCluster(l, a), Unreadable(CachedClusters, CachedSecrets)' = {}
                 PROVE  l \in ClusterAt(a, CachedClusters, CachedSecrets)'
      BY DEF KnownCluster
    <3> DEFINE s1 == CachedSecrets
               s2 == CachedSecrets'
    <3>1. /\ \A y \in Secret \ {x} : s2[y] = s1[y]
          /\ s1[x] = old /\ s2[x] = new
      BY <1>2 DEF CachedSecrets, old
    <3>2. CachedClusters \in [Cluster -> Secret \cup {None}] /\ CachedClusters' = CachedClusters
      BY <1>1, CachedTypes DEF IInv, TInv, CachedClusters
    <3>3. Unreadable(CachedClusters, s2) = {}
      BY <3>2
    <3> HIDE DEF s1, s2
    <3>4. /\ Unreadable(CachedClusters, s1) = {}
          /\ ClusterAt(a, CachedClusters, s2) = ClusterAt(a, CachedClusters, s1)
      BY <2>3, <3>1, <3>2, <3>3, ClustersKept
    <3>5. l \in ClusterAt(a, CachedClusters, s2)
      BY <3>4 DEF KnownCluster, s1
    <3> QED BY <3>2, <3>5 DEF s2
  <2>6. RestMatched'
    BY <1>1, <1>7, <2>4, <2>5 DEF IInv, RestMatched, old, new
  <2>7. WorkerKnows'
    BY <1>1, <1>7, <2>4 DEF IInv, WorkerKnows, TInv, TypeOK, old, new
  <2> QED BY <1>1, <1>5, <2>6, <2>7 DEF IInv
<1> QED BY <1>6, <1>7

\* Users write volumes.
LEMMA UserPvInv ==
    ASSUME IInv, NEW v \in Volume, UserPv(v)
    PROVE  IInv'
<1>1. PICK new \in VolumeObject \cup {None} : UserPutsPv(v, new)
  BY UserPvPuts DEF IInv
<1>2. /\ TInv' /\ pv' = [pv EXCEPT ![v] = Append(pv[v], new)] /\ ~Synced(pv'[v])
      /\ \A u \in Volume \ {v} : pv'[u] = pv[u]
      /\ w'.pc = w.pc /\ w'.req = w.req /\ w'.copy = w.copy /\ w'.addr = w.addr
  BY <1>1, UserPvPuts, UserPvTypes DEF IInv
<1>3. UNCHANGED <<fsc, sec, class, queue>>
  BY <1>1 DEF UserPutsPv
<1>4. LogReported'
  BY <1>3, SameReported DEF IInv
<1>5. Cached(pv'[v]) = Cached(pv[v])
  BY <1>2, AppendHead DEF IInv, TInv, TypeOK
<1> QED BY <1>2, <1>3, <1>4, <1>5, FrameInv

\* Users write claims, classes, clusters and secrets, and are heard.
LEMMA UserOtherInv ==
    ASSUME IInv, UserOther, ~unheard'
    PROVE  IInv'
<1>1. TInv' /\ UNCHANGED <<pv, queue, w>>
  BY UserOtherTypes DEF IInv
<1>2. CASE \/ \E v \in Volume : DeleteClaim(v)
           \/ \E s \in StorageClass : CreateClass(s) \/ DeleteClass(s)
  <2>1. UNCHANGED <<sec, fsc>>
    BY <1>2 DEF DeleteClaim, CreateClass, DeleteClass
  <2>2. LogReported'
    BY <2>1, SameReported DEF IInv
  <2>3. \A t \in StorageClass : class'[t].params = class[t].params
    <3>0. class \in [StorageClass -> ClassObject]
      BY DEF IInv, TInv, TypeOK
    <3>1. ASSUME NEW v \in Volume, DeleteClaim(v) PROVE class' = class
      BY <3>1 DEF DeleteClaim
    <3>2. ASSUME NEW s \in StorageClass, CreateClass(s) PROVE <2>3!:
      <4>1. PICK p \in ScParams[s] : /\ class' = [class EXCEPT ![s] = [params |-> p, there |-> TRUE]]
                                      /\ p = class[s].params
        BY <3>2 DEF CreateClass
      <4> QED BY <3>0, <4>1
    <3>3. ASSUME NEW s \in StorageClass, DeleteClass(s) PROVE <2>3!:
      <4>1. class' = [class EXCEPT ![s] = [class[s] EXCEPT !.there = FALSE]]
        BY <3>3 DEF DeleteClass
      <4>2. [class[s] EXCEPT !.there = FALSE].params = class[s].params
        BY <3>0 DEF ClassObject
      <4> QED BY <3>0, <4>1, <4>2
    <3> QED BY <1>2, <3>1, <3>2, <3>3
  <2> QED BY <1>1, <2>1, <2>2, <2>3, FrameInv
<1>3. ASSUME NEW f \in Cluster, UserFsc(f) PROVE IInv'
  <2>1. PICK x \in Secret \cup {None} : UserPutsFsc(f, x) /\ None \in {Live(fsc[f]), x}
    BY <1>3, UserFscPuts
  <2>2. /\ UNCHANGED <<sec, class>> /\ fsc \in [Cluster -> Log(Secret \cup {None})]
        /\ fsc' = [fsc EXCEPT ![f] = Append(fsc[f], x)]
    BY <2>1 DEF UserPutsFsc, IInv, TInv, TypeOK
  <2>3. \A g \in Cluster : Cached(fsc'[g]) = Cached(fsc[g])
    BY <2>2, AppendHead
  <2>4. ClustersReported'
    <3>1. /\ Len(fsc[f]) \in Nat \ {0} /\ Len(fsc'[f]) = Len(fsc[f]) + 1
          /\ \A i \in 1..Len(fsc[f]) : fsc'[f][i] = fsc[f][i]
          /\ fsc'[f][Len(fsc[f]) + 1] = x
      BY <2>2, AppendIs
    <3> SUFFICES ASSUME NEW g \in Cluster, NEW i \in 1..Len(fsc'[g]) - 1
                 PROVE  None \in {fsc'[g][i], fsc'[g][i + 1]}
      BY DEF ClustersReported
    <3>2. CASE g # f
      BY <2>2, <3>2 DEF IInv, LogReported, ClustersReported
    <3>3. CASE g = f /\ i = Len(fsc[f])
      <4>1. fsc'[g][i] = Live(fsc[f]) /\ fsc'[g][i + 1] = x
        BY <3>1, <3>3 DEF Live
      <4> QED BY <2>1, <4>1
    <3>4. CASE g = f /\ i # Len(fsc[f])
      <4>1. i \in 1..Len(fsc[f]) - 1
        BY <3>1, <3>4
      <4>2. fsc'[g][i] = fsc[f][i] /\ fsc'[g][i + 1] = fsc[f][i + 1]
        BY <3>1, <3>4, <4>1
      <4> QED BY <4>1, <4>2 DEF IInv, LogReported, ClustersReported
    <3> QED BY <3>2, <3>3, <3>4
  <2>5. LogReported'
    BY <2>2, <2>4 DEF IInv, LogReported, SecretsReported, Reported
  <2> QED BY <1>1, <2>2, <2>3, <2>5, FrameInv
<1>4. ASSUME NEW x \in Secret, SetSecret(x) \/ DeleteSecret(x) PROVE IInv'
  <2>1. PICK new \in SecretData \cup {None} :
           /\ sec' = [sec EXCEPT ![x] = Append(sec[x], new)]
           /\ new # None => Reported(Live(sec[x]), new)
    BY <1>4, VolumeConstants DEF SetSecret, DeleteSecret
  <2>2. UNCHANGED <<fsc, class>> /\ sec \in [Secret -> Log(SecretData \cup {None})]
    BY <1>4 DEF SetSecret, DeleteSecret, IInv, TInv, TypeOK
  <2>3. \A y \in Secret : Cached(sec'[y]) = Cached(sec[y])
    BY <2>1, <2>2, AppendHead
  <2>4. SecretsReported'
    <3>1. /\ Len(sec[x]) \in Nat /\ Len(sec'[x]) = Len(sec[x]) + 1
          /\ \A i \in 1..Len(sec[x]) : sec'[x][i] = sec[x][i]
          /\ sec'[x][Len(sec[x]) + 1] = new
          /\ Live(sec[x]) = sec[x][Len(sec[x])] /\ Len(sec[x]) >= 1
      BY <2>1, <2>2 DEF Log, Live
    <3> SUFFICES ASSUME NEW y \in Secret, NEW i \in 1..Len(sec'[y]) - 1, sec'[y][i + 1] # None
                 PROVE  Reported(sec'[y][i], sec'[y][i + 1])
      BY DEF SecretsReported, Reported
    <3>2. CASE y # x
      BY <2>1, <2>2, <3>2 DEF IInv, LogReported, SecretsReported
    <3>3. CASE y = x /\ i = Len(sec[x])
      <4>1. sec'[y][i] = Live(sec[x]) /\ sec'[y][i + 1] = new
        BY <3>1, <3>3
      <4> QED BY <2>1, <4>1
    <3>4. CASE y = x /\ i # Len(sec[x])
      <4>1. i \in 1..Len(sec[x]) - 1
        BY <3>1, <3>4
      <4>2. sec'[y][i] = sec[x][i] /\ sec'[y][i + 1] = sec[x][i + 1]
        BY <3>1, <3>4, <4>1
      <4> QED BY <4>1, <4>2 DEF IInv, LogReported, SecretsReported
    <3> QED BY <3>2, <3>3, <3>4
  <2>5. LogReported'
    BY <2>2, <2>4 DEF IInv, LogReported, ClustersReported
  <2> QED BY <1>1, <2>2, <2>3, <2>5, FrameInv
<1> QED BY <1>2, <1>3, <1>4 DEF UserOther

\* A restart queues every volume, whatever was unheard before.
LEMMA RestartInv ==
    ASSUME TInv, Restart
    PROVE  IInv'
<1>1. TInv'
  BY RestartTypes
<1>2. LogReported'
  <2>1. \A x \in Secret : Len(sec'[x]) = 1
    BY DEF Restart
  <2>2. \A f \in Cluster : Len(fsc'[f]) = 1
    BY DEF Restart
  <2> QED BY <2>1, <2>2, OneVersionPrime
<1>3. \A v \in Volume : isCSIBlockDriverPV(Cached(pv'[v])) => v \in queue'
  <2>1. \A v \in Volume : Cached(pv'[v]) = Live(pv[v])
    BY LogVersions, LogRestart DEF Restart, TInv, TypeOK
  <2> QED BY <2>1 DEF Restart, isCSIBlockDriverPV
<1> QED BY <1>1, <1>2, <1>3, AllQueuedInv

\* A volume whose label failed is queued again.
LEMMA FaultInv ==
    ASSUME IInv, Fault
    PROVE  IInv'
BY FaultTypes, ReturnInv DEF IInv, Fault

\* Only another process makes up for what was unheard.
LEMMA UnheardStays ==
    ASSUME [Next]_vars, unheard, ~unheard'
    PROVE  Restart
<1>1. \A v \in Volume : ~Start(v) /\ ~DeliverPv(v) /\ ~UserPv(v)
  BY DEF Start, DeliverPv, UserPv, CreatePv, DeletePv, RelabelPv, BindPv, UserPutsPv
<1>2. ~ensureStorageSystemLabel /\ ~Fault /\ ~UNCHANGED vars
  BY DEF ensureStorageSystemLabel, Labelling, Fault, vars
<1>3. /\ \A f \in Cluster : ~DeliverFsc(f)
      /\ \A x \in Secret : ~DeliverSecret(x)
  BY DEF DeliverFsc, DeliverSecret
<1>4. ~UserOther
  BY DEF UserOther, UserFsc, CreateFsc, UpdateFsc, DeleteFsc, DeleteClaim, SetSecret, DeleteSecret,
         CreateClass, DeleteClass
<1> QED BY <1>1, <1>2, <1>3, <1>4, NextCases

\* The second inductive invariant.
HeardInv == TInv /\ (unheard \/ IInv)

\* It is kept: by the steps that are heard, by those that are not, and by a restart.
LEMMA StepInv == HeardInv /\ [Next]_vars => HeardInv'
<1> SUFFICES ASSUME HeardInv, [Next]_vars, ~unheard' PROVE IInv'
  BY StepTypes DEF HeardInv
<1>1. CASE Restart
  BY <1>1, RestartInv DEF HeardInv
<1>2. CASE ~Restart
  <2>1. IInv
    BY <1>2, UnheardStays DEF HeardInv
  <2>2. CASE UNCHANGED vars
    <3>1. TInv' /\ LogReported'
      BY <2>1, <2>2, StepTypes, SameReported DEF IInv, vars
    <3> QED BY <2>1, <2>2, <3>1, FrameInv DEF vars
  <2> QED BY <1>2, <2>1, <2>2, NextCases, StartInv, LabelInv, DeliverPvInv, DeliverFscInv, DeliverSecretInv,
             UserPvInv, UserOtherInv, FaultInv
<1> QED BY <1>1, <1>2

\* The invariant gives the label at rest.
LEMMA InvSettles == HeardInv => LabelSettled
<1> SUFFICES ASSUME IInv, NEW v \in Volume, CacheSynced, Synced(pv[v]), v \notin queue, w.req # v,
                    RightLabels(v) # {}
             PROVE  Live(pv[v]).label \in RightLabels(v)
  BY DEF HeardInv, LabelSettled, AtRest, Labelled
<1>1. /\ pv[v] \in Log(VolumeObject \cup {None})
      /\ Cached(pv[v]) = Live(pv[v])
  BY SyncedIsLive DEF IInv, TInv, TypeOK
<1>2. LiveSecrets = CachedSecrets
  BY SyncedIsLive DEF CacheSynced, LiveSecrets, CachedSecrets, IInv, TInv, TypeOK
<1>3. LiveClusters = CachedClusters
  <2>1. \A f \in Cluster : Cached(fsc[f]) = Live(fsc[f])
    BY SyncedIsLive DEF CacheSynced, IInv, TInv, TypeOK
  <2> QED BY <2>1 DEF LiveClusters, CachedClusters
<1> DEFINE addr == getPVManagementAddress(v, Live(pv[v]), CachedSecrets)
<1>4. /\ Live(pv[v]) # None /\ addr # Error
      /\ Unreadable(CachedClusters, CachedSecrets) = {}
      /\ RightLabels(v) = ClusterAt(addr, CachedClusters, CachedSecrets)
  BY <1>2, <1>3 DEF RightLabels
<1>5. Live(pv[v]) \in VolumeObject
  BY <1>1, <1>4, LogVersions
<1>6. /\ Live(pv[v]).bound /\ ClassSecret(v) \in Secret
      /\ CachedSecrets[ClassSecret(v)] \in SecretData
      /\ addr = AddressIn(v, CachedSecrets[ClassSecret(v)])
  BY <1>4, <1>5, CachedTypes, AddressFound DEF IInv, TInv
<1> HIDE DEF addr
<1>7. isCSIBlockDriverPV(Cached(pv[v]))
  BY <1>1, <1>4, <1>6 DEF isCSIBlockDriverPV
<1>8. PICK a \in Addr \cup {None} : KnownAddress(v, a) /\ KnownCluster(Cached(pv[v]).label, a)
  BY <1>7 DEF IInv, RestMatched
<1>9. a = addr
  BY <1>6, <1>8, VolumeNone DEF KnownAddress, CachedSecrets
<1> QED BY <1>1, <1>4, <1>8, <1>9 DEF KnownCluster

\* A volume at rest has the label of its cluster, for any volumes, classes,
\* clusters and secrets, and in whatever order they come, change and go: unless,
\* since the operator's process started, a cluster has named another secret, a
\* class has come back with other parameters, or a secret has changed in a way
\* that SecretMgmtAddrPredicate does not see.  None of these is reported to the
\* watcher; whatever they have left behind, the next process makes up for it.
THEOREM LabelIsSettled == Spec => []LabelSettled
<1>1. Init => HeardInv
  BY InitInv DEF HeardInv, IInv
<1> QED BY <1>1, StepInv, InvSettles, PTL DEF Spec
=============================================================================
