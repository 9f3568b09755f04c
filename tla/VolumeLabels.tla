---------------------------- MODULE VolumeLabels ----------------------------
(***************************************************************************)
(* The PersistentVolumeWatcher: it labels every volume of the block driver  *)
(* with the FlashSystemCluster the volume is on.  It finds the cluster from *)
(* the volume's claim, the claim's StorageClass, the class's secret, the    *)
(* management address in the secret and the clusters' own secrets.          *)
(*                                                                         *)
(* Volumes, clusters and secrets are watched, and are logs of versions      *)
(* (VersionLog); None: no such object.  Claims and classes are not watched  *)
(* by this controller and only read: a read through a cache that is behind  *)
(* is one before the user's step, so only the live ones are kept.           *)
(***************************************************************************)
EXTENDS StorageClassMatch, VersionLog

CONSTANTS
    Volume,      \* names of PersistentVolumes of the block driver
    ClassOf,     \* ClassOf[v]: the class the claim of volume v names
    IdOf,        \* IdOf[v]: the management id in its volumeHandle, None if there is none
    ScParams,    \* ScParams[s]: the parameters class s may have
    FscSecrets,  \* FscSecrets[f]: the secrets the spec of cluster f may name
    SecretDatas, \* SecretDatas[x]: the contents secret x may have
    MayMiss,     \* the clusters and secrets that may not exist at the start
    UserOps,     \* the kinds of steps the users may take
    MaxOps       \* bound on these steps, on restarts, and on the calls that
                 \* fail for no modelled reason

ASSUME VolumeConstants ==
    /\ ClassOf \in [Volume -> StorageClass]
    /\ IdOf \in [Volume -> MgmtId \cup {None}]
    /\ ScParams \in [StorageClass -> SUBSET Params]
    /\ FscSecrets \in [Cluster -> SUBSET Secret]
    /\ SecretDatas \in [Secret -> SUBSET SecretData]
    /\ None \notin Volume /\ Error \notin Addr \cup {None}
    /\ UserOps \subseteq {"createPv", "deletePv", "relabelPv", "bindPv", "createFsc", "updateFsc", "deleteFsc",
                          "setSecret", "deleteSecret", "deleteClaim", "createClass", "deleteClass",
                          "restart", "fault"}
    /\ MaxOps \in Nat

\* label: the label odf-fs-storage-system; bound: whether the volume refers to a claim.
VolumeObject == [label : Cluster \cup {None}, bound : BOOLEAN]

\* A class, or the last one of its name.
ClassObject == [params : Params, there : BOOLEAN]

ASSUME VolumeNone == None \notin VolumeObject /\ None \notin SecretData

VARIABLES
    pv,      \* [Volume -> versions of PersistentVolumes]
    fsc,     \* [Cluster -> versions of the secret its spec names]
    sec,     \* [Secret -> versions of secrets]
    claims,  \* the volumes whose claims exist
    class,   \* [StorageClass -> the classes]
    unheard, \* whether, since the process started, something a match reads has
             \* changed that neither the watches nor their predicates report (history)
    queue,   \* names queued for the watcher
    w,       \* its worker
    ops      \* steps the users have taken, and mishaps

vars == <<pv, fsc, sec, claims, class, unheard, queue, w, ops>>

\* copy: the volume the worker has read; cur: whether it is still the live one;
\* addr: the management address it has found, None for "".
Worker == [pc : {"idle", "label"}, req : Volume \cup {None},
           copy : VolumeObject \cup {None}, cur : BOOLEAN, addr : Addr \cup {None}]

TypeOK == /\ pv \in [Volume -> Log(VolumeObject \cup {None})]
          /\ fsc \in [Cluster -> Log(Secret \cup {None})]
          /\ sec \in [Secret -> Log(SecretData \cup {None})]
          /\ claims \subseteq Volume
          /\ class \in [StorageClass -> ClassObject]
          /\ unheard \in BOOLEAN
          /\ queue \subseteq Volume
          /\ w \in Worker
          /\ w.pc # "idle" => w.req \in Volume /\ w.copy \in VolumeObject
          /\ ops \in 0..MaxOps

Idle == [pc |-> "idle", req |-> None, copy |-> None, cur |-> FALSE, addr |-> None]

\* isCSIBlockDriverPV, for what the cache or a watch event holds of a volume.
isCSIBlockDriverPV(o) == o # None /\ o.bound

\* The volumes are there, labelled or not, when the operator starts.
Init == /\ pv \in [Volume -> {<<[label |-> None, bound |-> b]>> : b \in BOOLEAN}]
        /\ fsc \in [Cluster -> {<<x>> : x \in Secret \cup {None}}]
        /\ \A f \in Cluster : IF fsc[f] = <<None>> THEN f \in MayMiss ELSE Live(fsc[f]) \in FscSecrets[f]
        /\ sec \in [Secret -> {<<o>> : o \in (UNION {SecretDatas[x] : x \in Secret}) \cup {None}}]
        /\ \A x \in Secret : IF sec[x] = <<None>> THEN x \in MayMiss ELSE Live(sec[x]) \in SecretDatas[x]
        /\ claims = Volume
        /\ \E p \in [StorageClass -> UNION {ScParams[s] : s \in StorageClass}] :
              /\ \A s \in StorageClass : p[s] \in ScParams[s]
              /\ class = [s \in StorageClass |-> [params |-> p[s], there |-> TRUE]]
        /\ unheard = FALSE
        /\ queue = {v \in Volume : isCSIBlockDriverPV(Cached(pv[v]))}
        /\ w = Idle
        /\ ops = 0

----------------------------------------------------------------------------
(* The match.                                                              *)

\* The management address of volume v, whose latest version is o; "secrets"
\* maps the names of secrets to their contents.  A secret without an address
\* has the address "" (None); an id without one fails a type assertion.
getPVManagementAddress(v, o, secrets) ==
    LET p == class[ClassOf[v]].params
        data == secrets[ScSecret(p)]
    IN  IF \/ ~o.bound \/ v \notin claims \/ ~class[ClassOf[v]].there
           \/ ScSecret(p) = None
        THEN Error
        ELSE IF data = None THEN Error
        ELSE IF p.byMgmtId = None THEN data.addr
        ELSE IF data.config = None \/ IdOf[v] = None THEN Error
        ELSE IF data.config[IdOf[v]] \in {None, NoAddr} THEN Error
        ELSE data.config[IdOf[v]]

\* The clusters MapClustersByMgmtAddress may have for the address: the last one
\* listed wins; None if there is none.
ClusterAt(addr, clusters, secrets) ==
    LET with == WithAddress(addr, clusters, secrets)
    IN  IF with = {} THEN {None} ELSE with

CachedSecrets == [x \in Secret |-> Cached(sec[x])]
CachedClusters == [f \in Cluster |-> Cached(fsc[f])]

----------------------------------------------------------------------------
(* The worker of the watcher.                                              *)

\* Reconcile returns; with an error the name is queued again.
Return(retry) ==
    /\ w' = Idle
    /\ queue' = IF retry THEN queue \cup {w.req} ELSE queue

\* Mutant of Start: the error of getPVManagementAddress is shadowed.
StartAnyway(v) ==
    LET o == Cached(pv[v])
        addr == getPVManagementAddress(v, o, CachedSecrets)
    IN  /\ w.pc = "idle"
        /\ v \in queue
        /\ queue' = queue \ {v}
        /\ \/ o = None /\ w' = Idle
           \/ /\ o # None
              /\ w' = [pc |-> "label", req |-> v, copy |-> o, cur |-> Synced(pv[v]), addr |-> addr]
        /\ UNCHANGED <<pv, fsc, sec, claims, class, unheard, ops>>

\* Get of the volume and getPVManagementAddress.  An error is retried: a step
\* that changes nothing.
Start(v) ==
    LET o == Cached(pv[v])
        addr == getPVManagementAddress(v, o, CachedSecrets)
    IN  /\ w.pc = "idle"
        /\ v \in queue
        /\ queue' = queue \ {v}
        /\ \/ o = None /\ w' = Idle
           \/ /\ o # None
              /\ addr # Error
              /\ w' = [pc |-> "label", req |-> v, copy |-> o, cur |-> Synced(pv[v]), addr |-> addr]
        /\ UNCHANGED <<pv, fsc, sec, claims, class, unheard, ops>>

PutLabel(f) == pv' = [pv EXCEPT ![w.req] = Append(@, [w.copy EXCEPT !.label = f])]

Labelling == w.pc = "label" /\ UNCHANGED <<fsc, sec, claims, class, unheard, ops>>

\* Mutants of ensureStorageSystemLabel: the label is left when there is no
\* cluster; the Update carries no resource version; after a conflict it is tried
\* again with the same copy.
ensureLabelOnlyAdded ==
    /\ Labelling
    /\ \/ Unreadable(CachedClusters, CachedSecrets) # {} /\ Return(TRUE) /\ UNCHANGED pv
       \/ /\ Unreadable(CachedClusters, CachedSecrets) = {}
          /\ \E f \in ClusterAt(w.addr, CachedClusters, CachedSecrets) :
               \/ f \in {None, w.copy.label} /\ Return(FALSE) /\ UNCHANGED pv
               \/ f \notin {None, w.copy.label} /\ w.cur /\ PutLabel(f) /\ Return(FALSE)
               \/ f \notin {None, w.copy.label} /\ ~w.cur /\ Return(TRUE) /\ UNCHANGED pv
ensureLabelBlindly ==
    /\ Labelling
    /\ \/ Unreadable(CachedClusters, CachedSecrets) # {} /\ Return(TRUE) /\ UNCHANGED pv
       \/ /\ Unreadable(CachedClusters, CachedSecrets) = {}
          /\ \E f \in ClusterAt(w.addr, CachedClusters, CachedSecrets) :
               \/ f = w.copy.label /\ Return(FALSE) /\ UNCHANGED pv
               \/ f # w.copy.label /\ PutLabel(f) /\ Return(FALSE)
ensureLabelInLoop ==
    /\ Labelling
    /\ \/ Unreadable(CachedClusters, CachedSecrets) # {} /\ Return(TRUE) /\ UNCHANGED pv
       \/ /\ Unreadable(CachedClusters, CachedSecrets) = {}
          /\ \E f \in ClusterAt(w.addr, CachedClusters, CachedSecrets) :
               \/ f = w.copy.label /\ Return(FALSE) /\ UNCHANGED pv
               \/ f # w.copy.label /\ w.cur /\ PutLabel(f) /\ Return(FALSE)
               \/ f # w.copy.label /\ ~w.cur /\ UNCHANGED <<pv, w, queue>>

\* The clusters are mapped, which fails when the secret of any of them cannot
\* be read; then the label is set or taken off, if it is not right, with an
\* Update that is refused from a stale copy.
ensureStorageSystemLabel ==
    /\ Labelling
    /\ \/ Unreadable(CachedClusters, CachedSecrets) # {} /\ Return(TRUE) /\ UNCHANGED pv
       \/ /\ Unreadable(CachedClusters, CachedSecrets) = {}
          /\ \E f \in ClusterAt(w.addr, CachedClusters, CachedSecrets) :
               \/ f = w.copy.label /\ Return(FALSE) /\ UNCHANGED pv
               \/ f # w.copy.label /\ w.cur /\ PutLabel(f) /\ Return(FALSE)
               \/ f # w.copy.label /\ ~w.cur /\ Return(TRUE) /\ UNCHANGED pv

----------------------------------------------------------------------------
(* The watch events.                                                       *)

pvMap == {v \in Volume : isCSIBlockDriverPV(Cached(pv[v]))}

\* pvPredicate looks at the new version, and at the last one of a deleted volume.
DeliverPv(v) ==
    LET seen == IF pv[v][2] = None THEN Cached(pv[v]) ELSE pv[v][2]
    IN  /\ ~Synced(pv[v])
        /\ pv' = [pv EXCEPT ![v] = Tail(@)]
        /\ queue' = IF isCSIBlockDriverPV(seen) THEN queue \cup {v} ELSE queue
        /\ UNCHANGED <<fsc, sec, claims, class, unheard, w, ops>>

\* Creations and deletions only: IgnoreUpdateAndGenericPredicate.
DeliverFsc(f) ==
    /\ ~Synced(fsc[f])
    /\ fsc' = [fsc EXCEPT ![f] = Tail(@)]
    /\ queue' = IF None \in {fsc[f][1], fsc[f][2]} THEN queue \cup pvMap ELSE queue
    /\ UNCHANGED <<pv, sec, claims, class, unheard, w, ops>>

DeliverSecret(x) ==
    /\ ~Synced(sec[x])
    /\ sec' = [sec EXCEPT ![x] = Tail(@)]
    /\ queue' = IF SecretMgmtAddrPredicate(Cached(sec[x]), sec[x][2]) THEN queue \cup pvMap ELSE queue
    /\ UNCHANGED <<pv, fsc, claims, class, unheard, w, ops>>

----------------------------------------------------------------------------
(* The users, and what goes wrong.                                         *)

\* A step of the users, or a mishap.
Disturb(op) == op \in UserOps /\ ops < MaxOps /\ ops' = ops + 1

UserPutsPv(v, new) ==
    /\ pv' = [pv EXCEPT ![v] = Append(@, new)]
    /\ w' = [w EXCEPT !.cur = @ /\ w.req # v]
    /\ UNCHANGED <<fsc, sec, claims, class, unheard, queue>>

CreatePv(v) ==
    /\ Disturb("createPv")
    /\ Live(pv[v]) = None
    /\ \E b \in BOOLEAN : UserPutsPv(v, [label |-> None, bound |-> b])

DeletePv(v) ==
    /\ Disturb("deletePv")
    /\ Live(pv[v]) # None
    /\ UserPutsPv(v, None)

RelabelPv(v) ==
    /\ Disturb("relabelPv")
    /\ Live(pv[v]) # None
    /\ \E f \in (Cluster \cup {None}) \ {Live(pv[v]).label} :
         UserPutsPv(v, [Live(pv[v]) EXCEPT !.label = f])

\* A claim is bound to the volume, or its reference is taken off.
BindPv(v) ==
    /\ Disturb("bindPv")
    /\ Live(pv[v]) # None
    /\ UserPutsPv(v, [Live(pv[v]) EXCEPT !.bound = ~@])

UserPutsFsc(f, new) ==
    /\ fsc' = [fsc EXCEPT ![f] = Append(@, new)]
    /\ UNCHANGED <<pv, sec, claims, class, queue, w>>

CreateFsc(f) ==
    /\ Disturb("createFsc")
    /\ Live(fsc[f]) = None
    /\ \E x \in FscSecrets[f] : UserPutsFsc(f, x)
    /\ UNCHANGED unheard

\* The cluster names another secret.
UpdateFsc(f) ==
    /\ Disturb("updateFsc")
    /\ Live(fsc[f]) # None
    /\ \E x \in FscSecrets[f] \ {Live(fsc[f])} : UserPutsFsc(f, x)
    /\ unheard' = TRUE

DeleteFsc(f) ==
    /\ Disturb("deleteFsc")
    /\ Live(fsc[f]) # None
    /\ UserPutsFsc(f, None)
    /\ UNCHANGED unheard

\* A change of a secret is reported, or it changes nothing a match reads of the
\* old one.  SecretMgmtAddrPredicate reports no address that is new, gone or
\* beside a topology, no secret that becomes a topology or stops being one, and
\* no secret that comes without an address, even if another one of its name
\* went unnoticed before.
Reported(old, new) ==
    \/ SecretMgmtAddrPredicate(old, new)
    \/ /\ old # None
       /\ (old.config = None) = (new.config = None)
       /\ old.addr = new.addr

SetSecret(x) ==
    /\ Disturb("setSecret")
    /\ \E new \in SecretDatas[x] \ {Live(sec[x])} :
         /\ sec' = [sec EXCEPT ![x] = Append(@, new)]
         /\ unheard' = (unheard \/ ~Reported(Live(sec[x]), new))
    /\ UNCHANGED <<pv, fsc, claims, class, queue, w>>

DeleteSecret(x) ==
    /\ Disturb("deleteSecret")
    /\ Live(sec[x]) # None
    /\ sec' = [sec EXCEPT ![x] = Append(@, None)]
    /\ UNCHANGED <<pv, fsc, claims, class, unheard, queue, w>>

\* The volume keeps its reference; a claim of the same name would be another one,
\* which a volume is bound to only with a new reference.
DeleteClaim(v) ==
    /\ Disturb("deleteClaim")
    /\ v \in claims
    /\ claims' = claims \ {v}
    /\ UNCHANGED <<pv, fsc, sec, class, unheard, queue, w>>

\* The parameters of a class cannot be changed, but another class of that name
\* can have others.
CreateClass(s) ==
    /\ Disturb("createClass")
    /\ ~class[s].there
    /\ \E p \in ScParams[s] :
         /\ class' = [class EXCEPT ![s] = [params |-> p, there |-> TRUE]]
         /\ unheard' = (unheard \/ p # class[s].params)
    /\ UNCHANGED <<pv, fsc, sec, claims, queue, w>>

DeleteClass(s) ==
    /\ Disturb("deleteClass")
    /\ class[s].there
    /\ class' = [class EXCEPT ![s].there = FALSE]
    /\ UNCHANGED <<pv, fsc, sec, claims, unheard, queue, w>>

\* The operator's process ends and another one starts.
Restart ==
    /\ Disturb("restart")
    /\ pv' = [v \in Volume |-> <<Live(pv[v])>>]
    /\ fsc' = [f \in Cluster |-> <<Live(fsc[f])>>]
    /\ sec' = [x \in Secret |-> <<Live(sec[x])>>]
    /\ queue' = {v \in Volume : isCSIBlockDriverPV(Live(pv[v]))}
    /\ w' = Idle
    /\ unheard' = FALSE
    /\ UNCHANGED <<claims, class>>

\* A call of the worker fails.
Fault ==
    /\ Disturb("fault")
    /\ w.pc # "idle"
    /\ Return(TRUE)
    /\ UNCHANGED <<pv, fsc, sec, claims, class, unheard>>

Next == \/ \E v \in Volume : \/ Start(v) \/ DeliverPv(v) \/ CreatePv(v) \/ DeletePv(v)
                            \/ RelabelPv(v) \/ BindPv(v) \/ DeleteClaim(v)
        \/ ensureStorageSystemLabel
        \/ \E f \in Cluster : DeliverFsc(f) \/ CreateFsc(f) \/ UpdateFsc(f) \/ DeleteFsc(f)
        \/ \E x \in Secret : DeliverSecret(x) \/ SetSecret(x) \/ DeleteSecret(x)
        \/ \E s \in StorageClass : CreateClass(s) \/ DeleteClass(s)
        \/ Restart
        \/ Fault

Spec == Init /\ [][Next]_vars

\* As in PoolsConfigMap: the worker goes on, events arrive, and a queued name
\* has its turn again and again.
Fairness == /\ \A v \in Volume : SF_vars(Start(v)) /\ WF_vars(DeliverPv(v))
            /\ \A f \in Cluster : WF_vars(DeliverFsc(f))
            /\ \A x \in Secret : WF_vars(DeliverSecret(x))
            /\ WF_vars(ensureStorageSystemLabel)

FairSpec == Spec /\ Fairness

----------------------------------------------------------------------------
(* Properties.                                                             *)

LiveSecrets == [x \in Secret |-> Live(sec[x])]
LiveClusters == [f \in Cluster |-> Live(fsc[f])]

\* The labels volume v should have as the live objects say; none if they do
\* not say: the volume or what leads to its cluster is not there.
RightLabels(v) ==
    IF Live(pv[v]) = None THEN {}
    ELSE LET addr == getPVManagementAddress(v, Live(pv[v]), LiveSecrets)
         IN  IF addr = Error \/ Unreadable(LiveClusters, LiveSecrets) # {} THEN {}
             ELSE ClusterAt(addr, LiveClusters, LiveSecrets)

Labelled(v) == LET right == RightLabels(v) IN right # {} => Live(pv[v]).label \in right

CacheSynced == /\ \A f \in Cluster : Synced(fsc[f])
               /\ \A x \in Secret : Synced(sec[x])

AtRest(v) == Synced(pv[v]) /\ v \notin queue /\ w.req # v

\* When no event is on its way, a volume that neither waits nor is in work has
\* the label of the cluster it is on, and none if there is no such cluster:
\* every change that is reported has led to a new match, and every match that
\* failed, because a class or a secret was gone, is retried.  Not reported are
\* a cluster that names another secret, another class of the same name, and
\* what SecretMgmtAddrPredicate does not see of a secret: after one of these a
\* label may be wrong until the next process starts, whose list of the volumes
\* makes up for it.
LabelSettled ==
    ~unheard => \A v \in Volume : CacheSynced /\ AtRest(v) => Labelled(v)

\* The watcher's whole-object Updates never take back what others have done to
\* a volume (steps of the users count in ops).
VolumesKept ==
    [][\A v \in Volume : ops' = ops =>
          /\ (Live(pv[v]) = None) = (Live(pv'[v]) = None)
          /\ Live(pv[v]) # None => Live(pv'[v]).bound = Live(pv[v]).bound]_vars

\* In the end every volume whose cluster can be found has, and keeps, a right
\* label, unless a change was not reported; and the watcher has nothing left to
\* do for a volume with one right label only.  Where two clusters have one
\* address it may go from one to the other for ever, each time with an Update
\* that makes it match the volume again.
LabelsConverge ==
    <>[](\A v \in Volume :
            /\ ~unheard => Labelled(v)
            /\ ~AtRest(v) => \A f \in Cluster \cup {None} : RightLabels(v) # {f})
=============================================================================
