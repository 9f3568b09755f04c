--------------------------- MODULE PoolsConfigMap ---------------------------
(***************************************************************************)
(* The pools ConfigMap and the two controllers that write it: the           *)
(* FlashSystemCluster reconciler, which adds and removes the entry of a     *)
(* cluster, and the StorageClassWatcher, which fills the entries with the   *)
(* pools of the storage classes.  Each has one worker and a work queue of   *)
(* names; both read every object through the manager's shared cache and     *)
(* write to the API server, which accepts an Update only from a copy with   *)
(* the live resource version.                                              *)
(*                                                                         *)
(* An object is a log of versions (VersionLog); None: no such object.       *)
(*                                                                         *)
(* Resource versions are not numbered.  A worker's copy has a flag that     *)
(* tells whether it is (still) the live version: a read sets it if the      *)
(* cache is up to date, a write by anyone else clears it.                  *)
(*                                                                         *)
(* Left to other modules: the steps of the FlashSystemCluster reconciler    *)
(* that touch neither the ConfigMap nor what the watcher reads.  A storage  *)
(* class the reconciler creates or deletes itself, and a secret the garbage *)
(* collector deletes with its owner, are among the steps of the users here. *)
(***************************************************************************)
EXTENDS StorageClassMatch, VersionLog

CONSTANTS
    PoolsKey,     \* the legacy key "pools"
    LegacyPools,  \* the tables a release before the present one may have left under it
    FscSecrets,   \* FscSecrets[f]: the secrets a spec of cluster f may name
    ScParams,     \* ScParams[s]: the parameters class s may be created with
    SecretDatas,  \* SecretDatas[x]: the contents secret x may have
    DefaultClass, \* DefaultClass[f]: the class f's default pool names, None if not modelled
    MayMiss,      \* the names of which there may be no object when the operator starts
    UserOps,      \* the kinds of steps the users may take
    NameReuse,    \* may a cluster be created again before the operator has
                  \* processed the deletion of the one of the same name?
    MaxOps,       \* bound on the steps of the users, and on restarts
    MaxFaults     \* bound on the API calls that fail for no modelled reason

AllUserOps == {"createFsc", "deleteFsc", "updateFsc", "createSc", "terminateSc",
               "deleteSc", "setSecret", "deleteSecret", "deleteCm", "restart"}

ASSUME ConstantsAssumption ==
    /\ PoolsKey \notin Cluster /\ PoolsKey # None
    /\ LegacyPools \subseteq [StorageClass -> Pool \cup {None}]
    /\ FscSecrets \in [Cluster -> SUBSET Secret]
    /\ ScParams \in [StorageClass -> SUBSET Params]
    /\ SecretDatas \in [Secret -> SUBSET SecretData]
    /\ DefaultClass \in [Cluster -> StorageClass \cup {None}]
    /\ UserOps \subseteq AllUserOps
    /\ NameReuse \in BOOLEAN
    /\ MaxOps \in Nat /\ MaxFaults \in Nat

VARIABLES
    fsc,      \* [Cluster -> versions of FlashSystemClusters]
    sc,       \* [StorageClass -> versions of StorageClasses]
    sec,      \* [Secret -> versions of secrets]
    cm,       \* versions of the data of the pools ConfigMap
    fscQ,     \* names queued for the FlashSystemCluster reconciler
    scQ,      \* names queued for the StorageClassWatcher
    fscW,     \* the worker of the reconciler
    scW,      \* the worker of the watcher
    ops,      \* steps the users have taken
    faults    \* faults that have happened

vars == <<fsc, sc, sec, cm, fscQ, scQ, fscW, scW, ops, faults>>
objects == <<fsc, sc, sec, cm>>

Pools == INSTANCE PoolMap WITH pools <- Live(cm)

FscObject == [secret : Secret, fin : BOOLEAN, del : BOOLEAN]
ScObject == [params : Params, del : BOOLEAN]

\* No ConfigMap is not a ConfigMap, no entry not an entry, and no object not an
\* object, nor what is read of one.
ASSUME NoneAssumption ==
    /\ None \notin Pools!Content /\ None \notin Pools!Entry
    /\ None \notin FscObject /\ None \notin ScObject
    /\ None \notin Params /\ None \notin SecretData

FscPC == {"idle", "finalizer", "secret", "getCm", "pools", "entry", "status",
          "rmGetCm", "rmEntry"}

\* req: the name in work; inst: the object read, and whether it is live;
\* data: the copy of the ConfigMap, and whether it is live.
FscWorker == [pc : FscPC, req : Cluster \cup {None},
              inst : FscObject \cup {None}, instCur : BOOLEAN,
              data : Pools!Content \cup {None}, cur : BOOLEAN]

\* want: the pool of the class for every cluster; todo: the keys of the copy
\* the loop has not come to.
ScWorker == [pc : {"idle", "match", "loop"}, req : StorageClass \cup {None},
             data : Pools!Content \cup {None}, cur : BOOLEAN,
             want : [Cluster -> Pool \cup {EmptyPool, None}],
             todo : SUBSET Pools!Key]

FscIdle == [pc |-> "idle", req |-> None, inst |-> None, instCur |-> FALSE,
            data |-> None, cur |-> FALSE]
ScIdle == [pc |-> "idle", req |-> None, data |-> None, cur |-> FALSE,
           want |-> NoMatch, todo |-> {}]

TypeOK == /\ fsc \in [Cluster -> Log(FscObject \cup {None})]
          /\ sc \in [StorageClass -> Log(ScObject \cup {None})]
          /\ sec \in [Secret -> Log(SecretData \cup {None})]
          /\ cm \in Log(Pools!Content \cup {None})
          /\ fscQ \subseteq Cluster
          /\ scQ \subseteq StorageClass
          /\ fscW \in FscWorker
          /\ scW \in ScWorker
          /\ ops \in 0..MaxOps
          /\ faults \in 0..MaxFaults

CachedFscs == {f \in Cluster : Cached(fsc[f]) # None}
CachedScs == {s \in StorageClass : Cached(sc[s]) # None}

FscOptions(f) == {None} \cup {[secret |-> x, fin |-> FALSE, del |-> FALSE] : x \in FscSecrets[f]}
ScOptions(s) == {None} \cup {[params |-> p, del |-> FALSE] : p \in ScParams[s]}
SecretOptions(x) == {None} \cup SecretDatas[x]

\* The objects at the start: one of Options(n) for every name n.
Choices(Names, Options(_)) ==
    {log \in [Names -> {<<o>> : o \in UNION {Options(n) : n \in Names}}] :
        \A n \in Names : /\ Live(log[n]) \in Options(n)
                         /\ Live(log[n]) = None => n \in MayMiss}

(***************************************************************************)
(* The operator starts: its cache holds the live objects and every cluster  *)
(* and class is queued.  The ConfigMap may not exist yet, or hold only what *)
(* a release before the "one key per cluster" format left in it.           *)
(***************************************************************************)
Init ==
    /\ fsc \in Choices(Cluster, FscOptions)
    /\ sc \in Choices(StorageClass, ScOptions)
    /\ sec \in Choices(Secret, SecretOptions)
    /\ cm \in {<<None>>} \cup {<<[Pools!EmptyMap EXCEPT ![PoolsKey] = [secret |-> None, scs |-> m]]>> :
                                m \in LegacyPools}
    /\ fscQ = CachedFscs
    /\ scQ = CachedScs
    /\ fscW = FscIdle
    /\ scW = ScIdle
    /\ ops = 0
    /\ faults = 0

----------------------------------------------------------------------------
(* The API server.                                                         *)

\* An Update of the ConfigMap to "new", accepted; one that changes nothing
\* makes no new version.
PutCm(new) == cm' = IF new = Live(cm) THEN cm ELSE Append(cm, new)

\* Whether a copy that is live before such an Update of someone else is after it.
StillLive(cur, new) == cur /\ new = Live(cm)

----------------------------------------------------------------------------
(* The FlashSystemCluster reconciler.                                      *)

\* Reconcile returns, with an error if "retry": the name is queued again.
FscReturn(retry) ==
    /\ fscW' = FscIdle
    /\ fscQ' = IF retry THEN fscQ \cup {fscW.req} ELSE fscQ

\* Get of the instance, and where reconcile goes from there.
FscStart(f) ==
    LET inst == Cached(fsc[f])
    IN  /\ fscW.pc = "idle"
        /\ f \in fscQ
        /\ fscQ' = fscQ \ {f}
        /\ fscW' = [FscIdle EXCEPT !.req = f,
                                   !.inst = inst,
                                   !.instCur = Synced(fsc[f]),
                                   !.pc = IF inst = None THEN "rmGetCm"
                                          ELSE IF inst.del = inst.fin THEN "finalizer"
                                          ELSE IF inst.del THEN "rmGetCm" ELSE "secret"]
        /\ UNCHANGED <<objects, scQ, scW, ops, faults>>

FscGoto(next) == fscW' = [fscW EXCEPT !.pc = next] /\ UNCHANGED fscQ

\* Update of the instance: the finalizer is added to a live object; taking it
\* off a deleted one makes the API server drop the object.
FscUpdateFinalizer ==
    /\ fscW.pc = "finalizer"
    /\ \/ /\ fscW.instCur /\ ~fscW.inst.del
          /\ LET new == [fscW.inst EXCEPT !.fin = TRUE]
             IN  /\ fsc' = [fsc EXCEPT ![fscW.req] = Append(@, new)]
                 /\ fscW' = [fscW EXCEPT !.pc = "secret", !.inst = new]
          /\ UNCHANGED fscQ
       \/ /\ fscW.instCur /\ fscW.inst.del
          /\ fsc' = [fsc EXCEPT ![fscW.req] = Append(@, None)]
          /\ fscW' = [fscW EXCEPT !.pc = "rmGetCm", !.instCur = FALSE]
          /\ UNCHANGED fscQ
       \/ /\ ~fscW.instCur
          /\ FscReturn(TRUE)
          /\ UNCHANGED fsc
    /\ UNCHANGED <<sc, sec, cm, scQ, scW, ops, faults>>

\* The steps before the ConfigMap; they need the secret of the cluster.
FscEnsureSecret ==
    /\ fscW.pc = "secret"
    /\ IF Cached(sec[fscW.inst.secret]) = None THEN FscReturn(TRUE) ELSE FscGoto("getCm")
    /\ UNCHANGED <<objects, scQ, scW, ops, faults>>

\* Reading the ConfigMap, which is created when the cache has none; Create
\* fails when there is one the cache has not seen yet.
GetCreateConfigmap ==
    LET Held(data, cur) ==
            /\ fscW' = [fscW EXCEPT !.pc = IF @ = "getCm" THEN "pools" ELSE "rmEntry",
                                    !.data = data, !.cur = cur]
            /\ UNCHANGED fscQ
    IN  /\ fscW.pc \in {"getCm", "rmGetCm"}
        /\ \/ /\ Cached(cm) # None
              /\ Held(Cached(cm), Synced(cm))
              /\ UNCHANGED cm
           \/ /\ Cached(cm) = None /\ Live(cm) = None
              /\ PutCm(Pools!EmptyMap)
              /\ Held(Pools!EmptyMap, TRUE)
           \/ /\ Cached(cm) = None /\ Live(cm) # None
              /\ FscReturn(TRUE)
              /\ UNCHANGED cm
        /\ UNCHANGED <<fsc, sc, sec, scQ, scW, ops, faults>>

\* Mutant of FscPutCm: the Update carries no resource version.
FscPutCmBlindly(new) ==
    /\ PutCm(new)
    /\ scW' = [scW EXCEPT !.cur = StillLive(@, new)]

\* Update of the ConfigMap with the copy changed to "new".
FscPutCm(new) ==
    /\ fscW.cur
    /\ PutCm(new)
    /\ scW' = [scW EXCEPT !.cur = StillLive(@, new)]

\* The Update is refused: the copy is not the live version.
FscConflict == ~fscW.cur /\ FscReturn(TRUE) /\ UNCHANGED <<cm, scW>>

\* ensureScPoolConfigMap.  Its Updates go through the pointer it was given,
\* which the client refreshes: the copy stays live.
FscUpdateCm(new, next) ==
    \/ FscPutCm(new) /\ fscW' = [fscW EXCEPT !.pc = next, !.data = new] /\ UNCHANGED fscQ
    \/ FscConflict

\* The legacy key goes first, in an Update of its own.
FscDropPools ==
    /\ fscW.pc = "pools"
    /\ IF fscW.data[PoolsKey] = None
       THEN FscGoto("entry") /\ UNCHANGED <<cm, scW>>
       ELSE FscUpdateCm([fscW.data EXCEPT ![PoolsKey] = None], "entry")
    /\ UNCHANGED <<fsc, sc, sec, scQ, ops, faults>>

FscAddEntry ==
    LET entry == [secret |-> fscW.inst.secret, scs |-> Pools!NoPools]
    IN  /\ fscW.pc = "entry"
        /\ IF fscW.data[fscW.req] # None
           THEN FscGoto("status") /\ UNCHANGED <<cm, scW>>
           ELSE FscUpdateCm([fscW.data EXCEPT ![fscW.req] = entry], "status")
        /\ UNCHANGED <<fsc, sc, sec, scQ, ops, faults>>

\* The rest of reconcile, and the Status().Update that ends it: it fails from
\* a stale copy; when it changes the status (a heartbeat time has seconds) the
\* watch event of that change queues the cluster again.
FscUpdateStatus ==
    /\ fscW.pc = "status"
    /\ \E retry \in {~fscW.instCur, TRUE} : FscReturn(retry)
    /\ UNCHANGED <<objects, scQ, scW, ops, faults>>

\* Mutant of FscRemoveEntry: an error of the Update is not returned.
FscRemoveEntryOnce ==
    /\ fscW.pc = "rmEntry"
    /\ \/ FscPutCm([fscW.data EXCEPT ![fscW.req] = None])
       \/ ~fscW.cur /\ UNCHANGED <<cm, scW>>
    /\ FscReturn(FALSE)
    /\ UNCHANGED <<fsc, sc, sec, scQ, ops, faults>>

\* removeFscFromConfigMap.  The Update is sent even if there is no entry.  When
\* the instance was found, Status().Update follows and does not find it.
FscRemoveEntry ==
    /\ fscW.pc = "rmEntry"
    /\ \/ FscPutCm([fscW.data EXCEPT ![fscW.req] = None]) /\ FscReturn(fscW.inst # None)
       \/ FscConflict
    /\ UNCHANGED <<fsc, sc, sec, scQ, ops, faults>>

FscWork == \/ FscUpdateFinalizer \/ FscEnsureSecret \/ GetCreateConfigmap
           \/ FscDropPools \/ FscAddEntry \/ FscUpdateStatus \/ FscRemoveEntry

----------------------------------------------------------------------------
(* The StorageClassWatcher.                                                *)

ScReturn(retry) ==
    /\ scW' = ScIdle
    /\ scQ' = IF retry THEN scQ \cup {scW.req} ELSE scQ

\* GetCreateConfigmap without creating.  If the cache has no ConfigMap,
\* Reconcile fails and is tried again: a step that changes nothing.
ScStart(s) ==
    /\ scW.pc = "idle"
    /\ s \in scQ
    /\ Cached(cm) # None
    /\ scQ' = scQ \ {s}
    /\ scW' = [ScIdle EXCEPT !.pc = "match", !.req = s,
                             !.data = Cached(cm), !.cur = Synced(cm)]
    /\ UNCHANGED <<objects, fscQ, fscW, ops, faults>>

\* The outcomes of matching class s against the cache, or the live objects.
MatchIn(View(_), s) ==
    getFlashSystemClusterByStorageClass(View(sc[s]).params,
        [f \in Cluster |-> IF View(fsc[f]) = None THEN None ELSE View(fsc[f]).secret],
        [x \in Secret |-> View(sec[x])])

\* The loop over the keys of the copy, in any order.
ScLoop(want) ==
    LET keys == {k \in Pools!Key : scW.data[k] # None}
    IN  IF keys = {} THEN ScReturn(FALSE)
        ELSE scW' = [scW EXCEPT !.pc = "loop", !.want = want, !.todo = keys] /\ UNCHANGED scQ

\* Mutant of ScMatch: a class that is not found needs no work.
ScMatchSkipsDeleted ==
    /\ scW.pc = "match"
    /\ \/ Cached(sc[scW.req]) = None /\ ScReturn(FALSE)
       \/ /\ Cached(sc[scW.req]) # None
          /\ \E want \in MatchIn(Cached, scW.req) :
               IF want = Error \/ (\E f \in Cluster : want[f] # None /\ scW.data[f] = None)
               THEN ScReturn(TRUE) ELSE ScLoop(want)
    /\ UNCHANGED <<objects, fscQ, fscW, ops, faults>>

\* Get of the class and ensureConfigMapUpdated up to its loop: the match, and
\* the check that the copy has an entry for every cluster matched.
ScMatch ==
    LET s == scW.req
    IN  /\ scW.pc = "match"
        /\ \/ Cached(sc[s]) = None /\ ScLoop(NoMatch)
           \/ /\ Cached(sc[s]) # None
              /\ \E want \in MatchIn(Cached, s) :
                   IF want = Error \/ (\E f \in Cluster : want[f] # None /\ scW.data[f] = None)
                   THEN ScReturn(TRUE)
                   ELSE ScLoop(IF Cached(sc[s]).del THEN NoMatch ELSE want)
        /\ UNCHANGED <<objects, fscQ, fscW, ops, faults>>

\* The pool the loop has for key k, and the copy with it.
ScPool(k) == IF k = PoolsKey THEN None ELSE scW.want[k]
ScChanged(k) == [scW.data EXCEPT ![k].scs[scW.req] = ScPool(k)]

\* addStorageClassToConfigMap or removeStorageClassFromConfigMap for one key.
\* They get the ConfigMap by value: an Update that changes it leaves the loop
\* with a stale version.
ScPutCm(k) ==
    LET new == ScChanged(k)
    IN  /\ PutCm(new)
        /\ fscW' = [fscW EXCEPT !.cur = StillLive(@, new)]
        /\ IF scW.todo = {k} THEN ScReturn(FALSE)
           ELSE /\ scW' = [scW EXCEPT !.todo = @ \ {k}, !.data = new,
                                      !.cur = StillLive(@, new)]
                /\ UNCHANGED scQ

InLoop(k) == /\ scW.pc = "loop"
             /\ k \in scW.todo
             /\ UNCHANGED <<fsc, sc, sec, fscQ, ops, faults>>

ScConflict == ~scW.cur /\ ScReturn(TRUE) /\ UNCHANGED <<cm, fscW>>

\* Mutants of ScUpdate: it sends no Update that changes nothing; it overwrites
\* whatever is live; it records the pool ""; it drops a conflict.
ScUpdateIfChanged(k) ==
    /\ InLoop(k)
    /\ IF ScChanged(k) # scW.data THEN (scW.cur /\ ScPutCm(k)) \/ ScConflict
       ELSE /\ scW' = IF scW.todo = {k} THEN ScIdle ELSE [scW EXCEPT !.todo = @ \ {k}]
            /\ UNCHANGED <<cm, fscW, scQ>>
ScUpdateBlindly(k) == InLoop(k) /\ ScPutCm(k)
ScUpdateEmptyPool(k) == InLoop(k) /\ ((scW.cur /\ ScPutCm(k)) \/ ScConflict)
ScUpdateOnce(k) ==
    InLoop(k) /\ ((scW.cur /\ ScPutCm(k)) \/ (~scW.cur /\ ScReturn(FALSE) /\ UNCHANGED <<cm, fscW>>))

\* One round of the loop.  A class without a pool ends it, without an error;
\* an Update is sent even if the entry does not change.
ScUpdate(k) ==
    /\ InLoop(k)
    /\ \/ ScPool(k) = EmptyPool /\ ScReturn(FALSE) /\ UNCHANGED <<cm, fscW>>
       \/ ScPool(k) # EmptyPool /\ scW.cur /\ ScPutCm(k)
       \/ ScPool(k) # EmptyPool /\ ScConflict

ScWork == ScMatch \/ \E k \in Pools!Key : ScUpdate(k)

----------------------------------------------------------------------------
(* The watch events: the next version of an object reaches the cache, and   *)
(* the handlers of the two controllers queue what it concerns.             *)

\* The reconciler watches clusters; fscStorageClassMap with
\* IgnoreUpdateAndGenericPredicate lets only creations and deletions through.
DeliverFsc(f) ==
    LET old == Cached(fsc[f]) new == fsc[f][2]
    IN  /\ ~Synced(fsc[f])
        /\ fsc' = [fsc EXCEPT ![f] = Tail(@)]
        /\ fscQ' = fscQ \cup {f}
        /\ scQ' = IF None \in {old, new} THEN scQ \cup CachedScs ELSE scQ
        /\ UNCHANGED <<sc, sec, cm, fscW, scW, ops, faults>>

\* The watcher's scPredicate, and DefaultStorageClassToClusterMapperFunc with
\* RunDeletePredicate.
DeliverSc(s) ==
    /\ ~Synced(sc[s])
    /\ sc' = [sc EXCEPT ![s] = Tail(@)]
    /\ scQ' = scQ \cup {s}
    /\ fscQ' = IF sc[s][2] = None THEN fscQ \cup {f \in CachedFscs : DefaultClass[f] = s} ELSE fscQ
    /\ UNCHANGED <<fsc, sec, cm, fscW, scW, ops, faults>>

\* SecretToClusterMapFunc, and secretStorageClassMap with SecretMgmtAddrPredicate.
DeliverSecret(x) ==
    LET classes == [s \in StorageClass |-> IF Cached(sc[s]) = None THEN None ELSE Cached(sc[s]).params]
    IN  /\ ~Synced(sec[x])
        /\ sec' = [sec EXCEPT ![x] = Tail(@)]
        /\ fscQ' = fscQ \cup {f \in CachedFscs : Cached(fsc[f]).secret = x}
        /\ scQ' = IF SecretMgmtAddrPredicate(Cached(sec[x]), sec[x][2])
                  THEN scQ \cup secretStorageClassMap(x, classes) ELSE scQ
        /\ UNCHANGED <<fsc, sc, cm, fscW, scW, ops, faults>>

\* Mutant of DeliverCm: only the classes are queued.
DeliverCmToClasses ==
    /\ ~Synced(cm)
    /\ cm' = Tail(cm)
    /\ scQ' = IF cm[2] = None THEN scQ \cup CachedScs ELSE scQ
    /\ UNCHANGED <<fsc, sc, sec, fscQ, fscW, scW, ops, faults>>

\* ConfigMapToClusterMapFunc and ConfigMapToStorageClassMapFunc, both with
\* RunDeletePredicate.
DeliverCm ==
    /\ ~Synced(cm)
    /\ cm' = Tail(cm)
    /\ fscQ' = IF cm[2] = None THEN fscQ \cup CachedFscs ELSE fscQ
    /\ scQ' = IF cm[2] = None THEN scQ \cup CachedScs ELSE scQ
    /\ UNCHANGED <<fsc, sc, sec, fscW, scW, ops, faults>>

Deliver == \/ \E f \in Cluster : DeliverFsc(f)
           \/ \E s \in StorageClass : DeliverSc(s)
           \/ \E x \in Secret : DeliverSecret(x)
           \/ DeliverCm

----------------------------------------------------------------------------
(* The users of the cluster, and what goes wrong.                          *)

UserOp(op) == /\ op \in UserOps
              /\ ops < MaxOps
              /\ ops' = ops + 1
              /\ UNCHANGED <<fscQ, scQ, faults>>

\* The operator is done with every cluster of this name it has seen.
Forgotten(f) ==
    /\ Synced(fsc[f])
    /\ f \notin fscQ
    /\ fscW.req # f
    /\ \A i \in 1..Len(cm) : cm[i] # None => cm[i][f] = None

\* A new version of cluster f by a user: the worker's copy of f gets stale.
UserPutsFsc(f, new) ==
    /\ fsc' = [fsc EXCEPT ![f] = Append(@, new)]
    /\ fscW' = [fscW EXCEPT !.instCur = @ /\ fscW.req # f]
    /\ UNCHANGED <<sc, sec, cm, scW>>

CreateFsc(f) ==
    /\ UserOp("createFsc")
    /\ Live(fsc[f]) = None
    /\ NameReuse \/ Forgotten(f)
    /\ \E new \in FscOptions(f) \ {None} : UserPutsFsc(f, new)

\* With a finalizer the object stays, marked, until the finalizer is gone.
DeleteFsc(f) ==
    /\ UserOp("deleteFsc")
    /\ Live(fsc[f]) # None
    /\ ~Live(fsc[f]).del
    /\ UserPutsFsc(f, IF Live(fsc[f]).fin THEN [Live(fsc[f]) EXCEPT !.del = TRUE] ELSE None)

UpdateFsc(f) ==
    /\ UserOp("updateFsc")
    /\ Live(fsc[f]) # None
    /\ \E x \in FscSecrets[f] \ {Live(fsc[f]).secret} :
         UserPutsFsc(f, [Live(fsc[f]) EXCEPT !.secret = x])

UserPutsSc(s, new) ==
    /\ sc' = [sc EXCEPT ![s] = Append(@, new)]
    /\ UNCHANGED <<fsc, sec, cm, fscW, scW>>

CreateSc(s) ==
    /\ UserOp("createSc")
    /\ Live(sc[s]) = None
    /\ \E new \in ScOptions(s) \ {None} : UserPutsSc(s, new)

\* A deletion that a finalizer of someone else holds up for a while.
TerminateSc(s) ==
    /\ UserOp("terminateSc")
    /\ Live(sc[s]) # None
    /\ ~Live(sc[s]).del
    /\ UserPutsSc(s, [Live(sc[s]) EXCEPT !.del = TRUE])

DeleteSc(s) ==
    /\ UserOp("deleteSc")
    /\ Live(sc[s]) # None
    /\ UserPutsSc(s, None)

UserPutsSecret(x, new) ==
    /\ new # Live(sec[x])
    /\ sec' = [sec EXCEPT ![x] = Append(@, new)]
    /\ UNCHANGED <<fsc, sc, cm, fscW, scW>>

SetSecret(x) ==
    /\ UserOp("setSecret")
    /\ \E new \in SecretDatas[x] : UserPutsSecret(x, new)

DeleteSecret(x) ==
    /\ UserOp("deleteSecret")
    /\ UserPutsSecret(x, None)

DeleteCm ==
    /\ UserOp("deleteCm")
    /\ Live(cm) # None
    /\ cm' = Append(cm, None)
    /\ fscW' = [fscW EXCEPT !.cur = FALSE]
    /\ scW' = [scW EXCEPT !.cur = FALSE]
    /\ UNCHANGED <<fsc, sc, sec>>

Users == \/ \E f \in Cluster : CreateFsc(f) \/ DeleteFsc(f) \/ UpdateFsc(f)
         \/ \E s \in StorageClass : CreateSc(s) \/ TerminateSc(s) \/ DeleteSc(s)
         \/ \E x \in Secret : SetSecret(x) \/ DeleteSecret(x)
         \/ DeleteCm

\* The operator's process ends and another one starts, as in Init, with the
\* given names queued.
RestartWith(clusters, classes) ==
    /\ "restart" \in UserOps
    /\ ops < MaxOps
    /\ ops' = ops + 1
    /\ fsc' = [f \in Cluster |-> <<Live(fsc[f])>>]
    /\ sc' = [s \in StorageClass |-> <<Live(sc[s])>>]
    /\ sec' = [x \in Secret |-> <<Live(sec[x])>>]
    /\ cm' = <<Live(cm)>>
    /\ fscQ' = clusters
    /\ scQ' = classes
    /\ fscW' = FscIdle
    /\ scW' = ScIdle
    /\ UNCHANGED faults

LiveFscs == {f \in Cluster : Live(fsc[f]) # None}
LiveScs == {s \in StorageClass : Live(sc[s]) # None}

\* Mutant of Restart: the create events of the clusters are ignored.
RestartIgnoresClusters == RestartWith({}, LiveScs)

Restart == RestartWith(LiveFscs, LiveScs)

\* An API call of a worker fails: Reconcile returns the error and is retried.
Fault ==
    /\ faults < MaxFaults
    /\ faults' = faults + 1
    /\ \/ fscW.pc # "idle" /\ FscReturn(TRUE) /\ UNCHANGED <<scQ, scW>>
       \/ scW.pc # "idle" /\ ScReturn(TRUE) /\ UNCHANGED <<fscQ, fscW>>
    /\ UNCHANGED <<objects, ops>>

Next == \/ \E f \in Cluster : FscStart(f)
        \/ FscWork
        \/ \E s \in StorageClass : ScStart(s)
        \/ ScWork
        \/ Deliver
        \/ Users
        \/ Restart
        \/ Fault

Spec == Init /\ [][Next]_vars

(***************************************************************************)
(* A worker that has begun goes on, a watch event arrives in the end, and a *)
(* queued name has its turn again and again: the work queues are first in,  *)
(* first out, so a name that keeps failing cannot keep another from running.*)
(* Users, restarts and faults need not happen.                             *)
(***************************************************************************)
Fairness == /\ \A f \in Cluster : SF_vars(FscStart(f)) /\ WF_vars(DeliverFsc(f))
            /\ \A s \in StorageClass : SF_vars(ScStart(s)) /\ WF_vars(DeliverSc(s))
            /\ \A x \in Secret : WF_vars(DeliverSecret(x))
            /\ WF_vars(DeliverCm)
            /\ WF_vars(FscWork)
            /\ WF_vars(ScWork)

FairSpec == Spec /\ Fairness

----------------------------------------------------------------------------
(* Properties.                                                             *)

\* A copy marked live is the live ConfigMap: what the API server's version
\* check makes of a whole-object Update.
CopiesLive ==
    /\ fscW.cur => fscW.data = Live(cm)
    /\ scW.cur => scW.data = Live(cm)

\* Whole-object Updates of two controllers act as changes of single entries:
\* no Update, from however stale a copy, takes back what another one wrote.
PoolMapSpec == Pools!Spec

\* The pools recorded for class s, by cluster.
Recorded(s) ==
    [f \in Cluster |-> IF Live(cm) = None THEN None
                       ELSE IF Live(cm)[f] = None THEN None ELSE Live(cm)[f].scs[s]]

CacheSynced ==
    /\ \A f \in Cluster : Synced(fsc[f])
    /\ \A s \in StorageClass : Synced(sc[s])
    /\ \A x \in Secret : Synced(sec[x])
    /\ Synced(cm)

\* What should be recorded for class s.
Wanted(s) == IF Live(sc[s]) = None THEN {NoMatch}
             ELSE IF Live(sc[s]).del THEN {NoMatch}
             ELSE MatchIn(Live, s) \ {Error}

\* When no event is on its way and class s neither waits nor is in work, its
\* pools are recorded as the live classes, clusters and secrets say: every
\* change that concerns a live class has queued it, and every failure again.
LiveScRecorded ==
    CacheSynced =>
        \A s \in StorageClass : Live(sc[s]) # None /\ s \notin scQ /\ scW.req # s
                                => Recorded(s) \in Wanted(s)

\* A class that is gone, and whose deletion has been processed, is in no entry.
DeadScForgotten ==
    CacheSynced =>
        \A s \in StorageClass : Live(sc[s]) = None /\ s \notin scQ /\ scW.req # s
                                => Recorded(s) = NoMatch

FscAtRest(f) == Synced(fsc[f]) /\ f \notin fscQ /\ fscW.req # f

HasEntry(f) == Live(cm) # None /\ Live(cm)[f] # None

\* A cluster that is not queued and not in work has its entry.
LiveFscListed ==
    Synced(cm) => \A f \in Cluster : Live(fsc[f]) # None /\ FscAtRest(f) => HasEntry(f)

\* A cluster that is gone, and whose deletion has been processed, has no entry.
DeadFscForgotten ==
    \A f \in Cluster : Live(fsc[f]) = None /\ FscAtRest(f) => ~HasEntry(f)

\* Only the deletion of the whole ConfigMap takes the entry of a cluster that
\* is there.
EntryKept ==
    [][\A f \in Cluster : HasEntry(f) /\ Live(fsc[f]) # None /\ Live(cm') # None
                          => HasEntry(f)']_vars

\* Class s can be matched: it is gone, or no outcome of the match is an error.
Matchable(s) == Live(sc[s]) = None \/ Error \notin MatchIn(Live, s)

\* Whatever the users did, in the end the ConfigMap has an entry for every
\* cluster that is there and has its secret, none for a cluster that is gone,
\* and the pools of every class that can be matched.
PoolsConverge ==
    <>[](/\ \A f \in Cluster : IF Live(fsc[f]) = None THEN ~HasEntry(f)
                               ELSE Live(sec[Live(fsc[f]).secret]) # None => HasEntry(f)
         /\ \A s \in StorageClass : Matchable(s) => Recorded(s) \in Wanted(s))
=============================================================================
