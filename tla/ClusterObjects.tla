--------------------------- MODULE ClusterObjects ---------------------------
(***************************************************************************)
(* The objects the reconciler keeps for the FlashSystemClusters: the        *)
(* exporter's Service, Deployment and ServiceMonitor, of which there is one *)
(* for all clusters, the ownership of the secrets, the default              *)
(* StorageClasses and the Prometheus rules; and the garbage collector of    *)
(* the API server, which deletes an object when all its owners are gone.    *)
(*                                                                         *)
(* An object is a log of versions (VersionLog); None: no such object.  An   *)
(* owner is known by its UID: a cluster that is deleted and created again   *)
(* has the name of the old one and another UID.                            *)
(*                                                                         *)
(* The Get of a step and the Create or Update that follows are one action:  *)
(* the API server accepts an Update only of the live version, so the copy   *)
(* of one that succeeds is still in the cache when it is sent.             *)
(*                                                                         *)
(* Left to PoolsConfigMap and ClusterStatus: the ConfigMap, the CSI CR and  *)
(* the status.                                                             *)
(***************************************************************************)
EXTENDS VersionLog

CONSTANTS
    Cluster,        \* names of FlashSystemClusters
    Secret,         \* names of their secrets
    SecretOf,       \* SecretOf[f]: the secret the spec of cluster f names
    ClassName,      \* names of default StorageClasses
    UserClasses,    \* the classes of these names the users may create
    Pool,           \* what the expected parameters of a class come from
    DefaultPools,   \* DefaultPools[f]: the values spec.defaultPool of cluster f may have
    Kind,           \* the kinds of the exporter's objects
    None,           \* absent
    Present,        \* the clusters that a former process has reconciled at the start
    OldKinds,       \* the kinds of which an older release left an object
    UserOps,        \* the kinds of steps the users may take
    MaxOps          \* bound on these steps, on restarts, and on the calls that
                    \* fail for no modelled reason

DefaultPool == [class : ClassName, pool : Pool]

ASSUME ObjectsConstants ==
    /\ SecretOf \in [Cluster -> Secret]
    /\ DefaultPools \in [Cluster -> SUBSET (DefaultPool \cup {None})]
    /\ None \notin DefaultPool /\ None \notin Cluster
    /\ OldKinds \subseteq Kind /\ Kind \subseteq {"service", "deployment", "monitor"}
    /\ Present \subseteq Cluster
    /\ UserOps \subseteq {"createFsc", "deleteFsc", "createSecret", "deleteSecret", "editObject",
                          "deleteObject", "createClass", "deleteClass", "editRule",
                          "deleteRule", "restart", "fault"}
    /\ MaxOps \in Nat

UID == Cluster \X Nat

\* fin: has the finalizer; del: is marked for deletion.
FscObject == [uid : UID, default : DefaultPool \cup {None}, fin : BOOLEAN, del : BOOLEAN]

\* An object and the owners it refers to; ok: its spec is the expected one.
Owned == [owners : SUBSET UID, ok : BOOLEAN]

\* A StorageClass: whether its provisioner is the block driver, and its parameters.
ClassObject == [block : BOOLEAN, pool : Pool]

ASSUME ObjectsNone == UserClasses \subseteq ClassObject /\ None \notin FscObject /\ None \notin Owned /\ None \notin ClassObject

VARIABLES
    fsc,     \* [Cluster -> versions of FlashSystemClusters]
    sec,     \* [Secret -> versions of secrets]
    obj,     \* [Kind -> versions of the exporter's objects]
    old,     \* the kinds of which there still is an object of an older release
    class,   \* [ClassName -> versions of default StorageClasses]
    rule,    \* [Cluster -> the live Prometheus rules]
    stray,   \* the clusters whose rule something has happened to that the
             \* operator is not told of (history)
    doomed,  \* the exporter's objects the garbage collector is about to delete
    queue,   \* names queued for the reconciler
    w,       \* the reconciler's worker
    ops      \* steps the users have taken, and mishaps

objects == <<fsc, sec, obj, old, class, rule, stray>>
vars == <<objects, doomed, queue, w, ops>>

\* inst: the cluster the worker has read; cur: whether it is still the live one.
WorkerPC == {"idle", "deleteClass", "finalizer", "secret", "class", "rule"} \cup Kind
Worker == [pc : WorkerPC, req : Cluster \cup {None}, inst : FscObject \cup {None}, cur : BOOLEAN]

TypeOK == /\ fsc \in [Cluster -> Log(FscObject \cup {None})]
          /\ sec \in [Secret -> Log(Owned \cup {None})]
          /\ obj \in [Kind -> Log(Owned \cup {None})]
          /\ old \subseteq OldKinds
          /\ class \in [ClassName -> Log(ClassObject \cup {None})]
          /\ rule \in [Cluster -> Owned \cup {None}]
          /\ stray \subseteq Cluster
          /\ doomed \subseteq Kind
          /\ queue \subseteq Cluster
          /\ w \in Worker
          /\ w.pc # "idle" => w.req \in Cluster /\ w.inst \in FscObject
          /\ ops \in 0..MaxOps

Idle == [pc |-> "idle", req |-> None, inst |-> None, cur |-> FALSE]

NewFsc(f, n, d) == [uid |-> <<f, n>>, default |-> d, fin |-> FALSE, del |-> FALSE]
OwnedBy(us) == [owners |-> us, ok |-> TRUE]

InitDefaultStorageClass(d) == [block |-> TRUE, pool |-> d.pool]

CachedFscs == {f \in Cluster : Cached(fsc[f]) # None}

(***************************************************************************)
(* The operator starts and finds what a former process of it has done for   *)
(* the clusters that are there: a secret belongs to one of the clusters     *)
(* that use it, a default class is the one of a cluster that names it.      *)
(***************************************************************************)
Init == /\ \E d \in [Present -> DefaultPool \cup {None}] :
              /\ \A f \in Present : d[f] \in DefaultPools[f]
              /\ fsc = [f \in Cluster |-> IF f \notin Present THEN <<None>>
                                         ELSE <<[NewFsc(f, 0, d[f]) EXCEPT !.fin = TRUE]>>]
              /\ class \in [ClassName -> {<<o>> : o \in ClassObject \cup {None}}]
              /\ \A n \in ClassName :
                    LET named == {g \in Present : d[g] # None /\ d[g].class = n}
                    IN  IF named = {} THEN class[n] = <<None>>
                        ELSE \E f \in named : class[n] = <<InitDefaultStorageClass(d[f])>>
        /\ \E first \in [Secret -> SUBSET Present] :
              /\ \A x \in Secret :
                    LET users == {g \in Present : SecretOf[g] = x}
                    IN  IF users = {} THEN first[x] = {} ELSE \E f \in users : first[x] = {f}
              /\ sec = [x \in Secret |-> <<OwnedBy(first[x] \X {0})>>]
        /\ obj = [k \in Kind |-> IF Present = {} THEN <<None>> ELSE <<OwnedBy(Present \X {0})>>]
        /\ rule = [f \in Cluster |-> IF f \notin Present THEN None ELSE OwnedBy({<<f, 0>>})]
        /\ stray = {}
        /\ old = OldKinds
        /\ doomed = {}
        /\ queue = CachedFscs
        /\ w = Idle
        /\ ops = 0

----------------------------------------------------------------------------
(* The API server.                                                         *)

\* An accepted write; one that changes nothing makes no new version.
Put(log, new) == IF new = Live(log) THEN log ELSE Append(log, new)

----------------------------------------------------------------------------
(* The worker of the reconciler.                                           *)

\* Reconcile returns; with an error the name is queued again.
Return(retry) ==
    /\ w' = Idle
    /\ queue' = IF retry THEN queue \cup {w.req} ELSE queue

Goto(pc) == w' = [w EXCEPT !.pc = pc] /\ UNCHANGED queue

\* Mutant of Start: a cluster that is not found is reconciled.
StartAnyway(f) ==
    LET inst == Cached(fsc[f])
    IN  /\ w.pc = "idle"
        /\ f \in queue
        /\ queue' = queue \ {f}
        /\ w' = [pc |-> IF inst = None THEN "secret" ELSE IF inst.del THEN "deleteClass"
                        ELSE IF inst.fin THEN "secret" ELSE "finalizer",
                 req |-> f, inst |-> inst, cur |-> Synced(fsc[f])]
        /\ UNCHANGED <<objects, doomed, ops>>

\* Get of the instance, and where reconcile goes from there.
Start(f) ==
    LET inst == Cached(fsc[f])
    IN  /\ w.pc = "idle"
        /\ f \in queue
        /\ queue' = queue \ {f}
        /\ w' = IF inst = None THEN Idle
                ELSE [pc |-> IF inst.del THEN "deleteClass" ELSE IF inst.fin THEN "secret" ELSE "finalizer",
                      req |-> f, inst |-> inst, cur |-> Synced(fsc[f])]
        /\ UNCHANGED <<objects, doomed, ops>>

\* Update of the instance: the finalizer is added, or it is taken off a
\* cluster marked for deletion, which the API server then drops; the
\* Status().Update that ends Reconcile does not find it.
UpdateFinalizer ==
    /\ w.pc = "finalizer"
    /\ \/ /\ w.cur /\ ~w.inst.del
          /\ LET new == [w.inst EXCEPT !.fin = TRUE]
             IN  /\ fsc' = [fsc EXCEPT ![w.req] = Append(@, new)]
                 /\ w' = [w EXCEPT !.pc = "secret", !.inst = new]
          /\ UNCHANGED queue
       \/ /\ w.cur /\ w.inst.del
          /\ fsc' = [fsc EXCEPT ![w.req] = Append(@, None)]
          /\ Return(TRUE)
       \/ /\ ~w.cur
          /\ Return(TRUE)
          /\ UNCHANGED fsc
    /\ UNCHANGED <<sec, obj, old, class, rule, stray, doomed, ops>>

\* After the secret come the Service, the Deployment and the ServiceMonitor, then
\* the default class.
FromMonitor == IF "monitor" \in Kind THEN "monitor" ELSE "class"
FromDeployment == IF "deployment" \in Kind THEN "deployment" ELSE FromMonitor
FromService == IF "service" \in Kind THEN "service" ELSE FromDeployment
NextPc == [service |-> FromDeployment, deployment |-> FromMonitor, monitor |-> "class"]

\* A secret that has an owner, whoever it is, is left alone.
ensureSecretOwnership ==
    LET x == SecretOf[w.req]
    IN  /\ w.pc = "secret"
        /\ \/ Cached(sec[x]) = None /\ Return(TRUE) /\ UNCHANGED sec
           \/ /\ Cached(sec[x]) # None
              /\ IF Cached(sec[x]).owners # {} THEN Goto(FromService) /\ UNCHANGED sec
                 ELSE IF ~Synced(sec[x]) THEN Return(TRUE) /\ UNCHANGED sec
                 ELSE /\ sec' = [sec EXCEPT ![x] = Append(@, [Live(@) EXCEPT !.owners = {w.inst.uid}])]
                      /\ Goto(FromService)
        /\ UNCHANGED <<fsc, obj, old, class, rule, stray, doomed, ops>>

\* The API server fills in the defaults of a Deployment and drops the string
\* of a Service's port, so these two never compare equal to what is expected.
AlwaysDiffers == {"service", "deployment"}

isOwnerExist(found) == w.inst.uid \in found.owners

\* updateExporterMetricsService, updateExporterDeployment and
\* updateExporterMetricsServiceMonitor send an Update.
Differs(k, found) == k \in AlwaysDiffers \/ ~found.ok \/ ~isOwnerExist(found)

\* Mutant of updateExporter: the owner is added only along with a change of the spec.
updateExporterSpec(k, found) ==
    IF found.ok THEN found ELSE OwnedBy(found.owners \cup {w.inst.uid})

updateExporter(k, found) == OwnedBy(found.owners \cup {w.inst.uid})

\* Mutant of CreateOrUpdate: the Update carries no resource version.
CreateOrUpdateBlindly(k) ==
    LET found == Cached(obj[k])
        Write(new) == obj' = [obj EXCEPT ![k] = Put(@, new)] /\ Goto(NextPc[k])
    IN  \/ found = None /\ Live(obj[k]) = None /\ Write(OwnedBy({w.inst.uid}))
        \/ found = None /\ Live(obj[k]) # None /\ Return(TRUE) /\ UNCHANGED obj
        \/ /\ found # None
           /\ IF Differs(k, found) THEN Write(updateExporter(k, found))
              ELSE Goto(NextPc[k]) /\ UNCHANGED obj

\* Get, then Create or Update: Create fails when there is an object the cache
\* has not seen yet, Update when the cache is behind.
CreateOrUpdate(k) ==
    LET found == Cached(obj[k])
        Write(new) == obj' = [obj EXCEPT ![k] = Put(@, new)] /\ Goto(NextPc[k])
    IN  \/ found = None /\ Live(obj[k]) = None /\ Write(OwnedBy({w.inst.uid}))
        \/ found = None /\ Live(obj[k]) # None /\ Return(TRUE) /\ UNCHANGED obj
        \/ /\ found # None
           /\ IF ~Differs(k, found) THEN Goto(NextPc[k]) /\ UNCHANGED obj
              ELSE IF Synced(obj[k]) THEN Write(updateExporter(k, found))
              ELSE Return(TRUE) /\ UNCHANGED obj

\* deleteDuplicatedService, deleteDuplicatedDeployment and
\* deleteDuplicatedServiceMonitor: the objects of an older release go; the
\* Delete of one that the cache still lists although it is gone is an error.
deleteDuplicated(k) == old' = old \ {k}
deleteDuplicatedFails(k) == k \in OldKinds \ old /\ UNCHANGED old

\* ensureExporterService, ensureExporterDeployment, ensureExporterServiceMonitor.
\* The Deployment needs the secret.
ensureExporter(k) ==
    /\ w.pc = k
    /\ \/ deleteDuplicatedFails(k) /\ Return(TRUE) /\ UNCHANGED obj
       \/ /\ deleteDuplicated(k)
          /\ IF k = "deployment" /\ Cached(sec[SecretOf[w.req]]) = None
             THEN Return(TRUE) /\ UNCHANGED obj
             ELSE CreateOrUpdate(k)
    /\ UNCHANGED <<fsc, sec, class, rule, stray, doomed, ops>>

compareDefaultStorageClass(found, expected) == found = expected

\* Mutant of ensureDefaultStorageClass: a class that exists is good enough.
ensureAnyStorageClass ==
    LET d == w.inst.default
    IN  /\ w.pc = "class"
        /\ \/ d = None /\ Goto("rule") /\ UNCHANGED class
           \/ d # None /\ Cached(class[d.class]) # None /\ Goto("rule") /\ UNCHANGED class
           \/ /\ d # None
              /\ Cached(class[d.class]) = None
              /\ IF Live(class[d.class]) # None THEN Return(TRUE) /\ UNCHANGED class
                 ELSE /\ class' = [class EXCEPT ![d.class] = Append(@, InitDefaultStorageClass(d))]
                      /\ Goto("rule")
        /\ UNCHANGED <<fsc, sec, obj, old, rule, stray, doomed, ops>>

\* A class of that name which is another one is an error; the user has to delete it.
ensureDefaultStorageClass ==
    LET d == w.inst.default
        expected == InitDefaultStorageClass(d)
    IN  /\ w.pc = "class"
        /\ \/ d = None /\ Goto("rule") /\ UNCHANGED class
           \/ /\ d # None
              /\ Cached(class[d.class]) # None
              /\ IF compareDefaultStorageClass(Cached(class[d.class]), expected)
                 THEN Goto("rule") ELSE Return(TRUE)
              /\ UNCHANGED class
           \/ /\ d # None
              /\ Cached(class[d.class]) = None
              /\ IF Live(class[d.class]) # None THEN Return(TRUE) /\ UNCHANGED class
                 ELSE class' = [class EXCEPT ![d.class] = Append(@, expected)] /\ Goto("rule")
        /\ UNCHANGED <<fsc, sec, obj, old, rule, stray, doomed, ops>>

\* The class of that name is deleted, whoever made it; Delete fails when it is
\* gone already.  The finalizer goes next.
deleteDefaultStorageClass ==
    LET d == w.inst.default
    IN  /\ w.pc = "deleteClass"
        /\ \/ d = None /\ Goto("finalizer") /\ UNCHANGED class
           \/ d # None /\ Cached(class[d.class]) = None /\ Goto("finalizer") /\ UNCHANGED class
           \/ /\ d # None
              /\ Cached(class[d.class]) # None
              /\ IF Live(class[d.class]) = None THEN Return(TRUE) /\ UNCHANGED class
                 ELSE class' = [class EXCEPT ![d.class] = Append(@, None)] /\ Goto("finalizer")
        /\ UNCHANGED <<fsc, sec, obj, old, rule, stray, doomed, ops>>

\* The rule of a cluster has the cluster's name and owner.
getPrometheusRules == OwnedBy({w.inst.uid})

\* Create first; if there is a rule, its spec is updated and its owner stays.
\* That goes through the cache, which may be behind: the Get or the Update
\* fails.  Status().Update, which comes last, fails from a stale copy of the
\* cluster.
CreateOrUpdatePrometheusRules ==
    LET found == rule[w.req]
        Write(new) ==
            /\ rule' = [rule EXCEPT ![w.req] = new]
            /\ stray' = IF new = getPrometheusRules THEN stray \ {w.req} ELSE stray
            /\ Return(~w.cur)
    IN  /\ w.pc = "rule"
        /\ \/ found = None /\ Write(getPrometheusRules)
           \/ found # None /\ Write([found EXCEPT !.ok = TRUE])
           \/ found # None /\ Return(TRUE) /\ UNCHANGED <<rule, stray>>
        /\ UNCHANGED <<fsc, sec, obj, old, class, doomed, ops>>

Work == \/ UpdateFinalizer \/ ensureSecretOwnership \/ \E k \in Kind : ensureExporter(k)
        \/ ensureDefaultStorageClass \/ deleteDefaultStorageClass
        \/ CreateOrUpdatePrometheusRules

\* A step of the users, or a mishap.
Disturb(op) == op \in UserOps /\ ops < MaxOps /\ ops' = ops + 1

\* Mutant of Fault: an error of the last step is only logged.
FaultLogged ==
    /\ Disturb("fault")
    /\ w.pc # "idle"
    /\ Return(w.pc # "rule")
    /\ UNCHANGED <<objects, doomed>>

\* A call of the worker fails.
Fault ==
    /\ Disturb("fault")
    /\ w.pc # "idle"
    /\ Return(TRUE)
    /\ UNCHANGED <<objects, doomed>>

----------------------------------------------------------------------------
(* The operator's process ends, and another one starts.                    *)

Reboot ==
    /\ fsc' = [f \in Cluster |-> <<Live(fsc[f])>>]
    /\ sec' = [x \in Secret |-> <<Live(sec[x])>>]
    /\ obj' = [k \in Kind |-> <<Live(obj[k])>>]
    /\ class' = [n \in ClassName |-> <<Live(class[n])>>]
    /\ queue' = {f \in Cluster : Live(fsc[f]) # None}
    /\ w' = Idle
    /\ UNCHANGED <<old, rule, stray, doomed>>

Restart == Disturb("restart") /\ Reboot

----------------------------------------------------------------------------
(* The watch events and their handlers.                                    *)

DeliverFsc(f) ==
    /\ ~Synced(fsc[f])
    /\ fsc' = [fsc EXCEPT ![f] = Tail(@)]
    /\ queue' = queue \cup {f}
    /\ UNCHANGED <<sec, obj, old, class, rule, stray, doomed, w, ops>>

SecretToClusterMapFunc(x) == {f \in CachedFscs : SecretOf[f] = x}

\* Mutant of DeliverSecret: the deletion of a secret is ignored.
DeliverSecretWrites(x) ==
    /\ ~Synced(sec[x])
    /\ sec' = [sec EXCEPT ![x] = Tail(@)]
    /\ queue' = IF sec[x][2] = None THEN queue ELSE queue \cup SecretToClusterMapFunc(x)
    /\ UNCHANGED <<fsc, obj, old, class, rule, stray, doomed, w, ops>>

DeliverSecret(x) ==
    /\ ~Synced(sec[x])
    /\ sec' = [sec EXCEPT ![x] = Tail(@)]
    /\ queue' = queue \cup SecretToClusterMapFunc(x)
    /\ UNCHANGED <<fsc, obj, old, class, rule, stray, doomed, w, ops>>

\* EnqueueRequestForOwner: the names of the owners before and after the change.
OwnerNames(o) == IF o = None THEN {} ELSE {u[1] : u \in o.owners}

DeliverObject(k) ==
    /\ ~Synced(obj[k])
    /\ obj' = [obj EXCEPT ![k] = Tail(@)]
    /\ queue' = queue \cup OwnerNames(Cached(obj[k])) \cup OwnerNames(obj[k][2])
    /\ UNCHANGED <<fsc, sec, old, class, rule, stray, doomed, w, ops>>

\* DefaultStorageClassToClusterMapperFunc, with RunDeletePredicate.  It follows
\* the pointer Spec.DefaultPool of every cluster: with one that is nil the
\* handler panics, which ends the process.
DeliverClass(n) ==
    LET deleted == class[n][2] = None
        default == {f \in CachedFscs : Cached(fsc[f]).default # None}
    IN  /\ ~Synced(class[n])
        /\ UNCHANGED ops
        /\ \/ deleted /\ default # CachedFscs /\ Reboot
           \/ /\ deleted => default = CachedFscs
              /\ class' = [class EXCEPT ![n] = Tail(@)]
              /\ queue' = IF ~deleted THEN queue
                          ELSE queue \cup {f \in default : Cached(fsc[f]).default.class = n}
              /\ UNCHANGED <<fsc, sec, obj, old, rule, stray, doomed, w>>

Deliver == \/ \E f \in Cluster : DeliverFsc(f)
           \/ \E x \in Secret : DeliverSecret(x)
           \/ \E k \in Kind : DeliverObject(k)
           \/ \E n \in ClassName : DeliverClass(n)

----------------------------------------------------------------------------
(* The garbage collector.  It looks for the owners of an object, and deletes *)
(* the object by its UID later, whatever owners it has by then.  Nobody adds *)
(* an owner to a secret that has one or to a rule: there it is one step.     *)

LiveUIDs == {Live(fsc[f]).uid : f \in {g \in Cluster : Live(fsc[g]) # None}}

Orphan(o) == o # None /\ o.owners # {} /\ o.owners \cap LiveUIDs = {}

GcSecret(x) ==
    /\ Orphan(Live(sec[x]))
    /\ sec' = [sec EXCEPT ![x] = Append(@, None)]
    /\ UNCHANGED <<fsc, obj, old, class, rule, stray, doomed, queue, w, ops>>

GcRule(f) ==
    /\ Orphan(rule[f])
    /\ rule' = [rule EXCEPT ![f] = None]
    /\ UNCHANGED <<fsc, sec, obj, old, class, stray, doomed, queue, w, ops>>

GcDecides(k) ==
    /\ Orphan(Live(obj[k]))
    /\ k \notin doomed
    /\ doomed' = doomed \cup {k}
    /\ UNCHANGED <<objects, queue, w, ops>>

PutObject(k, new) ==
    /\ obj' = [obj EXCEPT ![k] = Append(@, new)]
    /\ UNCHANGED <<fsc, sec, old, class, rule, stray, queue, w>>

GcDeletes(k) ==
    /\ k \in doomed
    /\ doomed' = doomed \ {k}
    /\ PutObject(k, None)
    /\ UNCHANGED ops

\* References to owners that are gone are dropped while another owner is there.
GcDropsOwners(k) ==
    LET o == Live(obj[k])
    IN  /\ o # None
        /\ o.owners \cap LiveUIDs \notin {{}, o.owners}
        /\ PutObject(k, [o EXCEPT !.owners = @ \cap LiveUIDs])
        /\ UNCHANGED <<doomed, ops>>

Gc == \/ \E x \in Secret : GcSecret(x)
      \/ \E f \in Cluster : GcRule(f)
      \/ \E k \in Kind : GcDecides(k) \/ GcDeletes(k) \/ GcDropsOwners(k)

----------------------------------------------------------------------------
(* The users.                                                              *)

UserPutsFsc(f, new) ==
    /\ fsc' = [fsc EXCEPT ![f] = Append(@, new)]
    /\ w' = [w EXCEPT !.cur = @ /\ w.req # f]
    /\ UNCHANGED <<sec, obj, old, class, rule, doomed, queue>>

\* There may still be the rule of a former cluster of that name.
CreateFsc(f) ==
    /\ Disturb("createFsc")
    /\ Live(fsc[f]) = None
    /\ stray' = IF rule[f] = None THEN stray ELSE stray \cup {f}
    /\ \E d \in DefaultPools[f] : UserPutsFsc(f, NewFsc(f, ops', d))

\* With a finalizer the cluster stays, marked, until the finalizer is gone.
DeleteFsc(f) ==
    /\ Disturb("deleteFsc")
    /\ Live(fsc[f]) # None
    /\ ~Live(fsc[f]).del
    /\ UserPutsFsc(f, IF Live(fsc[f]).fin THEN [Live(fsc[f]) EXCEPT !.del = TRUE] ELSE None)
    /\ UNCHANGED stray

UserPutsSecret(x, new) ==
    /\ sec' = [sec EXCEPT ![x] = Append(@, new)]
    /\ UNCHANGED <<fsc, obj, old, class, rule, stray, doomed, queue, w>>

CreateSecret(x) ==
    /\ Disturb("createSecret")
    /\ Live(sec[x]) = None
    /\ UserPutsSecret(x, OwnedBy({}))

DeleteSecret(x) ==
    /\ Disturb("deleteSecret")
    /\ Live(sec[x]) # None
    /\ UserPutsSecret(x, None)

DeleteObject(k) ==
    /\ Disturb("deleteObject")
    /\ Live(obj[k]) # None
    /\ PutObject(k, None)
    /\ doomed' = doomed \ {k}

EditObject(k) ==
    /\ Disturb("editObject")
    /\ Live(obj[k]) # None
    /\ Live(obj[k]).ok
    /\ PutObject(k, [Live(obj[k]) EXCEPT !.ok = FALSE])
    /\ UNCHANGED doomed

UserPutsClass(n, new) ==
    /\ class' = [class EXCEPT ![n] = Append(@, new)]
    /\ UNCHANGED <<fsc, sec, obj, old, rule, stray, doomed, queue, w>>

\* A class that happens to have the name of a default class.
CreateClass(n) ==
    /\ Disturb("createClass")
    /\ Live(class[n]) = None
    /\ \E new \in UserClasses : UserPutsClass(n, new)

DeleteClass(n) ==
    /\ Disturb("deleteClass")
    /\ Live(class[n]) # None
    /\ UserPutsClass(n, None)

\* Nobody watches the rules.
UserPutsRule(f, new) ==
    /\ rule[f] # None
    /\ rule' = [rule EXCEPT ![f] = new]
    /\ stray' = stray \cup {f}
    /\ UNCHANGED <<fsc, sec, obj, old, class, doomed, queue, w>>

DeleteRule(f) == Disturb("deleteRule") /\ UserPutsRule(f, None)

EditRule(f) == Disturb("editRule") /\ UserPutsRule(f, [rule[f] EXCEPT !.ok = FALSE])

Users == \/ \E f \in Cluster : CreateFsc(f) \/ DeleteFsc(f) \/ DeleteRule(f) \/ EditRule(f)
         \/ \E x \in Secret : CreateSecret(x) \/ DeleteSecret(x)
         \/ \E k \in Kind : DeleteObject(k) \/ EditObject(k)
         \/ \E n \in ClassName : CreateClass(n) \/ DeleteClass(n)

Next == \/ \E f \in Cluster : Start(f)
        \/ Work
        \/ Fault
        \/ Restart
        \/ Deliver
        \/ Gc
        \/ Users

Spec == Init /\ [][Next]_vars

----------------------------------------------------------------------------
(* Properties.                                                             *)

AtRest(f) == Synced(fsc[f]) /\ f \notin queue /\ w.req # f

\* A cluster that is there, to stay, and needs no work as far as the operator knows.
Settled(f) == Live(fsc[f]) # None /\ AtRest(f)

\* A settled cluster has its exporter: the Service, the Deployment and the
\* ServiceMonitor exist as they should be and belong to this very cluster, so
\* that the end of another cluster does not take them away, whatever the users
\* and the garbage collector have done to them; nothing is left of an older
\* release.
ExporterSettled ==
    \A f \in Cluster, k \in Kind :
        Settled(f) /\ Synced(obj[k]) =>
            /\ Live(obj[k]) # None
            /\ Live(obj[k]).ok
            /\ Live(fsc[f]).uid \in Live(obj[k]).owners
            /\ k \notin old

\* While an object of the exporter is there, no Update, from however stale a
\* copy, takes away the reference to an owner that is a live cluster.
OwnersKept ==
    [][\A k \in Kind : Live(obj[k]) # None /\ Live(obj'[k]) # None =>
          Live(obj[k]).owners \cap LiveUIDs \subseteq Live(obj'[k]).owners]_vars

\* A settled cluster has its secret, and the secret has an owner.  When the
\* garbage collector takes the secret along with the first of its clusters, the
\* others do not stay silently without one.
SecretSettled ==
    \A f \in Cluster :
        LET log == sec[SecretOf[f]]
        IN  Settled(f) /\ Synced(log) => Live(log) # None /\ Live(log).owners # {}

\* A settled cluster with a default pool has its default class, also after the
\* deletion of another cluster or a user has taken it.
DefaultClassSettled ==
    \A f \in Cluster :
        Settled(f) /\ Live(fsc[f]).default # None =>
            LET log == class[Live(fsc[f]).default.class]
            IN  Synced(log) => Live(log) = InitDefaultStorageClass(Live(fsc[f]).default)

\* A settled cluster has its Prometheus rule, as it should be and its own, so
\* that the garbage collector does not take it.  This holds unless something
\* has happened to the rule that no watch reports: a user has deleted or edited
\* it, or the cluster was created while the rule of a former one of its name
\* was there; then it holds again once a reconcile, whatever it is for, has made
\* the rule what it should be.
RuleSettled ==
    \A f \in Cluster \ stray : Settled(f) => rule[f] = OwnedBy({Live(fsc[f]).uid})
=============================================================================
