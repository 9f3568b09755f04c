---------------------------- MODULE ObjectsProofs ---------------------------
(***************************************************************************)
(* Proofs about ClusterObjects, for any clusters, secrets, classes, steps   *)
(* of users and of the garbage collector, restarts and faults: the types,   *)
(* that no owner is lost, and that a cluster at rest has its exporter, its  *)
(* secret, its default class and its Prometheus rule.                       *)
(***************************************************************************)
EXTENDS ClusterObjects, VersionLogProofs

\* A cluster's object, whose UID tells its name.
FscOf(f) == {o \in FscObject : o.uid[1] = f}

\* A copy that is still current is the live cluster; its UID is of its name.
CopyLive == w.pc # "idle" =>
                /\ w.inst \in FscOf(w.req)
                /\ w.cur => Live(fsc[w.req]) = w.inst

IdleWorker == w.pc = "idle" => w.req = None

UidsNamed == \A f \in Cluster : fsc[f] \in Log(FscOf(f) \cup {None})

TInv == TypeOK /\ CopyLive /\ IdleWorker /\ UidsNamed

----------------------------------------------------------------------------
(* What is done for a cluster stays done, or an event is on its way that    *)
(* queues the cluster again.                                               *)

SecretDone(f) ==
    LET log == sec[SecretOf[f]]
    IN  Synced(log) => Live(log) # None /\ Live(log).owners # {}

\* An object that has the owner u, in the cache or on its way there.
ExporterDone(k, u) ==
    /\ k \notin old
    /\ \/ Cached(obj[k]) # None /\ Cached(obj[k]).ok /\ u \in Cached(obj[k]).owners
       \/ \E j \in 2..Len(obj[k]) : obj[k][j] # None /\ u \in obj[k][j].owners

\* The class is there, or its deletion is on its way to the cache.
ClassDone(d) ==
    d # None => LET log == class[d.class]
                IN  \/ Live(log) = InitDefaultStorageClass(d)
                    \/ \E j \in 2..Len(log) : log[j] = None

\* A class is not changed: it is deleted and created.
ClassAlternates ==
    \A n \in ClassName : \A j \in 1..Len(class[n]) - 1 : None \in {class[n][j], class[n][j + 1]}

\* Everything is done for a cluster at rest, and none at rest is marked for deletion.
RestDone ==
    \A f \in Cluster : Settled(f) =>
        LET o == Live(fsc[f])
        IN  /\ ~o.del
            /\ SecretDone(f)
            /\ \A k \in Kind : ExporterDone(k, o.uid)
            /\ ClassDone(o.default)

AfterKind == [service    |-> {"deployment", "monitor", "class", "rule"},
              deployment |-> {"monitor", "class", "rule"},
              monitor    |-> {"class", "rule"}]

\* What is behind the worker is done, unless its cluster is queued again.
WorkDone ==
    w.pc # "idle" /\ w.req \notin queue =>
        /\ Cached(fsc[w.req]) # None /\ Cached(fsc[w.req]).default = w.inst.default
        /\ w.pc \in Kind \cup {"class", "rule"} => SecretDone(w.req)
        /\ \A k \in Kind : w.pc \in AfterKind[k] => ExporterDone(k, w.inst.uid)
        /\ w.pc = "rule" => ClassDone(w.inst.default)

DInv == ClassAlternates /\ RestDone /\ WorkDone

----------------------------------------------------------------------------
(* A finalizer keeps a cluster, and with it its UID.                       *)

\* A version with a finalizer that is not marked for deletion.
Staying(o) == o # None /\ o.fin /\ ~o.del

\* While the cache may still see such a version, the cluster is there.
Kept(o, f) == Live(fsc[f]) # None /\ Live(fsc[f]).uid = o.uid /\ Live(fsc[f]).fin

CacheKept == \A f \in Cluster : \A i \in 1..Len(fsc[f]) : Staying(fsc[f][i]) => Kept(fsc[f][i], f)

WorkerKept ==
    /\ w.pc \in Kind \cup {"secret", "class", "rule"} => Staying(w.inst) /\ Kept(w.inst, w.req)
    /\ w.pc = "deleteClass" => w.inst.del
    /\ w.pc = "finalizer" => w.inst.del \/ ~w.inst.fin
    /\ w.pc # "idle" /\ w.cur /\ w.inst.del => Synced(fsc[w.req])

\* A rule that nothing has happened to belongs to the cluster that is there.
RuleOwned ==
    \A f \in Cluster \ stray :
        rule[f] # None /\ Live(fsc[f]) # None => rule[f] = OwnedBy({Live(fsc[f]).uid})

RuleThere == \A f \in Cluster \ stray : Settled(f) => rule[f] # None

FInv == CacheKept /\ WorkerKept

RInv == RuleOwned /\ RuleThere

----------------------------------------------------------------------------
(* The types, in parts.                                                    *)

LogTypes == /\ fsc \in [Cluster -> Log(FscObject \cup {None})]
            /\ sec \in [Secret -> Log(Owned \cup {None})]
            /\ obj \in [Kind -> Log(Owned \cup {None})]
            /\ class \in [ClassName -> Log(ClassObject \cup {None})]

PlainTypes == /\ old \subseteq OldKinds
              /\ rule \in [Cluster -> Owned \cup {None}]
              /\ stray \subseteq Cluster
              /\ doomed \subseteq Kind
              /\ queue \subseteq Cluster
              /\ ops \in 0..MaxOps

WorkerTypes == w \in Worker /\ (w.pc # "idle" => w.req \in Cluster /\ w.inst \in FscObject)

\* TypeOK is the conjunction of its parts.
LEMMA TypeParts == TypeOK <=> LogTypes /\ WorkerTypes /\ PlainTypes
BY DEF TypeOK, LogTypes, WorkerTypes, PlainTypes

\* The same after a step.
LEMMA TypePartsPrime == TypeOK' <=> LogTypes' /\ WorkerTypes' /\ PlainTypes'
BY DEF TypeOK, LogTypes, WorkerTypes, PlainTypes

\* The worker that waits.
LEMMA IdleType == Idle \in Worker /\ Idle.pc = "idle" /\ Idle.req = None
BY DEF Idle, Worker, WorkerPC

\* What OwnedBy makes.
LEMMA OwnedByType ==
    ASSUME NEW us \in SUBSET UID
    PROVE  OwnedBy(us) \in Owned /\ OwnedBy(us).owners = us /\ OwnedBy(us).ok = TRUE
BY DEF OwnedBy, Owned

\* The order of the kinds.
LEMMA KindsFollow ==
    /\ FromService \in Kind \cup {"class"}
    /\ \A k \in Kind : FromService \notin AfterKind[k]
    /\ \A k \in Kind : NextPc[k] \in Kind \cup {"class"}
    /\ \A j, k \in Kind : NextPc[k] \in AfterKind[j] => j = k \/ k \in AfterKind[j]
    /\ \A k \in Kind : "secret" \notin AfterKind[k] /\ "finalizer" \notin AfterKind[k] /\ "deleteClass" \notin AfterKind[k]
    /\ \A k \in Kind : "class" \in AfterKind[k]
<1>1. \A k \in Kind : k \in {"service", "deployment", "monitor"}
  BY ObjectsConstants
<1>2. FromService \in Kind \cup {"class"}
  BY DEF FromService, FromDeployment, FromMonitor
<1>3. ASSUME NEW k \in Kind PROVE FromService \notin AfterKind[k]
  <2>1. CASE k = "service"
    BY <2>1 DEF FromService, AfterKind
  <2>2. CASE k = "deployment"
    BY <2>2 DEF FromService, FromDeployment, AfterKind
  <2>3. CASE k = "monitor"
    BY <2>3 DEF FromService, FromDeployment, FromMonitor, AfterKind
  <2> QED BY <1>1, <2>1, <2>2, <2>3
<1>4. ASSUME NEW k \in Kind PROVE NextPc[k] \in Kind \cup {"class"}
  BY <1>1 DEF NextPc, FromDeployment, FromMonitor
<1>5. ASSUME NEW j \in Kind, NEW k \in Kind, NextPc[k] \in AfterKind[j] PROVE j = k \/ k \in AfterKind[j]
  <2>1. CASE k = "service"
    BY <1>1, <1>5, <2>1 DEF NextPc, FromDeployment, FromMonitor, AfterKind
  <2>2. CASE k = "deployment"
    BY <1>1, <1>5, <2>2 DEF NextPc, FromMonitor, AfterKind
  <2>3. CASE k = "monitor"
    BY <1>1, <1>5, <2>3 DEF NextPc, AfterKind
  <2> QED BY <1>1, <2>1, <2>2, <2>3
<1>6. \A k \in Kind : "secret" \notin AfterKind[k] /\ "finalizer" \notin AfterKind[k] /\ "deleteClass" \notin AfterKind[k]
  BY <1>1 DEF AfterKind
<1>7. \A k \in Kind : "class" \in AfterKind[k]
  BY <1>1 DEF AfterKind
<1> QED BY <1>2, <1>3, <1>4, <1>5, <1>6, <1>7

----------------------------------------------------------------------------
(* What the steps write.                                                   *)

\* No exporter object that stays loses an owner that is a live cluster.
OwnersStay ==
    \A k \in Kind : Live(obj[k]) # None /\ Live(obj'[k]) # None =>
        Live(obj[k]).owners \cap LiveUIDs \subseteq Live(obj'[k]).owners

\* Secrets, exporter objects and classes get at most one new version.
ObjectsGrow ==
    /\ sec' \in [Secret -> Log(Owned \cup {None})]
    /\ \A x \in Secret : Grows(sec'[x], sec[x])
    /\ obj' \in [Kind -> Log(Owned \cup {None})]
    /\ \A k \in Kind : Grows(obj'[k], obj[k])
    /\ OwnersStay
    /\ class' \in [ClassName -> Log(ClassObject \cup {None})]
    /\ \A n \in ClassName : Grows(class'[n], class[n])
    /\ ClassAlternates => ClassAlternates'
    /\ old' \subseteq old

\* No step that leaves them alone disturbs them.
LEMMA StillGrow ==
    ASSUME LogTypes
    PROVE  /\ UNCHANGED sec => /\ sec' \in [Secret -> Log(Owned \cup {None})]
                               /\ \A x \in Secret : Grows(sec'[x], sec[x])
           /\ UNCHANGED obj => /\ obj' \in [Kind -> Log(Owned \cup {None})]
                               /\ \A k \in Kind : Grows(obj'[k], obj[k])
                               /\ OwnersStay
           /\ UNCHANGED class => /\ class' \in [ClassName -> Log(ClassObject \cup {None})]
                                 /\ \A n \in ClassName : Grows(class'[n], class[n])
                                 /\ (ClassAlternates => ClassAlternates')
BY DEF LogTypes, Grows, ClassAlternates, OwnersStay

\* A class is created where there is none, or deleted.
LEMMA ClassPut ==
    ASSUME LogTypes, NEW n \in ClassName, NEW v \in ClassObject \cup {None},
           Puts(class', class, n, v), None \in {Live(class[n]), v}
    PROVE  /\ class' \in [ClassName -> Log(ClassObject \cup {None})]
           /\ \A m \in ClassName : Grows(class'[m], class[m])
           /\ ClassAlternates => ClassAlternates'
           /\ Live(class'[n]) = v /\ ~Synced(class'[n])
<1> DEFINE V == ClassObject \cup {None}
<1>1. class \in [ClassName -> Log(V)] /\ v \in V
  BY DEF LogTypes
<1> HIDE DEF V
<1>2. /\ class' \in [ClassName -> Log(V)]
      /\ class'[n] = Append(class[n], v)
      /\ Live(class'[n]) = v /\ ~Synced(class'[n])
      /\ \A m \in ClassName \ {n} : class'[m] = class[m]
      /\ \A m \in ClassName : Grows(class'[m], class[m])
  BY <1>1, PutFamily
<1>3. /\ Len(class[n]) \in Nat \ {0} /\ Len(class'[n]) = Len(class[n]) + 1
      /\ \A i \in 1..Len(class[n]) : class'[n][i] = class[n][i]
      /\ class'[n][Len(class[n]) + 1] = v
      /\ class[n][Len(class[n])] = Live(class[n])
  BY <1>1, <1>2, LogVersions DEF Log, Live
<1>4. ASSUME ClassAlternates PROVE ClassAlternates'
  <2> SUFFICES ASSUME NEW m \in ClassName, NEW j \in 1..Len(class'[m]) - 1
               PROVE  None \in {class'[m][j], class'[m][j + 1]}
    BY DEF ClassAlternates
  <2>1. CASE m # n
    BY <1>2, <1>4, <2>1 DEF ClassAlternates
  <2>2. CASE m = n /\ j = Len(class[n])
    BY <1>3, <2>2
  <2>3. CASE m = n /\ j # Len(class[n])
    <3>1. j \in 1..Len(class[n]) - 1
      BY <1>3, <2>3
    <3>2. class'[m][j] = class[n][j] /\ class'[m][j + 1] = class[n][j + 1]
      BY <1>3, <2>3, <3>1
    <3> QED BY <1>4, <3>1, <3>2 DEF ClassAlternates
  <2> QED BY <2>1, <2>2, <2>3
<1> QED BY <1>2, <1>4 DEF V

\* ensureSecretOwnership fails, or leaves a secret that has an owner.
LEMMA SecretStep ==
    ASSUME TInv, ensureSecretOwnership, NEW f, f = w.req
    PROVE  /\ ObjectsGrow
           /\ Return(TRUE) \/ (Goto(FromService) /\ SecretDone(f)')
<1>1. LogTypes /\ WorkerTypes
  BY TypeParts DEF TInv
<1> DEFINE x == SecretOf[w.req]
<1>2. w.req \in Cluster /\ x \in Secret /\ w.inst.uid \in UID
  BY <1>1, ObjectsConstants DEF WorkerTypes, ensureSecretOwnership, FscObject
<1>3. sec[x] \in Log(Owned \cup {None}) /\ Live(sec[x]) \in Owned \cup {None} /\ Cached(sec[x]) \in Owned \cup {None}
  BY <1>1, <1>2, LogVersions DEF LogTypes
<1>4. UNCHANGED <<obj, old, class>>
  BY DEF ensureSecretOwnership
<1>5. CASE UNCHANGED sec
  <2>1. ObjectsGrow
    BY <1>1, <1>4, <1>5, StillGrow DEF ObjectsGrow
  <2>2. CASE Return(TRUE)
    BY <2>1, <2>2
  <2>3. CASE Cached(sec[x]) # None /\ Cached(sec[x]).owners # {} /\ Goto(FromService)
    <3>1. SecretDone(f)'
      BY <1>3, <1>5, <2>3, SyncedIsLive DEF SecretDone, Goto
    <3> QED BY <2>1, <2>3, <3>1
  <2>4. CASE sec' = [sec EXCEPT ![x] = Append(@, [Live(@) EXCEPT !.owners = {w.inst.uid}])]
    <3>1. sec'[x] = Append(sec[x], [Live(sec[x]) EXCEPT !.owners = {w.inst.uid}])
      BY <1>1, <1>2, <2>4 DEF LogTypes
    <3>2. Len(sec'[x]) # Len(sec[x])
      BY <1>3, <3>1 DEF Log
    <3> QED BY <1>5, <3>2
  <2> QED BY <2>2, <2>3, <2>4 DEF ensureSecretOwnership
<1>6. CASE /\ Cached(sec[x]) # None /\ Synced(sec[x])
           /\ sec' = [sec EXCEPT ![x] = Append(sec[x], [Live(sec[x]) EXCEPT !.owners = {w.inst.uid}])]
           /\ Goto(FromService)
  <2> DEFINE V == Owned \cup {None}
             new == [Live(sec[x]) EXCEPT !.owners = {w.inst.uid}]
  <2>1. new \in V
    <3>1. Live(sec[x]) \in Owned
      BY <1>3, <1>6, SyncedIsLive
    <3> QED BY <1>2, <3>1 DEF Owned
  <2>2. Puts(sec', sec, x, new) /\ sec \in [Secret -> Log(V)]
    BY <1>1, <1>6 DEF Puts, LogTypes
  <2> HIDE DEF V, new, x
  <2>5. sec' \in [Secret -> Log(V)] /\ ~Synced(sec'[x]) /\ \A y \in Secret : Grows(sec'[y], sec[y])
    BY <1>2, <2>1, <2>2, PutFamily
  <2> USE DEF V, x
  <2>3. w'.req = w.req
    BY <1>1, <1>6 DEF Goto, WorkerTypes, Worker
  <2>4. SecretDone(f)'
    BY <2>5, <2>3 DEF SecretDone
  <2> QED BY <1>1, <1>4, <1>6, <2>5, <2>4, StillGrow DEF ObjectsGrow
<1> QED BY <1>5, <1>6 DEF ensureSecretOwnership

\* A write to an exporter's object.
LEMMA ObjectPut ==
    ASSUME LogTypes, NEW k \in Kind, NEW v \in Owned \cup {None}, Puts(obj', obj, k, v)
    PROVE  /\ obj' \in [Kind -> Log(Owned \cup {None})]
           /\ \A j \in Kind : Grows(obj'[j], obj[j])
           /\ obj'[k] = Append(obj[k], v) /\ Live(obj'[k]) = v /\ ~Synced(obj'[k])
           /\ \A j \in Kind \ {k} : obj'[j] = obj[j]
<1> DEFINE V == Owned \cup {None}
<1>1. obj \in [Kind -> Log(V)] /\ v \in V
  BY DEF LogTypes
<1> HIDE DEF V
<1>2. /\ obj' \in [Kind -> Log(V)]
      /\ \A j \in Kind : Grows(obj'[j], obj[j])
      /\ obj'[k] = Append(obj[k], v) /\ Live(obj'[k]) = v /\ ~Synced(obj'[k])
      /\ \A j \in Kind \ {k} : obj'[j] = obj[j]
  BY <1>1, PutFamily
<1> QED BY <1>2 DEF V

\* A write to a secret.
LEMMA SecretPut ==
    ASSUME LogTypes, NEW x \in Secret, NEW v \in Owned \cup {None}, Puts(sec', sec, x, v)
    PROVE  /\ sec' \in [Secret -> Log(Owned \cup {None})]
           /\ \A y \in Secret : Grows(sec'[y], sec[y])
<1> DEFINE V == Owned \cup {None}
<1>1. sec \in [Secret -> Log(V)] /\ v \in V
  BY DEF LogTypes
<1> HIDE DEF V
<1>2. sec' \in [Secret -> Log(V)] /\ \A y \in Secret : Grows(sec'[y], sec[y])
  BY <1>1, PutFamily
<1> QED BY <1>2 DEF V

\* A write that ensures an object of the exporter makes the cluster an owner of it.
LEMMA ExporterPut ==
    ASSUME LogTypes, NEW k \in Kind, NEW v \in Owned, NEW u \in v.owners, Puts(obj', obj, k, v),
           old' = old \ {k}, UNCHANGED <<sec, class>>,
           Live(obj[k]) # None => Live(obj[k]).owners \subseteq v.owners
    PROVE  ObjectsGrow /\ ExporterDone(k, u)'
<1>1. v \in Owned \cup {None} /\ v # None
  BY ObjectsNone
<1>2. /\ obj' \in [Kind -> Log(Owned \cup {None})]
      /\ \A j \in Kind : Grows(obj'[j], obj[j])
      /\ obj'[k] = Append(obj[k], v) /\ Live(obj'[k]) = v /\ ~Synced(obj'[k])
      /\ \A j \in Kind \ {k} : obj'[j] = obj[j]
  BY <1>1, ObjectPut
<1>3. OwnersStay
  BY <1>2 DEF OwnersStay
<1>4. Len(obj'[k]) \in 2..Len(obj'[k]) /\ obj'[k][Len(obj'[k])] = v
  <2>1. Len(obj'[k]) \in Nat \ {0}
    BY <1>2, LogVersions
  <2> QED BY <1>2, <2>1 DEF Live, Synced
<1>5. ExporterDone(k, u)'
  BY <1>1, <1>4 DEF ExporterDone
<1> QED BY <1>2, <1>3, <1>5, StillGrow DEF ObjectsGrow

\* ensureExporter fails, or leaves an object that belongs to the cluster.
LEMMA ExporterStep ==
    ASSUME TInv, NEW k \in Kind, ensureExporter(k), NEW u, u = w.inst.uid
    PROVE  /\ ObjectsGrow
           /\ Return(TRUE) \/ (Goto(NextPc[k]) /\ ExporterDone(k, u)')
<1>1. LogTypes /\ WorkerTypes /\ w.pc = k /\ UNCHANGED <<sec, class>>
  BY TypeParts DEF TInv, ensureExporter
<1> DEFINE found == Cached(obj[k])
<1>2. w.req \in Cluster /\ u \in UID
  BY <1>1, ObjectsConstants DEF WorkerTypes, FscObject
<1>3. obj[k] \in Log(Owned \cup {None}) /\ Live(obj[k]) \in Owned \cup {None} /\ found \in Owned \cup {None}
  BY <1>1, LogVersions DEF LogTypes
<1>4. old' \subseteq old
  BY DEF ensureExporter, deleteDuplicated, deleteDuplicatedFails
<1>5. CASE Return(TRUE) /\ UNCHANGED obj
  BY <1>1, <1>4, <1>5, StillGrow DEF ObjectsGrow
<1>6. CASE /\ found # None /\ ~Differs(k, found) /\ Goto(NextPc[k]) /\ UNCHANGED obj
           /\ deleteDuplicated(k)
  <2>1. ExporterDone(k, u)'
    BY <1>6 DEF ExporterDone, Differs, isOwnerExist, deleteDuplicated
  <2> QED BY <1>1, <1>4, <1>6, <2>1, StillGrow DEF ObjectsGrow
<1>7. CASE /\ Live(obj[k]) = None /\ obj' = [obj EXCEPT ![k] = Put(obj[k], OwnedBy({u}))]
           /\ Goto(NextPc[k]) /\ deleteDuplicated(k)
  <2>0. {u} \in SUBSET UID
    BY <1>2
  <2>1. OwnedBy({u}) \in Owned /\ u \in OwnedBy({u}).owners
    BY <2>0, OwnedByType
  <2>2. Puts(obj', obj, k, OwnedBy({u}))
    BY <1>7, <2>1, ObjectsNone DEF Puts, Put
  <2> HIDE DEF found
  <2>3. ObjectsGrow /\ ExporterDone(k, u)'
    BY <1>1, <1>7, <2>1, <2>2, ExporterPut DEF deleteDuplicated
  <2> QED BY <1>7, <2>3
<1>8. CASE /\ found # None /\ Synced(obj[k])
           /\ obj' = [obj EXCEPT ![k] = Put(obj[k], OwnedBy(found.owners \cup {u}))]
           /\ Goto(NextPc[k]) /\ deleteDuplicated(k)
  <2>1. found = Live(obj[k]) /\ found \in Owned /\ found.owners \subseteq UID
    BY <1>3, <1>8, SyncedIsLive DEF Owned
  <2> DEFINE new == OwnedBy(found.owners \cup {u})
  <2>2. new \in Owned /\ new.owners = found.owners \cup {u} /\ new.ok = TRUE
    BY <1>2, <2>1, OwnedByType
  <2>3. CASE new = Live(obj[k])
    <3>1. UNCHANGED obj
      BY <1>1, <1>8, <2>3 DEF Put, LogTypes
    <3>2. ExporterDone(k, u)'
      BY <1>8, <2>1, <2>2, <2>3, <3>1 DEF ExporterDone, deleteDuplicated
    <3> QED BY <1>1, <1>4, <1>8, <3>1, <3>2, StillGrow DEF ObjectsGrow
  <2>4. CASE new # Live(obj[k])
    <3>1. Puts(obj', obj, k, new)
      BY <1>8, <2>4 DEF Puts, Put
    <3>2. u \in new.owners /\ Live(obj[k]).owners \subseteq new.owners
      BY <2>1, <2>2
    <3> HIDE DEF new, found
    <3>3. ObjectsGrow /\ ExporterDone(k, u)'
      BY <1>1, <1>8, <2>2, <3>1, <3>2, ExporterPut DEF deleteDuplicated
    <3> QED BY <1>8, <3>3
  <2> QED BY <2>3, <2>4
<1>9. CASE deleteDuplicated(k) /\ CreateOrUpdate(k)
  BY <1>5, <1>6, <1>7, <1>8, <1>9 DEF CreateOrUpdate, updateExporter
<1> QED BY <1>5, <1>9 DEF ensureExporter

\* ensureDefaultStorageClass fails, or finds the class or makes it.
LEMMA ClassStep ==
    ASSUME TInv, ensureDefaultStorageClass, NEW d, d = w.inst.default
    PROVE  /\ ObjectsGrow
           /\ Return(TRUE) \/ (Goto("rule") /\ (ClassAlternates => ClassDone(d)'))
<1>1. LogTypes /\ WorkerTypes /\ w.pc = "class" /\ UNCHANGED <<sec, obj, old>>
  BY TypeParts DEF TInv, ensureDefaultStorageClass
<1>2. w.req \in Cluster /\ d \in DefaultPool \cup {None}
  BY <1>1, ObjectsConstants DEF WorkerTypes, FscObject
<1> DEFINE log == class[d.class]
           expected == InitDefaultStorageClass(d)
<1>3. ASSUME d # None
      PROVE  d.class \in ClassName /\ log \in Log(ClassObject \cup {None}) /\ expected \in ClassObject
  BY <1>1, <1>2, <1>3 DEF LogTypes, DefaultPool, InitDefaultStorageClass, ClassObject
<1>4. CASE UNCHANGED class /\ Return(TRUE)
  BY <1>1, <1>4, StillGrow DEF ObjectsGrow
<1>5. CASE d = None /\ Goto("rule") /\ UNCHANGED class
  BY <1>1, <1>5, StillGrow DEF ObjectsGrow, ClassDone
<1>6. CASE d # None /\ Cached(log) = expected /\ Goto("rule") /\ UNCHANGED class
  <2>1. expected # None /\ Cached(log) = log[1]
    BY <1>3, <1>6, ObjectsNone DEF Cached, Log
  <2>2. CASE Synced(log)
    <3>1. Live(log) = expected
      BY <1>3, <1>6, <2>2, SyncedIsLive
    <3> QED BY <1>1, <1>6, <3>1, StillGrow DEF ObjectsGrow, ClassDone
  <2>3. CASE ~Synced(log)
    <3>0. 1 \in 1..Len(log) - 1 /\ 2 \in 2..Len(log)
      BY <1>3, <1>6, <2>3, SecondVersion
    <3>3. d.class \in ClassName
      BY <1>3, <1>6
    <3>1. ClassAlternates => None \in {log[1], log[1 + 1]}
      BY <3>0, <3>3 DEF ClassAlternates
    <3>2. ClassAlternates => log[2] = None
      BY <1>6, <2>1, <3>1
    <3> QED BY <1>1, <1>6, <3>0, <3>2, StillGrow DEF ObjectsGrow, ClassDone
  <2> QED BY <2>2, <2>3
<1>7. CASE /\ d # None /\ Live(log) = None /\ Goto("rule")
           /\ class' = [class EXCEPT ![d.class] = Append(@, expected)]
  <2>1. Puts(class', class, d.class, expected)
    BY <1>7 DEF Puts
  <2>2. expected \in ClassObject \cup {None} /\ d.class \in ClassName /\ None \in {Live(log), expected}
    BY <1>3, <1>7
  <2> HIDE DEF expected
  <2>3. /\ class' \in [ClassName -> Log(ClassObject \cup {None})]
        /\ \A m \in ClassName : Grows(class'[m], class[m])
        /\ ClassAlternates => ClassAlternates'
        /\ Live(class'[d.class]) = expected
    BY <1>1, <2>1, <2>2, ClassPut
  <2> QED BY <1>1, <1>7, <2>3, StillGrow DEF ObjectsGrow, ClassDone, expected
<1> QED BY <1>4, <1>5, <1>6, <1>7 DEF ensureDefaultStorageClass, compareDefaultStorageClass

\* deleteDefaultStorageClass fails, or goes on to the finalizer.
LEMMA DeleteClassStep ==
    ASSUME TInv, deleteDefaultStorageClass
    PROVE  ObjectsGrow /\ (Return(TRUE) \/ Goto("finalizer"))
<1>1. LogTypes /\ WorkerTypes /\ w.pc = "deleteClass" /\ UNCHANGED <<sec, obj, old>>
  BY TypeParts DEF TInv, deleteDefaultStorageClass
<1> DEFINE d == w.inst.default
<1>2. CASE UNCHANGED class /\ (Return(TRUE) \/ Goto("finalizer"))
  BY <1>1, <1>2, StillGrow DEF ObjectsGrow
<1>3. CASE d # None /\ class' = [class EXCEPT ![d.class] = Append(@, None)] /\ Goto("finalizer")
  <2>1. Puts(class', class, d.class, None)
    BY <1>3 DEF Puts
  <2>2. d.class \in ClassName
    BY <1>1, <1>3, ObjectsConstants DEF WorkerTypes, FscObject, DefaultPool
  <2> HIDE DEF d
  <2>3. None \in ClassObject \cup {None} /\ None \in {Live(class[d.class]), None}
    OBVIOUS
  <2>4. /\ class' \in [ClassName -> Log(ClassObject \cup {None})]
        /\ \A m \in ClassName : Grows(class'[m], class[m])
        /\ ClassAlternates => ClassAlternates'
    BY <1>1, <2>1, <2>2, <2>3, ClassPut
  <2> QED BY <1>1, <1>3, <2>4, StillGrow DEF ObjectsGrow
<1> QED BY <1>2, <1>3 DEF deleteDefaultStorageClass

\* What these do to the rules.
RuleQuietly ==
    \/ UNCHANGED <<rule, stray>>
    \/ \E f \in Cluster : Orphan(rule[f]) /\ rule' = [rule EXCEPT ![f] = None] /\ stray' = stray
    \/ \E f \in Cluster, o \in Owned \cup {None} :
          rule' = [rule EXCEPT ![f] = o] /\ stray' = stray \cup {f}

\* The garbage collector's steps and the users' steps that write no cluster.
Quiet ==
    /\ ObjectsGrow
    /\ UNCHANGED <<fsc, queue, w>>
    /\ doomed' \subseteq Kind
    /\ ops' \in 0..MaxOps
    /\ RuleQuietly

\* The bound on the disturbances is kept.
LEMMA DisturbOps ==
    ASSUME NEW op, Disturb(op), ops \in 0..MaxOps
    PROVE  ops' \in 0..MaxOps /\ ops' \in Nat
BY ObjectsConstants DEF Disturb

\* Writes to secrets.
LEMMA SecretQuiet ==
    ASSUME TInv, NEW x \in Secret, GcSecret(x) \/ CreateSecret(x) \/ DeleteSecret(x)
    PROVE  Quiet
<1>1. LogTypes /\ PlainTypes
  BY TypeParts DEF TInv
<1>2. UNCHANGED <<fsc, obj, old, class, rule, stray, doomed, queue, w>> /\ ops' \in 0..MaxOps
  <2>1. CASE GcSecret(x)
    BY <1>1, <2>1 DEF GcSecret, PlainTypes
  <2>2. CASE CreateSecret(x) \/ DeleteSecret(x)
    BY <1>1, <2>2, DisturbOps DEF CreateSecret, DeleteSecret, UserPutsSecret, PlainTypes
  <2> QED BY <2>1, <2>2
<1>3. \E v \in Owned \cup {None} : Puts(sec', sec, x, v)
  <2>1. None \in Owned \cup {None} /\ OwnedBy({}) \in Owned \cup {None}
    BY OwnedByType
  <2>2. Puts(sec', sec, x, None) \/ Puts(sec', sec, x, OwnedBy({}))
    BY DEF GcSecret, CreateSecret, DeleteSecret, UserPutsSecret, Puts
  <2> QED BY <2>1, <2>2
<1>4. sec' \in [Secret -> Log(Owned \cup {None})] /\ \A y \in Secret : Grows(sec'[y], sec[y])
  BY <1>1, <1>3, SecretPut
<1>5. ObjectsGrow
  BY <1>1, <1>2, <1>4, StillGrow DEF ObjectsGrow
<1> QED BY <1>1, <1>2, <1>5 DEF Quiet, RuleQuietly, PlainTypes

\* Writes to classes.
LEMMA ClassQuiet ==
    ASSUME TInv, NEW n \in ClassName, CreateClass(n) \/ DeleteClass(n)
    PROVE  Quiet
<1>1. LogTypes /\ PlainTypes
  BY TypeParts DEF TInv
<1>2. UNCHANGED <<fsc, sec, obj, old, rule, stray, doomed, queue, w>> /\ ops' \in 0..MaxOps
  BY <1>1, DisturbOps DEF CreateClass, DeleteClass, UserPutsClass, PlainTypes
<1>3. PICK v \in ClassObject \cup {None} : Puts(class', class, n, v) /\ None \in {Live(class[n]), v}
  BY ObjectsNone DEF CreateClass, DeleteClass, UserPutsClass, Puts
<1>4. /\ class' \in [ClassName -> Log(ClassObject \cup {None})]
      /\ \A m \in ClassName : Grows(class'[m], class[m])
      /\ ClassAlternates => ClassAlternates'
  BY <1>1, <1>3, ClassPut
<1>5. ObjectsGrow
  BY <1>1, <1>2, <1>4, StillGrow DEF ObjectsGrow
<1> QED BY <1>1, <1>2, <1>5 DEF Quiet, RuleQuietly, PlainTypes

\* Writes to the exporter's objects that are not the operator's, and the plans to do so.
LEMMA ObjectQuiet ==
    ASSUME TInv, NEW k \in Kind,
           GcDecides(k) \/ GcDeletes(k) \/ GcDropsOwners(k) \/ DeleteObject(k) \/ EditObject(k)
    PROVE  Quiet
<1>1. LogTypes /\ PlainTypes
  BY TypeParts DEF TInv
<1>2. UNCHANGED <<fsc, sec, old, class, rule, stray, queue, w>> /\ ops' \in 0..MaxOps /\ doomed' \subseteq Kind
  <2>1. CASE GcDecides(k)
    BY <1>1, <2>1 DEF GcDecides, PlainTypes, objects
  <2>2. CASE GcDeletes(k) \/ GcDropsOwners(k)
    BY <1>1, <2>2 DEF GcDeletes, GcDropsOwners, PutObject, PlainTypes
  <2>3. CASE DeleteObject(k) \/ EditObject(k)
    BY <1>1, <2>3, DisturbOps DEF DeleteObject, EditObject, PutObject, PlainTypes
  <2> QED BY <2>1, <2>2, <2>3
<1> DEFINE o == Live(obj[k])
<1>3. o \in Owned \cup {None}
  BY <1>1, LogVersions DEF LogTypes
<1>4. CASE UNCHANGED obj
  BY <1>1, <1>2, <1>4, StillGrow DEF ObjectsGrow, Quiet, RuleQuietly
<1>5. ASSUME NEW v \in Owned \cup {None}, Puts(obj', obj, k, v),
             o # None /\ v # None => o.owners \cap LiveUIDs \subseteq v.owners
      PROVE  Quiet
  <2>1. /\ obj' \in [Kind -> Log(Owned \cup {None})]
        /\ \A j \in Kind : Grows(obj'[j], obj[j])
        /\ Live(obj'[k]) = v
        /\ \A j \in Kind \ {k} : obj'[j] = obj[j]
    BY <1>1, <1>5, ObjectPut
  <2>2. OwnersStay
    BY <1>5, <2>1 DEF OwnersStay
  <2> QED BY <1>1, <1>2, <2>1, <2>2, StillGrow DEF ObjectsGrow, Quiet, RuleQuietly
<1>6. CASE GcDecides(k)
  BY <1>4, <1>6 DEF GcDecides, objects
<1>7. CASE GcDeletes(k) \/ DeleteObject(k)
  <2>1. Puts(obj', obj, k, None)
    BY <1>7 DEF GcDeletes, DeleteObject, PutObject, Puts
  <2> QED BY <1>5, <2>1
<1>8. CASE GcDropsOwners(k)
  <2> DEFINE v == [o EXCEPT !.owners = o.owners \cap LiveUIDs]
  <2>1. o \in Owned /\ v \in Owned /\ v.owners = o.owners \cap LiveUIDs
    BY <1>3, <1>8 DEF GcDropsOwners, Owned
  <2>2. Puts(obj', obj, k, v)
    BY <1>8 DEF GcDropsOwners, PutObject, Puts
  <2> HIDE DEF v
  <2> QED BY <1>5, <2>1, <2>2
<1>9. CASE EditObject(k)
  <2> DEFINE v == [o EXCEPT !.ok = FALSE]
  <2>1. o \in Owned /\ v \in Owned /\ v.owners = o.owners
    BY <1>3, <1>9 DEF EditObject, Owned
  <2>2. Puts(obj', obj, k, v)
    BY <1>9 DEF EditObject, PutObject, Puts
  <2> HIDE DEF v
  <2> QED BY <1>5, <2>1, <2>2
<1> QED BY <1>6, <1>7, <1>8, <1>9

\* The garbage collector deletes a rule, or a user deletes or edits one.
LEMMA RuleQuiet ==
    ASSUME TInv, NEW f \in Cluster, GcRule(f) \/ DeleteRule(f) \/ EditRule(f)
    PROVE  Quiet
<1>1. LogTypes /\ PlainTypes
  BY TypeParts DEF TInv
<1>2. UNCHANGED <<fsc, sec, obj, old, class, doomed, queue, w>>
  BY DEF GcRule, DeleteRule, EditRule, UserPutsRule
<1>3. ops' \in 0..MaxOps
  BY <1>1, DisturbOps DEF GcRule, DeleteRule, EditRule, PlainTypes
<1>4. ObjectsGrow
  BY <1>1, <1>2, StillGrow DEF ObjectsGrow
<1>5. RuleQuietly
  <2>1. CASE GcRule(f)
    BY <2>1 DEF GcRule, RuleQuietly
  <2>2. CASE DeleteRule(f)
    BY <2>2 DEF DeleteRule, UserPutsRule, RuleQuietly
  <2>3. CASE EditRule(f)
    <3> DEFINE o == [rule[f] EXCEPT !.ok = FALSE]
    <3>1. rule[f] \in Owned
      BY <1>1, <2>3 DEF EditRule, UserPutsRule, PlainTypes
    <3>2. o \in Owned \cup {None}
      BY <3>1 DEF Owned
    <3>3. rule' = [rule EXCEPT ![f] = o] /\ stray' = stray \cup {f}
      BY <2>3 DEF EditRule, UserPutsRule
    <3> HIDE DEF o
    <3> QED BY <3>2, <3>3 DEF RuleQuietly
  <2> QED BY <2>1, <2>2, <2>3
<1> QED BY <1>1, <1>2, <1>3, <1>4, <1>5 DEF Quiet, PlainTypes

----------------------------------------------------------------------------
(* What is done stays done.                                                *)

\* A write to a secret is an event on its way.
LEMMA SecretGrows ==
    ASSUME LogTypes, ObjectsGrow, NEW f \in Cluster, SecretDone(f)
    PROVE  SecretDone(f)'
<1> DEFINE x == SecretOf[f]
<1>1. x \in Secret /\ sec[x] \in Log(Owned \cup {None}) /\ Grows(sec'[x], sec[x])
  BY ObjectsConstants DEF LogTypes, ObjectsGrow
<1>2. CASE sec'[x] = sec[x]
  BY <1>2 DEF SecretDone
<1>3. ASSUME NEW v, sec'[x] = Append(sec[x], v) PROVE SecretDone(f)'
  <2>1. Len(sec[x]) \in Nat \ {0} /\ Len(sec'[x]) = Len(sec[x]) + 1
    BY <1>1, <1>3, AppendIs
  <2>2. ~Synced(sec'[x])
    BY <2>1 DEF Synced
  <2> QED BY <2>2 DEF SecretDone
<1> QED BY <1>1, <1>2, <1>3 DEF Grows

\* A version that has the owner stays in the log.
LEMMA ExporterGrows ==
    ASSUME LogTypes, ObjectsGrow, NEW k \in Kind, NEW u, ExporterDone(k, u)
    PROVE  ExporterDone(k, u)'
<1>1. obj[k] \in Log(Owned \cup {None}) /\ Grows(obj'[k], obj[k]) /\ k \notin old'
  BY DEF LogTypes, ObjectsGrow, ExporterDone
<1>2. CASE obj'[k] = obj[k]
  BY <1>1, <1>2 DEF ExporterDone
<1>3. ASSUME NEW v, obj'[k] = Append(obj[k], v) PROVE ExporterDone(k, u)'
  <2>1. /\ Len(obj[k]) \in Nat \ {0} /\ Len(obj'[k]) = Len(obj[k]) + 1
        /\ \A i \in 1..Len(obj[k]) : obj'[k][i] = obj[k][i]
    BY <1>1, <1>3, AppendIs
  <2>2. Cached(obj'[k]) = Cached(obj[k])
    BY <1>1, <1>3, AppendHead
  <2>3. CASE Cached(obj[k]) # None /\ Cached(obj[k]).ok /\ u \in Cached(obj[k]).owners
    BY <1>1, <2>2, <2>3 DEF ExporterDone
  <2>4. ASSUME NEW j \in 2..Len(obj[k]), obj[k][j] # None /\ u \in obj[k][j].owners PROVE ExporterDone(k, u)'
    <3>1. j \in 2..Len(obj'[k]) /\ j \in 1..Len(obj[k])
      BY <2>1
    <3>2. obj'[k][j] = obj[k][j]
      BY <2>1, <3>1
    <3> QED BY <1>1, <2>4, <3>1, <3>2 DEF ExporterDone
  <2> QED BY <2>3, <2>4 DEF ExporterDone
<1> QED BY <1>1, <1>2, <1>3 DEF Grows

\* The only write to a class that is there is its deletion.
LEMMA ClassGrows ==
    ASSUME LogTypes, ObjectsGrow, ClassAlternates, NEW d \in DefaultPool \cup {None}, ClassDone(d)
    PROVE  ClassDone(d)'
<1> SUFFICES ASSUME d # None PROVE ClassDone(d)'
  BY DEF ClassDone
<1> DEFINE n == d.class
           expected == InitDefaultStorageClass(d)
<1>0. n \in ClassName /\ d.pool \in Pool
  BY DEF DefaultPool
<1>1. class[n] \in Log(ClassObject \cup {None}) /\ Grows(class'[n], class[n]) /\ ClassAlternates'
  BY <1>0 DEF LogTypes, ObjectsGrow
<1>4. expected # None
  <2>1. expected \in ClassObject
    BY <1>0 DEF InitDefaultStorageClass, ClassObject
  <2> HIDE DEF expected
  <2> QED BY <2>1, ObjectsNone
<1>2. CASE class'[n] = class[n]
  BY <1>2 DEF ClassDone
<1>3. ASSUME NEW v, class'[n] = Append(class[n], v) PROVE ClassDone(d)'
  <2>1. /\ Len(class[n]) \in Nat \ {0} /\ Len(class'[n]) = Len(class[n]) + 1
        /\ \A i \in 1..Len(class[n]) : class'[n][i] = class[n][i]
        /\ class'[n][Len(class[n]) + 1] = v
    <3> DEFINE V == ClassObject \cup {None}
    <3>1. class[n] \in Log(V)
      BY <1>1
    <3> HIDE DEF V, n, expected
    <3> QED BY <1>3, <3>1, AppendIs
  <2>2. CASE Live(class[n]) = expected
    <3>1. Len(class[n]) \in 1..Len(class'[n]) - 1 /\ Len(class[n]) + 1 \in 2..Len(class'[n])
      BY <2>1
    <3>2. None \in {class'[n][Len(class[n])], class'[n][Len(class[n]) + 1]}
      BY <1>0, <1>1, <3>1 DEF ClassAlternates
    <3>3. class'[n][Len(class[n])] = expected
      BY <2>1, <2>2 DEF Live
    <3>4. class'[n][Len(class[n]) + 1] = None
      BY <1>4, <3>2, <3>3
    <3> QED BY <3>1, <3>4 DEF ClassDone
  <2>3. ASSUME NEW j \in 2..Len(class[n]), class[n][j] = None PROVE ClassDone(d)'
    <3>1. j \in 2..Len(class'[n]) /\ j \in 1..Len(class[n])
      BY <2>1
    <3>2. class'[n][j] = None
      BY <2>1, <2>3, <3>1
    <3> QED BY <3>1, <3>2 DEF ClassDone
  <2> QED BY <2>2, <2>3 DEF ClassDone
<1> QED BY <1>1, <1>2, <1>3 DEF Grows

\* A step keeps what is done for a cluster f with UID u and default pool d.
Keeps(f, u, d) ==
    /\ SecretDone(f) => SecretDone(f)'
    /\ \A k \in Kind : ExporterDone(k, u) => ExporterDone(k, u)'
    /\ ClassDone(d) => ClassDone(d)'

\* Writes do.
LEMMA GrowKeeps ==
    ASSUME LogTypes, ObjectsGrow, ClassAlternates, NEW f \in Cluster, NEW u, NEW d \in DefaultPool \cup {None}
    PROVE  Keeps(f, u, d)
<1>1. SecretDone(f) => SecretDone(f)'
  BY SecretGrows
<1>2. \A k \in Kind : ExporterDone(k, u) => ExporterDone(k, u)'
  BY ExporterGrows
<1>3. ClassDone(d) => ClassDone(d)'
  BY ClassGrows
<1> QED BY <1>1, <1>2, <1>3 DEF Keeps

----------------------------------------------------------------------------
(* The types, and the copy of the worker, step by step.                    *)

\* A write to a cluster.
LEMMA FscPut ==
    ASSUME TInv, NEW f \in Cluster, NEW v \in FscOf(f) \cup {None}, Puts(fsc', fsc, f, v)
    PROVE  /\ fsc' \in [Cluster -> Log(FscObject \cup {None})]
           /\ fsc'[f] = Append(fsc[f], v) /\ Live(fsc'[f]) = v /\ ~Synced(fsc'[f])
           /\ \A g \in Cluster \ {f} : fsc'[g] = fsc[g]
           /\ \A g \in Cluster : Cached(fsc'[g]) = Cached(fsc[g])
           /\ UidsNamed'
<1> DEFINE V == FscObject \cup {None}
           U == FscOf(f) \cup {None}
<1>1. fsc \in [Cluster -> Log(V)] /\ v \in V /\ v \in U /\ fsc[f] \in Log(U)
  BY TypeParts DEF TInv, LogTypes, UidsNamed, FscOf
<1> HIDE DEF V, U
<1>2. /\ fsc' \in [Cluster -> Log(V)]
      /\ fsc'[f] = Append(fsc[f], v) /\ Live(fsc'[f]) = v /\ ~Synced(fsc'[f])
      /\ \A g \in Cluster \ {f} : fsc'[g] = fsc[g]
      /\ \A g \in Cluster : Cached(fsc'[g]) = Cached(fsc[g])
  BY <1>1, PutFamily
<1>3. fsc'[f] \in Log(U)
  BY <1>1, <1>2, LogAppend
<1>4. UidsNamed'
  BY <1>2, <1>3 DEF UidsNamed, TInv, U
<1> QED BY <1>2, <1>4 DEF V

\* What all versions of a cluster have in common.
LEMMA FscVersions ==
    ASSUME TInv, NEW f \in Cluster
    PROVE  /\ fsc[f] \in Log(FscObject \cup {None}) /\ fsc[f] \in Log(FscOf(f) \cup {None})
           /\ Live(fsc[f]) \in FscOf(f) \cup {None} /\ Cached(fsc[f]) \in FscOf(f) \cup {None}
           /\ FscOf(f) \subseteq FscObject
<1>1. fsc[f] \in Log(FscObject \cup {None}) /\ fsc[f] \in Log(FscOf(f) \cup {None})
  BY TypeParts DEF TInv, LogTypes, UidsNamed
<1>2. Live(fsc[f]) \in FscOf(f) \cup {None} /\ Cached(fsc[f]) \in FscOf(f) \cup {None}
  <2> DEFINE U == FscOf(f) \cup {None}
  <2>1. fsc[f] \in Log(U)
    BY <1>1
  <2> HIDE DEF U
  <2>2. Live(fsc[f]) \in U /\ Cached(fsc[f]) \in U
    BY <2>1, LogVersions
  <2> QED BY <2>2 DEF U
<1> QED BY <1>1, <1>2 DEF FscOf

\* The worker's steps that write no cluster, and its failures.
LEMMA WorkTypes ==
    ASSUME TInv, w.pc # "idle", ObjectsGrow, UNCHANGED fsc, rule' \in [Cluster -> Owned \cup {None}] /\ stray' \subseteq Cluster,
           doomed' \subseteq Kind, ops' \in 0..MaxOps,
           \/ \E b \in BOOLEAN : Return(b)
           \/ \E pc \in WorkerPC \ {"idle"} : Goto(pc)
    PROVE  TInv'
<1>1. LogTypes /\ WorkerTypes /\ PlainTypes /\ w.req \in Cluster
  BY TypeParts DEF TInv, WorkerTypes
<1>2. LogTypes'
  BY <1>1 DEF LogTypes, ObjectsGrow
<1>3. UidsNamed'
  BY DEF TInv, UidsNamed
<1>4. old' \subseteq OldKinds
  BY <1>1 DEF PlainTypes, ObjectsGrow
<1>5. CASE \E b \in BOOLEAN : Return(b)
  <2>1. w' = Idle /\ queue' \subseteq Cluster
    BY <1>1, <1>5 DEF Return, PlainTypes
  <2>2. WorkerTypes' /\ IdleWorker' /\ CopyLive'
    BY <2>1, IdleType DEF WorkerTypes, IdleWorker, CopyLive
  <2> QED BY <1>2, <1>3, <1>4, <2>1, <2>2, TypePartsPrime DEF TInv, PlainTypes
<1>6. CASE \E pc \in WorkerPC \ {"idle"} : Goto(pc)
  <2>1. PICK pc \in WorkerPC \ {"idle"} : w' = [w EXCEPT !.pc = pc] /\ queue' = queue
    BY <1>6 DEF Goto
  <2>2. /\ w' \in Worker /\ w'.pc = pc /\ w'.req = w.req /\ w'.inst = w.inst /\ w'.cur = w.cur
    BY <1>1, <2>1 DEF WorkerTypes, Worker
  <2>3. WorkerTypes' /\ IdleWorker' /\ CopyLive'
    BY <1>1, <2>1, <2>2 DEF TInv, WorkerTypes, IdleWorker, CopyLive
  <2> QED BY <1>1, <1>2, <1>3, <1>4, <2>1, <2>3, TypePartsPrime DEF TInv, PlainTypes
<1> QED BY <1>5, <1>6

\* Steps that touch neither the clusters nor the worker.
LEMMA QuietTypes ==
    ASSUME TInv, Quiet
    PROVE  TInv'
<1>1. LogTypes /\ WorkerTypes /\ PlainTypes
  BY TypeParts DEF TInv
<1>2. LogTypes' /\ WorkerTypes'
  BY <1>1 DEF LogTypes, ObjectsGrow, Quiet, WorkerTypes
<1>3. UidsNamed' /\ CopyLive' /\ IdleWorker'
  BY DEF TInv, UidsNamed, CopyLive, IdleWorker, Quiet
<1>4. rule' \in [Cluster -> Owned \cup {None}] /\ stray' \subseteq Cluster
  BY <1>1 DEF Quiet, RuleQuietly, PlainTypes
<1>5. PlainTypes'
  BY <1>1, <1>4 DEF Quiet, RuleQuietly, PlainTypes, ObjectsGrow
<1> QED BY <1>2, <1>3, <1>5, TypePartsPrime DEF TInv

\* The worker reads the cache.
LEMMA StartTypes ==
    ASSUME TInv, NEW f \in Cluster, Start(f)
    PROVE  TInv'
<1>1. LogTypes /\ WorkerTypes /\ PlainTypes /\ UNCHANGED <<objects, doomed, ops>>
  BY TypeParts DEF TInv, Start
<1>2. LogTypes' /\ UidsNamed'
  BY <1>1 DEF TInv, LogTypes, UidsNamed, objects
<1>3. PlainTypes'
  BY <1>1 DEF Start, PlainTypes, objects
<1> DEFINE inst == Cached(fsc[f])
<1>4. CASE w' = Idle
  <2>1. WorkerTypes' /\ IdleWorker' /\ CopyLive'
    BY <1>4, IdleType DEF WorkerTypes, IdleWorker, CopyLive
  <2> QED BY <1>2, <1>3, <2>1, TypePartsPrime DEF TInv
<1>5. ASSUME NEW pc \in {"deleteClass", "finalizer", "secret"}, inst # None,
             w' = [pc |-> pc, req |-> f, inst |-> inst, cur |-> Synced(fsc[f])]
      PROVE  TInv'
  <2>1. inst \in FscOf(f) /\ inst \in FscObject
    BY <1>5, FscVersions
  <2>2. w'.pc = pc /\ w'.req = f /\ w'.inst = inst /\ w'.cur = Synced(fsc[f]) /\ w'.pc # "idle"
    BY <1>5
  <2>3. Synced(fsc[f]) \in BOOLEAN
    BY DEF Synced
  <2>4. w' \in Worker
    BY <1>5, <2>1, <2>3 DEF Worker, WorkerPC
  <2>5. WorkerTypes'
    BY <2>1, <2>2, <2>4 DEF WorkerTypes
  <2>6. Synced(fsc[f]) => Live(fsc[f]) = inst
    BY FscVersions, SyncedIsLive
  <2>7. fsc'[f] = fsc[f]
    BY <1>1 DEF objects
  <2>8. CopyLive' /\ IdleWorker'
    BY <2>1, <2>2, <2>6, <2>7 DEF CopyLive, IdleWorker
  <2> QED BY <1>2, <1>3, <2>5, <2>8, TypePartsPrime DEF TInv
<1> QED BY <1>4, <1>5 DEF Start

\* Steps that leave the logs alone except those of the clusters.
LEMMA StillObjects ==
    ASSUME LogTypes, UNCHANGED <<sec, obj, old, class>>
    PROVE  ObjectsGrow
BY StillGrow DEF ObjectsGrow

\* What UpdateFinalizer does to the cluster and the worker.
LEMMA FinalizerCases ==
    ASSUME TInv, UpdateFinalizer
    PROVE  \/ /\ w.cur /\ ~w.inst.del
              /\ \E new \in FscOf(w.req) :
                    /\ new.uid = w.inst.uid /\ new.default = w.inst.default /\ new.fin = TRUE /\ ~new.del
                    /\ Puts(fsc', fsc, w.req, new)
                    /\ w' \in Worker /\ w'.pc = "secret" /\ w'.req = w.req /\ w'.inst = new /\ w'.cur = w.cur
              /\ UNCHANGED queue
           \/ w.cur /\ w.inst.del /\ Puts(fsc', fsc, w.req, None) /\ Return(TRUE)
           \/ ~w.cur /\ UNCHANGED fsc /\ Return(TRUE)
<1>1. WorkerTypes /\ w.pc = "finalizer" /\ w.req \in Cluster /\ w.inst \in FscOf(w.req)
  BY TypeParts DEF TInv, CopyLive, WorkerTypes, UpdateFinalizer
<1>2. CASE ~w.cur
  BY <1>2 DEF UpdateFinalizer
<1>3. CASE w.cur /\ w.inst.del
  BY <1>3 DEF UpdateFinalizer, Puts
<1>4. CASE w.cur /\ ~w.inst.del
  <2> DEFINE new == [w.inst EXCEPT !.fin = TRUE]
  <2>1. fsc' = [fsc EXCEPT ![w.req] = Append(@, new)] /\ w' = [w EXCEPT !.pc = "secret", !.inst = new] /\ queue' = queue
    BY <1>4 DEF UpdateFinalizer
  <2>2. new \in FscObject /\ new.uid = w.inst.uid /\ new.default = w.inst.default /\ new.fin = TRUE /\ new.del = w.inst.del
    BY <1>1 DEF FscOf, FscObject
  <2>3. new \in FscOf(w.req)
    BY <1>1, <2>2 DEF FscOf
  <2>4. Puts(fsc', fsc, w.req, new)
    BY <2>1 DEF Puts
  <2> HIDE DEF new
  <2>5. w' \in Worker /\ w'.pc = "secret" /\ w'.req = w.req /\ w'.inst = new /\ w'.cur = w.cur
    BY <1>1, <2>1, <2>2 DEF WorkerTypes, Worker, WorkerPC
  <2> QED BY <1>4, <2>1, <2>2, <2>3, <2>4, <2>5
<1> QED BY <1>2, <1>3, <1>4

\* The worker writes its cluster.
LEMMA FinalizerTypes ==
    ASSUME TInv, UpdateFinalizer
    PROVE  TInv'
<1>1. LogTypes /\ WorkerTypes /\ PlainTypes /\ UNCHANGED <<sec, obj, old, class, rule, stray, doomed, ops>>
  BY TypeParts DEF TInv, UpdateFinalizer
<1>2. w.pc # "idle" /\ w.req \in Cluster
  BY <1>1 DEF UpdateFinalizer, WorkerTypes
<1>3. CASE UNCHANGED fsc /\ Return(TRUE)
  <2>1. ObjectsGrow /\ rule' \in [Cluster -> Owned \cup {None}] /\ stray' \subseteq Cluster /\ doomed' \subseteq Kind /\ ops' \in 0..MaxOps
    BY <1>1, StillObjects DEF PlainTypes
  <2> QED BY <1>2, <1>3, <2>1, WorkTypes
<1>4. CASE Puts(fsc', fsc, w.req, None) /\ Return(TRUE)
  <2>1. fsc' \in [Cluster -> Log(FscObject \cup {None})] /\ UidsNamed'
    BY <1>2, <1>4, FscPut
  <2>2. WorkerTypes' /\ IdleWorker' /\ CopyLive'
    BY <1>4, IdleType DEF Return, WorkerTypes, IdleWorker, CopyLive
  <2>3. LogTypes' /\ PlainTypes'
    BY <1>1, <1>2, <1>4, <2>1 DEF LogTypes, PlainTypes, Return
  <2> QED BY <2>1, <2>2, <2>3, TypePartsPrime DEF TInv
<1>5. ASSUME NEW new \in FscOf(w.req), Puts(fsc', fsc, w.req, new), UNCHANGED queue,
             w' \in Worker, w'.pc = "secret", w'.req = w.req, w'.inst = new
      PROVE  TInv'
  <2>1. fsc' \in [Cluster -> Log(FscObject \cup {None})] /\ UidsNamed' /\ Live(fsc'[w.req]) = new
    BY <1>2, <1>5, FscPut
  <2>2. WorkerTypes' /\ IdleWorker' /\ CopyLive'
    BY <1>2, <1>5, <2>1 DEF WorkerTypes, IdleWorker, CopyLive, FscOf
  <2>3. LogTypes' /\ PlainTypes'
    BY <1>1, <1>5, <2>1 DEF LogTypes, PlainTypes
  <2> QED BY <2>1, <2>2, <2>3, TypePartsPrime DEF TInv
<1> QED BY <1>3, <1>4, <1>5, FinalizerCases

\* What the users write, and that the worker's copy is stale then.
LEMMA UserFscCases ==
    ASSUME TInv, NEW f \in Cluster, CreateFsc(f) \/ DeleteFsc(f)
    PROVE  /\ UNCHANGED <<sec, obj, old, class, rule, doomed, queue>> /\ ops' \in 0..MaxOps
           /\ stray \subseteq stray' /\ stray' \subseteq Cluster
           /\ w' \in Worker /\ w'.pc = w.pc /\ w'.req = w.req /\ w'.inst = w.inst /\ w'.cur = (w.cur /\ w.req # f)
           /\ \E v \in FscOf(f) \cup {None} :
                 /\ Puts(fsc', fsc, f, v)
                 /\ \/ /\ Live(fsc[f]) = None /\ v # None /\ ~v.fin
                       /\ f \in stray' \/ rule[f] = None
                    \/ /\ Live(fsc[f]) # None /\ Live(fsc[f]).fin
                       /\ v # None /\ v.uid = Live(fsc[f]).uid /\ v.fin /\ v.del
                    \/ Live(fsc[f]) # None /\ ~Live(fsc[f]).fin /\ v = None
<1>1. WorkerTypes /\ PlainTypes
  BY TypeParts DEF TInv
<1>2. UNCHANGED <<sec, obj, old, class, rule, doomed, queue>> /\ w' = [w EXCEPT !.cur = w.cur /\ w.req # f]
  BY DEF CreateFsc, DeleteFsc, UserPutsFsc
<1>3. ops' \in 0..MaxOps /\ ops' \in Nat
  BY <1>1, DisturbOps DEF CreateFsc, DeleteFsc, PlainTypes
<1>0. stray \subseteq stray' /\ stray' \subseteq Cluster
  BY <1>1 DEF CreateFsc, DeleteFsc, PlainTypes
<1>4. w.cur \in BOOLEAN
  BY <1>1 DEF WorkerTypes, Worker
<1>5. (w.cur /\ w.req # f) \in BOOLEAN
  OBVIOUS
<1>6. w' \in Worker /\ w'.pc = w.pc /\ w'.req = w.req /\ w'.inst = w.inst /\ w'.cur = (w.cur /\ w.req # f)
  BY <1>1, <1>2, <1>5 DEF WorkerTypes, Worker
<1>7. CASE CreateFsc(f)
  <2>1. PICK d \in DefaultPools[f] : fsc' = [fsc EXCEPT ![f] = Append(@, NewFsc(f, ops', d))]
    BY <1>7 DEF CreateFsc, UserPutsFsc
  <2> DEFINE v == NewFsc(f, ops', d)
  <2>2. d \in DefaultPool \cup {None}
    BY <2>1, ObjectsConstants
  <2>3. v \in FscObject /\ v.uid = <<f, ops'>> /\ ~v.fin
    BY <1>3, <2>2 DEF NewFsc, FscObject, UID
  <2>4. v \in FscOf(f)
    BY <2>3 DEF FscOf
  <2>5. v # None
    BY <2>3, ObjectsNone
  <2>6. Puts(fsc', fsc, f, v)
    BY <2>1 DEF Puts
  <2>7. Live(fsc[f]) = None /\ (f \in stray' \/ rule[f] = None)
    BY <1>7 DEF CreateFsc
  <2> HIDE DEF v
  <2> QED BY <1>0, <1>2, <1>3, <1>6, <2>3, <2>4, <2>5, <2>6, <2>7
<1>8. CASE DeleteFsc(f) /\ Live(fsc[f]).fin
  <2> DEFINE o == Live(fsc[f])
             v == [o EXCEPT !.del = TRUE]
  <2>1. o \in FscOf(f)
    BY <1>8, FscVersions DEF DeleteFsc
  <2>2. v \in FscObject /\ v.uid = o.uid /\ v.fin = o.fin /\ v.del = TRUE
    BY <2>1 DEF FscOf, FscObject
  <2>3. v \in FscOf(f) /\ v # None
    BY <2>1, <2>2, ObjectsNone DEF FscOf
  <2>4. Puts(fsc', fsc, f, v)
    BY <1>8 DEF DeleteFsc, UserPutsFsc, Puts
  <2>5. o # None
    BY <1>8 DEF DeleteFsc
  <2> HIDE DEF v
  <2> QED BY <1>0, <1>2, <1>3, <1>6, <1>8, <2>2, <2>3, <2>4, <2>5
<1>9. CASE DeleteFsc(f) /\ ~Live(fsc[f]).fin
  <2>1. Puts(fsc', fsc, f, None) /\ Live(fsc[f]) # None
    BY <1>9 DEF DeleteFsc, UserPutsFsc, Puts
  <2> QED BY <1>0, <1>2, <1>3, <1>6, <1>9, <2>1
<1> QED BY <1>7, <1>8, <1>9

\* Users create and delete clusters.
LEMMA UserFscTypes ==
    ASSUME TInv, NEW f \in Cluster, CreateFsc(f) \/ DeleteFsc(f)
    PROVE  TInv'
<1>1. LogTypes /\ WorkerTypes /\ PlainTypes
  BY TypeParts DEF TInv
<1>2. /\ UNCHANGED <<sec, obj, old, class, rule, doomed, queue>> /\ ops' \in 0..MaxOps
      /\ stray' \subseteq Cluster
      /\ w' \in Worker /\ w'.pc = w.pc /\ w'.req = w.req /\ w'.inst = w.inst /\ w'.cur = (w.cur /\ w.req # f)
  BY UserFscCases
<1>3. PICK v \in FscOf(f) \cup {None} : Puts(fsc', fsc, f, v)
  BY UserFscCases
<1>4. /\ fsc' \in [Cluster -> Log(FscObject \cup {None})] /\ UidsNamed'
      /\ \A g \in Cluster \ {f} : fsc'[g] = fsc[g]
  BY <1>3, FscPut
<1>5. LogTypes' /\ PlainTypes'
  BY <1>1, <1>2, <1>4 DEF LogTypes, PlainTypes
<1>6. WorkerTypes' /\ IdleWorker'
  BY <1>1, <1>2 DEF WorkerTypes, TInv, IdleWorker
<1>7. CopyLive'
  <2> SUFFICES ASSUME w'.pc # "idle" PROVE w'.inst \in FscOf(w'.req) /\ (w'.cur => Live(fsc'[w'.req]) = w'.inst)
    BY DEF CopyLive
  <2>1. w.inst \in FscOf(w.req) /\ (w.cur => Live(fsc[w.req]) = w.inst) /\ w.req \in Cluster
    BY <1>1, <1>2 DEF TInv, CopyLive, WorkerTypes
  <2>2. w'.cur => w.cur /\ w.req # f
    BY <1>2
  <2> QED BY <1>2, <1>4, <2>1, <2>2
<1> QED BY <1>4, <1>5, <1>6, <1>7, TypePartsPrime DEF TInv

\* A watch event of a cluster.
LEMMA FscTail ==
    ASSUME TInv, NEW f \in Cluster, DeliverFsc(f)
    PROVE  /\ fsc' \in [Cluster -> Log(FscObject \cup {None})]
           /\ fsc'[f] = Tail(fsc[f])
           /\ \A g \in Cluster \ {f} : fsc'[g] = fsc[g]
           /\ \A g \in Cluster : Live(fsc'[g]) = Live(fsc[g])
           /\ UidsNamed'
<1> DEFINE V == FscObject \cup {None}
           U == FscOf(f) \cup {None}
<1>1. fsc \in [Cluster -> Log(V)] /\ fsc[f] \in Log(U) /\ ~Synced(fsc[f])
  BY TypeParts DEF TInv, LogTypes, UidsNamed, DeliverFsc
<1>2. Delivers(fsc', fsc, f)
  BY DEF DeliverFsc, Delivers
<1> HIDE DEF V, U
<1>6. fsc'[f] = Tail(fsc[f])
  BY <1>1, <1>2 DEF Delivers
<1>3. fsc' \in [Cluster -> Log(V)] /\ \A g \in Cluster \ {f} : fsc'[g] = fsc[g]
  BY <1>1, <1>2, TailFamily
<1>4. fsc'[f] \in Log(U) /\ Live(fsc'[f]) = Live(fsc[f])
  BY <1>1, <1>6, LogTail
<1>5. UidsNamed'
  BY <1>3, <1>4 DEF UidsNamed, TInv, U
<1>7. ASSUME NEW g \in Cluster PROVE Live(fsc'[g]) = Live(fsc[g])
  BY <1>3, <1>4
<1> QED BY <1>3, <1>5, <1>6, <1>7 DEF V

\* An event of a cluster leaves the live one alone.
LEMMA DeliverFscTypes ==
    ASSUME TInv, NEW f \in Cluster, DeliverFsc(f)
    PROVE  TInv'
<1>1. LogTypes /\ WorkerTypes /\ PlainTypes /\ UNCHANGED <<sec, obj, old, class, rule, stray, doomed, w, ops>>
  BY TypeParts DEF TInv, DeliverFsc
<1>2. /\ fsc' \in [Cluster -> Log(FscObject \cup {None})]
      /\ \A g \in Cluster : Live(fsc'[g]) = Live(fsc[g])
      /\ UidsNamed'
  BY FscTail
<1>3. LogTypes' /\ WorkerTypes' /\ PlainTypes'
  BY <1>1, <1>2 DEF LogTypes, WorkerTypes, PlainTypes, DeliverFsc
<1>4. CopyLive' /\ IdleWorker'
  BY <1>1, <1>2 DEF TInv, CopyLive, IdleWorker, WorkerTypes
<1> QED BY <1>2, <1>3, <1>4, TypePartsPrime DEF TInv

\* A watch event of a secret.
LEMMA SecretTail ==
    ASSUME TInv, NEW x \in Secret, DeliverSecret(x)
    PROVE  /\ sec' \in [Secret -> Log(Owned \cup {None})]
           /\ \A y \in Secret \ {x} : sec'[y] = sec[y]
<1> DEFINE V == Owned \cup {None}
<1>1. sec \in [Secret -> Log(V)] /\ ~Synced(sec[x])
  BY TypeParts DEF TInv, LogTypes, DeliverSecret
<1>2. Delivers(sec', sec, x)
  BY DEF DeliverSecret, Delivers
<1> HIDE DEF V
<1>3. sec' \in [Secret -> Log(V)] /\ \A y \in Secret \ {x} : sec'[y] = sec[y]
  BY <1>1, <1>2, TailFamily
<1> QED BY <1>3 DEF V

\* A watch event of an exporter's object.
LEMMA ObjectTail ==
    ASSUME TInv, NEW k \in Kind, DeliverObject(k)
    PROVE  /\ obj' \in [Kind -> Log(Owned \cup {None})]
           /\ obj[k] \in Log(Owned \cup {None}) /\ obj[k][2] \in Owned \cup {None}
           /\ obj'[k] = Tail(obj[k])
           /\ \A j \in Kind \ {k} : obj'[j] = obj[j]
           /\ \A j \in Kind : Live(obj'[j]) = Live(obj[j])
<1> DEFINE V == Owned \cup {None}
<1>1. obj \in [Kind -> Log(V)] /\ ~Synced(obj[k])
  BY TypeParts DEF TInv, LogTypes, DeliverObject
<1>2. Delivers(obj', obj, k)
  BY DEF DeliverObject, Delivers
<1> HIDE DEF V
<1>6. obj'[k] = Tail(obj[k])
  BY <1>1, <1>2 DEF Delivers
<1>3. obj' \in [Kind -> Log(V)] /\ \A j \in Kind \ {k} : obj'[j] = obj[j]
  BY <1>1, <1>2, TailFamily
<1>4. obj[k] \in Log(V) /\ obj[k][2] \in V /\ Live(obj'[k]) = Live(obj[k])
  BY <1>1, <1>6, LogTail
<1> QED BY <1>3, <1>4, <1>6 DEF V

\* A watch event of a class, with clusters that all have a default pool.
DeliversClass(n) ==
    LET deleted == class[n][2] = None
        default == {f \in CachedFscs : Cached(fsc[f]).default # None}
    IN  /\ ~Synced(class[n])
        /\ class' = [class EXCEPT ![n] = Tail(@)]
        /\ deleted => default = CachedFscs
        /\ queue' = IF ~deleted THEN queue
                    ELSE queue \cup {f \in default : Cached(fsc[f]).default.class = n}
        /\ UNCHANGED <<fsc, sec, obj, old, rule, stray, doomed, w, ops>>

\* The log of the class after the event.
LEMMA ClassTail ==
    ASSUME TInv, NEW n \in ClassName, DeliversClass(n)
    PROVE  /\ class' \in [ClassName -> Log(ClassObject \cup {None})]
           /\ class[n] \in Log(ClassObject \cup {None})
           /\ class'[n] = Tail(class[n])
           /\ \A m \in ClassName \ {n} : class'[m] = class[m]
           /\ Live(class'[n]) = Live(class[n])
<1> DEFINE V == ClassObject \cup {None}
<1>1. class \in [ClassName -> Log(V)] /\ ~Synced(class[n])
  BY TypeParts DEF TInv, LogTypes, DeliversClass
<1>2. Delivers(class', class, n)
  BY DEF DeliversClass, Delivers
<1> HIDE DEF V
<1>6. class'[n] = Tail(class[n])
  BY <1>1, <1>2 DEF Delivers
<1>3. class' \in [ClassName -> Log(V)] /\ \A m \in ClassName \ {n} : class'[m] = class[m]
  BY <1>1, <1>2, TailFamily
<1>4. class[n] \in Log(V) /\ Live(class'[n]) = Live(class[n])
  BY <1>1, <1>6, LogTail
<1> QED BY <1>3, <1>4, <1>6 DEF V

\* These three leave the clusters and the worker alone.
LEMMA EventTypes ==
    ASSUME TInv,
           \/ \E x \in Secret : DeliverSecret(x)
           \/ \E k \in Kind : DeliverObject(k)
           \/ \E n \in ClassName : DeliversClass(n)
    PROVE  TInv'
<1>1. LogTypes /\ WorkerTypes /\ PlainTypes
  BY TypeParts DEF TInv
<1>2. UNCHANGED <<fsc, old, rule, stray, doomed, w, ops>>
  BY DEF DeliverSecret, DeliverObject, DeliversClass
<1>3. WorkerTypes' /\ CopyLive' /\ IdleWorker' /\ UidsNamed'
  BY <1>1, <1>2 DEF TInv, WorkerTypes, CopyLive, IdleWorker, UidsNamed
<1>4. LogTypes'
  <2>1. CASE \E x \in Secret : DeliverSecret(x)
    <3>1. sec' \in [Secret -> Log(Owned \cup {None})] /\ UNCHANGED <<obj, class>>
      BY <2>1, SecretTail DEF DeliverSecret
    <3> QED BY <1>1, <1>2, <3>1 DEF LogTypes
  <2>2. CASE \E k \in Kind : DeliverObject(k)
    <3>1. obj' \in [Kind -> Log(Owned \cup {None})] /\ UNCHANGED <<sec, class>>
      BY <2>2, ObjectTail DEF DeliverObject
    <3> QED BY <1>1, <1>2, <3>1 DEF LogTypes
  <2>3. CASE \E n \in ClassName : DeliversClass(n)
    <3>1. class' \in [ClassName -> Log(ClassObject \cup {None})] /\ UNCHANGED <<sec, obj>>
      BY <2>3, ClassTail DEF DeliversClass
    <3> QED BY <1>1, <1>2, <3>1 DEF LogTypes
  <2> QED BY <2>1, <2>2, <2>3
<1>5. queue' \subseteq Cluster
  <2>0. queue \subseteq Cluster
    BY <1>1 DEF PlainTypes
  <2>1. CASE \E x \in Secret : DeliverSecret(x)
    BY <2>0, <2>1 DEF DeliverSecret, SecretToClusterMapFunc, CachedFscs
  <2>2. ASSUME NEW k \in Kind, DeliverObject(k) PROVE queue' \subseteq Cluster
    <3>1. ASSUME NEW o \in Owned \cup {None} PROVE OwnerNames(o) \subseteq Cluster
      BY <3>1, ObjectsNone DEF OwnerNames, Owned, UID
    <3>2. Cached(obj[k]) \in Owned \cup {None} /\ obj[k][2] \in Owned \cup {None}
      BY <2>2, ObjectTail, LogVersions
    <3> QED BY <2>0, <2>2, <3>1, <3>2 DEF DeliverObject
  <2>3. CASE \E n \in ClassName : DeliversClass(n)
    BY <2>0, <2>3 DEF DeliversClass, CachedFscs
  <2> QED BY <2>1, <2>2, <2>3
<1>6. PlainTypes'
  BY <1>1, <1>2, <1>5 DEF PlainTypes
<1> QED BY <1>3, <1>4, <1>6, TypePartsPrime DEF TInv

\* The process starts again from the live objects.
LEMMA RebootTypes ==
    ASSUME TInv, Reboot, ops' \in 0..MaxOps
    PROVE  /\ TInv'
           /\ \A f \in Cluster : Live(fsc'[f]) = Live(fsc[f]) /\ Len(fsc'[f]) = 1 /\ fsc'[f][1] = Live(fsc[f])
           /\ \A k \in Kind : Live(obj'[k]) = Live(obj[k])
           /\ \A n \in ClassName : Len(class'[n]) = 1
<1>1. LogTypes /\ WorkerTypes /\ PlainTypes
  BY TypeParts DEF TInv
<1>2. /\ Rereads(fsc', fsc, Cluster) /\ Rereads(sec', sec, Secret)
      /\ Rereads(obj', obj, Kind) /\ Rereads(class', class, ClassName)
  BY DEF Reboot, Rereads
<1>3. /\ fsc' \in [Cluster -> Log(FscObject \cup {None})]
      /\ \A f \in Cluster : Live(fsc'[f]) = Live(fsc[f]) /\ Len(fsc'[f]) = 1 /\ fsc'[f][1] = Live(fsc[f])
  <2>1. fsc' \in [Cluster -> Log(FscObject \cup {None})]
    BY <1>1, <1>2, RestartFamily DEF LogTypes
  <2>2. ASSUME NEW f \in Cluster PROVE Live(fsc'[f]) = Live(fsc[f]) /\ Len(fsc'[f]) = 1 /\ fsc'[f][1] = Live(fsc[f])
    BY DEF Reboot, Live
  <2> QED BY <2>1, <2>2
<1>4. sec' \in [Secret -> Log(Owned \cup {None})]
  BY <1>1, <1>2, RestartFamily DEF LogTypes
<1>5. obj' \in [Kind -> Log(Owned \cup {None})] /\ \A k \in Kind : Live(obj'[k]) = Live(obj[k])
  <2>1. obj' \in [Kind -> Log(Owned \cup {None})]
    BY <1>1, <1>2, RestartFamily DEF LogTypes
  <2>2. ASSUME NEW k \in Kind PROVE Live(obj'[k]) = Live(obj[k])
    BY DEF Reboot, Live
  <2> QED BY <2>1, <2>2
<1>6. class' \in [ClassName -> Log(ClassObject \cup {None})] /\ \A n \in ClassName : Len(class'[n]) = 1
  <2>1. class' \in [ClassName -> Log(ClassObject \cup {None})]
    BY <1>1, <1>2, RestartFamily DEF LogTypes
  <2>2. ASSUME NEW n \in ClassName PROVE Len(class'[n]) = 1
    BY DEF Reboot
  <2> QED BY <2>1, <2>2
<1>7. LogTypes'
  BY <1>3, <1>4, <1>5, <1>6 DEF LogTypes
<1>8. WorkerTypes' /\ CopyLive' /\ IdleWorker'
  BY IdleType DEF Reboot, WorkerTypes, CopyLive, IdleWorker
<1>9. PlainTypes'
  BY <1>1 DEF Reboot, PlainTypes
<1>10. UidsNamed'
  <2> SUFFICES ASSUME NEW f \in Cluster PROVE fsc'[f] \in Log(FscOf(f) \cup {None})
    BY DEF UidsNamed
  <2> DEFINE U == FscOf(f) \cup {None}
  <2>1. Live(fsc[f]) \in U
    BY FscVersions
  <2>2. fsc'[f] = <<Live(fsc[f])>>
    BY DEF Reboot
  <2> HIDE DEF U
  <2>3. fsc'[f] \in Log(U)
    BY <2>1, <2>2, LogRestart
  <2> QED BY <2>3 DEF U
<1> QED BY <1>3, <1>5, <1>6, <1>7, <1>8, <1>9, <1>10, TypePartsPrime DEF TInv

\* The rule of the cluster is there; a Reconcile with a stale copy is repeated,
\* and so is one that could not update the rule.
LEMMA RuleStep ==
    ASSUME TInv, CreateOrUpdatePrometheusRules
    PROVE  /\ w.pc = "rule" /\ UNCHANGED <<fsc, sec, obj, old, class, doomed, ops>>
           /\ rule' \in [Cluster -> Owned \cup {None}] /\ stray' \subseteq Cluster
           /\ \E b \in BOOLEAN : Return(b) /\ (~b => w.cur)
           /\ rule'[w.req] # None
           /\ \/ rule'[w.req] = OwnedBy({w.inst.uid})
              \/ w.req \in stray /\ w.req \in stray'
              \/ w.req \notin stray /\ rule[w.req] # OwnedBy({w.inst.uid}) /\ rule[w.req] # None
              \/ UNCHANGED <<rule, stray>>
           /\ stray \ {w.req} \subseteq stray'
           /\ \A f \in Cluster \ {w.req} : rule'[f] = rule[f]
<1>1. /\ WorkerTypes /\ w.pc = "rule" /\ UNCHANGED <<fsc, sec, obj, old, class, doomed, ops>>
      /\ rule \in [Cluster -> Owned \cup {None}] /\ stray \subseteq Cluster
  BY TypeParts DEF TInv, PlainTypes, CreateOrUpdatePrometheusRules
<1>2. w.req \in Cluster /\ {w.inst.uid} \in SUBSET UID /\ w.cur \in BOOLEAN
  BY <1>1, ObjectsConstants DEF WorkerTypes, Worker, FscObject
<1>3. \E b \in BOOLEAN : Return(b) /\ (~b => w.cur)
  BY <1>2 DEF CreateOrUpdatePrometheusRules
<1> DEFINE own == OwnedBy({w.inst.uid})
           mended == [rule[w.req] EXCEPT !.ok = TRUE]
<1>4. own \in Owned /\ own # None /\ own.ok = TRUE /\ getPrometheusRules = own
  BY <1>2, OwnedByType, ObjectsNone DEF getPrometheusRules
<1>5. rule[w.req] # None => mended \in Owned /\ mended # None /\ (rule[w.req] = own => mended = own)
  <2> SUFFICES ASSUME rule[w.req] # None
               PROVE  mended \in Owned /\ mended # None /\ (rule[w.req] = own => mended = own)
    OBVIOUS
  <2>1. rule[w.req] \in Owned
    BY <1>1, <1>2
  <2>2. mended \in Owned
    BY <2>1 DEF Owned
  <2>3. rule[w.req] = own => mended = own
    BY <1>4, <2>1 DEF Owned
  <2> HIDE DEF mended
  <2> QED BY <2>2, <2>3, ObjectsNone
<1>6. \/ UNCHANGED <<rule, stray>> /\ rule[w.req] # None
      \/ \E new \in {own, mended} :
            /\ new = own \/ rule[w.req] # None
            /\ rule' = [rule EXCEPT ![w.req] = new]
            /\ stray' = IF new = own THEN stray \ {w.req} ELSE stray
  <2>1. CASE rule[w.req] = None
    BY <1>4, <2>1 DEF CreateOrUpdatePrometheusRules
  <2>2. CASE rule[w.req] # None
    BY <1>4, <2>2 DEF CreateOrUpdatePrometheusRules
  <2> QED BY <2>1, <2>2
<1>7. CASE UNCHANGED <<rule, stray>> /\ rule[w.req] # None
  BY <1>1, <1>3, <1>7
<1> HIDE DEF own, mended
<1>8. ASSUME NEW new \in {own, mended}, new = own \/ rule[w.req] # None,
             rule' = [rule EXCEPT ![w.req] = new],
             stray' = IF new = own THEN stray \ {w.req} ELSE stray
      PROVE  /\ rule' \in [Cluster -> Owned \cup {None}] /\ stray' \subseteq Cluster
             /\ rule'[w.req] # None
             /\ \/ rule'[w.req] = own
                \/ w.req \in stray /\ w.req \in stray'
                \/ w.req \notin stray /\ rule[w.req] # own /\ rule[w.req] # None
             /\ stray \ {w.req} \subseteq stray'
             /\ \A f \in Cluster \ {w.req} : rule'[f] = rule[f]
  <2>1. new \in Owned /\ new # None
    BY <1>4, <1>5, <1>8
  <2>2. rule'[w.req] = new /\ rule' \in [Cluster -> Owned \cup {None}]
    BY <1>1, <1>2, <1>8, <2>1
  <2> QED BY <1>1, <1>2, <1>4, <1>5, <1>8, <2>1, <2>2
<1> QED BY <1>1, <1>3, <1>6, <1>7, <1>8 DEF own

\* What a step of the worker that writes no cluster does.
WorkerWrites ==
    /\ ObjectsGrow
    /\ w.pc # "idle"
    /\ UNCHANGED <<fsc, doomed>>
    /\ ops' \in 0..MaxOps
    /\ rule' \in [Cluster -> Owned \cup {None}] /\ stray' \subseteq Cluster
    /\ \/ \E b \in BOOLEAN : Return(b)
       \/ \E pc \in WorkerPC \ {"idle"} : Goto(pc)

\* These steps keep the types.
LEMMA WritesTypes ==
    ASSUME TInv, WorkerWrites
    PROVE  TInv'
<1>1. doomed' \subseteq Kind
  BY TypeParts DEF TInv, PlainTypes, WorkerWrites
<1> QED BY <1>1, WorkTypes DEF WorkerWrites

\* All steps of the worker but Start and UpdateFinalizer are of that form.
LEMMA WorkerSteps ==
    ASSUME TInv,
           \/ ensureSecretOwnership \/ \E k \in Kind : ensureExporter(k)
           \/ ensureDefaultStorageClass \/ deleteDefaultStorageClass
           \/ CreateOrUpdatePrometheusRules \/ Fault
    PROVE  WorkerWrites
<1>1. LogTypes /\ PlainTypes /\ \A k \in Kind : k # "idle"
  BY TypeParts, ObjectsConstants DEF TInv
<1>2. /\ FromService \in WorkerPC \ {"idle"} /\ \A k \in Kind : NextPc[k] \in WorkerPC \ {"idle"}
      /\ "rule" \in WorkerPC \ {"idle"} /\ "finalizer" \in WorkerPC \ {"idle"}
  BY <1>1, KindsFollow DEF WorkerPC
<1>3. UNCHANGED <<fsc, rule, stray, doomed, ops>> => UNCHANGED <<fsc, doomed>> /\ ops' \in 0..MaxOps /\ rule' \in [Cluster -> Owned \cup {None}] /\ stray' \subseteq Cluster
  BY <1>1 DEF PlainTypes
<1>4. CASE ensureSecretOwnership
  <2>1. w.pc = "secret" /\ UNCHANGED <<fsc, rule, stray, doomed, ops>>
    BY <1>4 DEF ensureSecretOwnership
  <2> QED BY <1>2, <1>3, <1>4, <2>1, SecretStep DEF WorkerWrites
<1>5. ASSUME NEW k \in Kind, ensureExporter(k) PROVE WorkerWrites
  <2>1. w.pc = k /\ UNCHANGED <<fsc, rule, stray, doomed, ops>>
    BY <1>5 DEF ensureExporter
  <2>2. ObjectsGrow /\ (Return(TRUE) \/ Goto(NextPc[k]))
    BY <1>5, ExporterStep
  <2> QED BY <1>1, <1>2, <1>3, <2>1, <2>2 DEF WorkerWrites
<1>6. CASE ensureDefaultStorageClass
  <2>1. w.pc = "class" /\ UNCHANGED <<fsc, rule, stray, doomed, ops>>
    BY <1>6 DEF ensureDefaultStorageClass
  <2>2. ObjectsGrow /\ (Return(TRUE) \/ Goto("rule"))
    BY <1>6, ClassStep
  <2> QED BY <1>2, <1>3, <2>1, <2>2 DEF WorkerWrites
<1>7. CASE deleteDefaultStorageClass
  <2>1. w.pc = "deleteClass" /\ UNCHANGED <<fsc, rule, stray, doomed, ops>>
    BY <1>7 DEF deleteDefaultStorageClass
  <2> QED BY <1>2, <1>3, <1>7, <2>1, DeleteClassStep DEF WorkerWrites
<1>8. CASE CreateOrUpdatePrometheusRules
  <2>1. /\ w.pc = "rule" /\ UNCHANGED <<fsc, sec, obj, old, class, doomed, ops>>
        /\ rule' \in [Cluster -> Owned \cup {None}] /\ stray' \subseteq Cluster /\ \E b \in BOOLEAN : Return(b)
    BY <1>8, RuleStep
  <2> QED BY <1>1, <2>1, StillObjects DEF WorkerWrites, PlainTypes
<1>9. CASE Fault
  <2>1. w.pc # "idle" /\ UNCHANGED <<fsc, sec, obj, old, class, rule, stray, doomed>> /\ Return(TRUE)
    BY <1>9 DEF Fault, objects
  <2>2. ops' \in 0..MaxOps
    BY <1>1, <1>9, DisturbOps DEF Fault, PlainTypes
  <2> QED BY <1>1, <2>1, <2>2, StillObjects DEF WorkerWrites, PlainTypes
<1> QED BY <1>4, <1>5, <1>6, <1>7, <1>8, <1>9

\* Every step is of one of these kinds.
LEMMA StepKinds ==
    ASSUME TInv, Next
    PROVE  \/ Quiet
           \/ \E f \in Cluster : Start(f) \/ DeliverFsc(f) \/ CreateFsc(f) \/ DeleteFsc(f)
           \/ UpdateFinalizer
           \/ ensureSecretOwnership \/ \E k \in Kind : ensureExporter(k)
           \/ ensureDefaultStorageClass \/ deleteDefaultStorageClass
           \/ CreateOrUpdatePrometheusRules \/ Fault
           \/ \E x \in Secret : DeliverSecret(x)
           \/ \E k \in Kind : DeliverObject(k)
           \/ \E n \in ClassName : DeliversClass(n)
           \/ Reboot /\ ops' \in 0..MaxOps
<1>1. PlainTypes
  BY TypeParts DEF TInv
<1>2. CASE Gc
  BY <1>2, SecretQuiet, RuleQuiet, ObjectQuiet DEF Gc
<1>3. CASE Users
  BY <1>3, SecretQuiet, ClassQuiet, ObjectQuiet, RuleQuiet DEF Users
<1>4. CASE Restart
  BY <1>1, <1>4, DisturbOps DEF Restart, PlainTypes
<1>5. ASSUME NEW n \in ClassName, DeliverClass(n) PROVE DeliversClass(n) \/ (Reboot /\ ops' \in 0..MaxOps)
  BY <1>1, <1>5 DEF DeliverClass, DeliversClass, PlainTypes
<1>6. CASE Deliver
  BY <1>5, <1>6 DEF Deliver
<1>7. CASE Work
  BY <1>7 DEF Work
<1> QED BY <1>2, <1>3, <1>4, <1>6, <1>7 DEF Next

\* The types are inductive.
LEMMA StepTypes ==
    ASSUME TInv, [Next]_vars
    PROVE  TInv'
<1>1. CASE UNCHANGED vars
  <2>1. TypeOK'
    BY <1>1 DEF TInv, TypeOK, vars, objects
  <2>2. CopyLive' /\ IdleWorker' /\ UidsNamed'
    BY <1>1 DEF TInv, CopyLive, IdleWorker, UidsNamed, vars, objects
  <2> QED BY <2>1, <2>2 DEF TInv
<1>2. CASE Next
  BY <1>2, StepKinds, QuietTypes, StartTypes, DeliverFscTypes, UserFscTypes, FinalizerTypes,
     WorkerSteps, WritesTypes, EventTypes, RebootTypes
<1> QED BY <1>1, <1>2

\* The types hold at the start.
LEMMA InitTypes ==
    ASSUME Init
    PROVE  TInv
<1>1. PICK d \in [Present -> DefaultPool \cup {None}] :
         fsc = [f \in Cluster |-> IF f \notin Present THEN <<None>>
                                  ELSE <<[NewFsc(f, 0, d[f]) EXCEPT !.fin = TRUE]>>]
  BY DEF Init
<1>2. ASSUME NEW f \in Cluster PROVE fsc[f] \in Log(FscOf(f) \cup {None}) /\ fsc[f] \in Log(FscObject \cup {None})
  <2>1. CASE f \notin Present
    BY <1>1, <2>1 DEF Log
  <2>2. CASE f \in Present
    <3> DEFINE v == [NewFsc(f, 0, d[f]) EXCEPT !.fin = TRUE]
    <3>1. v \in FscObject /\ v.uid = <<f, 0>>
      BY <2>2 DEF NewFsc, FscObject, UID
    <3>2. fsc[f] = <<v>>
      BY <1>1, <2>2
    <3> HIDE DEF v
    <3>3. v \in FscOf(f)
      BY <3>1 DEF FscOf
    <3> QED BY <3>1, <3>2, <3>3 DEF Log
  <2> QED BY <2>1, <2>2
<1>3. fsc \in [Cluster -> Log(FscObject \cup {None})]
  BY <1>1, <1>2
<1>4. UidsNamed
  BY <1>2 DEF UidsNamed
<1>5. sec \in [Secret -> Log(Owned \cup {None})]
  <2>1. PICK first \in [Secret -> SUBSET Present] : sec = [x \in Secret |-> <<OwnedBy(first[x] \X {0})>>]
    BY DEF Init
  <2>2. ASSUME NEW x \in Secret PROVE <<OwnedBy(first[x] \X {0})>> \in Log(Owned \cup {None})
    <3>1. first[x] \X {0} \in SUBSET UID
      BY <2>1, ObjectsConstants DEF UID
    <3>2. OwnedBy(first[x] \X {0}) \in Owned
      BY <3>1, OwnedByType
    <3> QED BY <3>2 DEF Log
  <2> QED BY <2>1, <2>2
<1>6. obj \in [Kind -> Log(Owned \cup {None})]
  <2>1. Present \X {0} \in SUBSET UID
    BY ObjectsConstants DEF UID
  <2>2. OwnedBy(Present \X {0}) \in Owned
    BY <2>1, OwnedByType
  <2>3. <<None>> \in Log(Owned \cup {None}) /\ <<OwnedBy(Present \X {0})>> \in Log(Owned \cup {None})
    BY <2>2 DEF Log
  <2> QED BY <2>3 DEF Init
<1>7. class \in [ClassName -> Log(ClassObject \cup {None})]
  <2>1. \A n \in ClassName : \E o \in ClassObject \cup {None} : class[n] = <<o>>
    BY DEF Init
  <2>2. ASSUME NEW n \in ClassName PROVE class[n] \in Log(ClassObject \cup {None})
    <3>1. PICK o \in ClassObject \cup {None} : class[n] = <<o>>
      BY <2>1
    <3> QED BY <3>1 DEF Log
  <2>3. class \in [ClassName -> {<<o>> : o \in ClassObject \cup {None}}]
    BY DEF Init
  <2> QED BY <2>2, <2>3
<1>8. rule \in [Cluster -> Owned \cup {None}]
  <2>1. \A f \in Cluster : {<<f, 0>>} \in SUBSET UID
    BY DEF UID
  <2>2. \A f \in Cluster : OwnedBy({<<f, 0>>}) \in Owned
    BY <2>1, OwnedByType
  <2> QED BY <2>2 DEF Init
<1>9. PlainTypes
  BY <1>8, ObjectsConstants DEF Init, PlainTypes, CachedFscs
<1>10. WorkerTypes /\ CopyLive /\ IdleWorker
  BY IdleType DEF Init, WorkerTypes, CopyLive, IdleWorker
<1>11. LogTypes
  BY <1>3, <1>5, <1>6, <1>7 DEF LogTypes
<1> QED BY <1>4, <1>9, <1>10, <1>11, TypeParts DEF TInv

\* The first inductive invariant.
LEMMA TypesInv == Spec => []TInv
<1>1. Init => TInv
  BY InitTypes
<1>2. TInv /\ [Next]_vars => TInv'
  BY StepTypes
<1> QED BY <1>1, <1>2, PTL DEF Spec

\* The variables keep their types: a worker that is under way has a name and
\* the copy of a cluster, whatever events, users and restarts do meanwhile.
THEOREM ObjectsTypes == Spec => []TypeOK
<1>1. TInv => TypeOK
  BY DEF TInv
<1> QED BY <1>1, TypesInv, PTL

\* No step takes a live owner away.
LEMMA OwnersStep ==
    ASSUME TInv, [Next]_vars
    PROVE  OwnersStay
<1>1. CASE UNCHANGED obj
  BY <1>1 DEF OwnersStay
<1>2. CASE ObjectsGrow
  BY <1>2 DEF ObjectsGrow
<1>3. CASE \A k \in Kind : Live(obj'[k]) = Live(obj[k])
  BY <1>3 DEF OwnersStay
<1>4. CASE UNCHANGED vars
  BY <1>1, <1>4 DEF vars, objects
<1>5. CASE Quiet \/ WorkerWrites
  BY <1>2, <1>5 DEF Quiet, WorkerWrites
<1>6. CASE \/ \E f \in Cluster : Start(f) \/ DeliverFsc(f) \/ CreateFsc(f) \/ DeleteFsc(f)
           \/ UpdateFinalizer
           \/ \E x \in Secret : DeliverSecret(x)
           \/ \E n \in ClassName : DeliversClass(n)
  <2>1. UNCHANGED obj
    BY <1>6, UserFscCases DEF Start, DeliverFsc, UpdateFinalizer, DeliverSecret, DeliversClass, objects
  <2> QED BY <1>1, <2>1
<1>7. CASE \E k \in Kind : DeliverObject(k)
  BY <1>3, <1>7, ObjectTail
<1>8. CASE Reboot /\ ops' \in 0..MaxOps
  BY <1>3, <1>8, RebootTypes
<1> QED BY <1>4, <1>5, <1>6, <1>7, <1>8, StepKinds, WorkerSteps

\* No Update of the exporter's objects, from however stale a copy, and no edit
\* of a user or of the garbage collector takes away the reference to an owner
\* that is a live cluster: the API server refuses the Update of a version that
\* is not the live one, and updateExporter... only adds to the owners it found.
THEOREM OwnersAreKept == Spec => OwnersKept
<1>1. TInv /\ [Next]_vars =>
        [\A k \in Kind : Live(obj[k]) # None /\ Live(obj'[k]) # None =>
            Live(obj[k]).owners \cap LiveUIDs \subseteq Live(obj'[k]).owners]_vars
  BY OwnersStep DEF OwnersStay
<1> QED BY <1>1, TypesInv, PTL DEF Spec, OwnersKept

----------------------------------------------------------------------------
(* The finalizer.                                                          *)

\* The versions of a log that is written.
LEMMA PutKept ==
    ASSUME TInv, CacheKept, NEW f \in Cluster, NEW v \in FscOf(f) \cup {None}, Puts(fsc', fsc, f, v),
           \/ v # None /\ v.fin /\ (Live(fsc[f]) # None => Live(fsc[f]).uid = v.uid)
           \/ \A i \in 1..Len(fsc[f]) : ~Staying(fsc[f][i]),
           (v # None /\ v.fin) \/ ~Staying(v)
    PROVE  CacheKept'
<1>1. /\ fsc[f] \in Log(FscObject \cup {None})
      /\ fsc'[f] = Append(fsc[f], v) /\ Live(fsc'[f]) = v
      /\ \A g \in Cluster \ {f} : fsc'[g] = fsc[g]
  BY FscPut, FscVersions
<1>2. /\ Len(fsc[f]) \in Nat \ {0} /\ Len(fsc'[f]) = Len(fsc[f]) + 1
      /\ \A i \in 1..Len(fsc[f]) : fsc'[f][i] = fsc[f][i]
      /\ fsc'[f][Len(fsc[f]) + 1] = v
  BY <1>1, AppendIs
<1> SUFFICES ASSUME NEW g \in Cluster, NEW i \in 1..Len(fsc'[g]), Staying(fsc'[g][i])
             PROVE  Live(fsc'[g]) # None /\ Live(fsc'[g]).uid = fsc'[g][i].uid /\ Live(fsc'[g]).fin
  BY DEF CacheKept, Kept
<1>3. CASE g # f
  BY <1>1, <1>3 DEF CacheKept, Kept
<1>4. CASE g = f /\ i = Len(fsc[f]) + 1
  BY <1>1, <1>2, <1>4 DEF Staying
<1>5. CASE g = f /\ i # Len(fsc[f]) + 1
  <2>1. i \in 1..Len(fsc[f])
    BY <1>2, <1>5
  <2>2. fsc'[f][i] = fsc[f][i] /\ Staying(fsc[f][i])
    BY <1>2, <1>5, <2>1
  <2>3. Kept(fsc[f][i], f)
    BY <2>1, <2>2 DEF CacheKept
  <2> QED BY <1>1, <1>5, <2>1, <2>2, <2>3 DEF Kept
<1> QED BY <1>3, <1>4, <1>5

\* No step drops a cluster while the cache may see it with its finalizer and not marked.
LEMMA CacheKeptStep ==
    ASSUME TInv, FInv, Next
    PROVE  CacheKept'
<1>1. CASE UNCHANGED fsc
  BY <1>1 DEF FInv, CacheKept, Kept
<1>2. CASE Quiet \/ WorkerWrites
  BY <1>1, <1>2 DEF Quiet, WorkerWrites
<1>3. CASE \/ \E f \in Cluster : Start(f)
           \/ \E x \in Secret : DeliverSecret(x)
           \/ \E k \in Kind : DeliverObject(k)
           \/ \E n \in ClassName : DeliversClass(n)
  BY <1>1, <1>3 DEF Start, objects, DeliverSecret, DeliverObject, DeliversClass
<1>4. ASSUME NEW f \in Cluster, DeliverFsc(f) PROVE CacheKept'
  <2>1. /\ fsc'[f] = Tail(fsc[f])
        /\ \A g \in Cluster \ {f} : fsc'[g] = fsc[g]
        /\ \A g \in Cluster : Live(fsc'[g]) = Live(fsc[g])
    BY <1>4, FscTail
  <2>2. /\ Len(fsc[f]) \in Nat /\ Len(fsc[f]) > 1
        /\ Len(fsc'[f]) = Len(fsc[f]) - 1
        /\ \A i \in 1..Len(fsc[f]) - 1 : fsc'[f][i] = fsc[f][i + 1]
    BY <1>4, <2>1, FscVersions, TailIs DEF DeliverFsc
  <2> SUFFICES ASSUME NEW g \in Cluster, NEW i \in 1..Len(fsc'[g]), Staying(fsc'[g][i])
               PROVE  Live(fsc'[g]) # None /\ Live(fsc'[g]).uid = fsc'[g][i].uid /\ Live(fsc'[g]).fin
    BY DEF CacheKept, Kept
  <2>3. CASE g # f
    BY <2>1, <2>3 DEF FInv, CacheKept, Kept
  <2>4. CASE g = f
    <3>1. i + 1 \in 1..Len(fsc[f]) /\ fsc'[f][i] = fsc[f][i + 1]
      BY <2>2, <2>4
    <3>2. Kept(fsc[f][i + 1], f)
      BY <2>4, <3>1 DEF FInv, CacheKept
    <3> QED BY <2>1, <2>4, <3>1, <3>2 DEF Kept
  <2> QED BY <2>3, <2>4
<1>5. CASE Reboot /\ ops' \in 0..MaxOps
  <2>1. \A f \in Cluster : Live(fsc'[f]) = Live(fsc[f]) /\ Len(fsc'[f]) = 1 /\ fsc'[f][1] = Live(fsc[f])
    BY <1>5, RebootTypes
  <2> SUFFICES ASSUME NEW g \in Cluster, NEW i \in 1..Len(fsc'[g]), Staying(fsc'[g][i])
               PROVE  Live(fsc'[g]) # None /\ Live(fsc'[g]).uid = fsc'[g][i].uid /\ Live(fsc'[g]).fin
    BY DEF CacheKept, Kept
  <2>2. fsc'[g][i] = Live(fsc'[g])
    BY <2>1
  <2> QED BY <2>2 DEF Staying, Kept
<1>6. ASSUME NEW f \in Cluster, CreateFsc(f) \/ DeleteFsc(f) PROVE CacheKept'
  <2>1. PICK v \in FscOf(f) \cup {None} :
                 /\ Puts(fsc', fsc, f, v)
                 /\ \/ /\ Live(fsc[f]) = None /\ v # None /\ ~v.fin
                    \/ /\ Live(fsc[f]) # None /\ Live(fsc[f]).fin
                       /\ v # None /\ v.uid = Live(fsc[f]).uid /\ v.fin /\ v.del
                    \/ Live(fsc[f]) # None /\ ~Live(fsc[f]).fin /\ v = None
    BY <1>6, UserFscCases
  <2>2. CASE v # None /\ v.fin
    BY <2>1, <2>2, PutKept DEF FInv
  <2>3. CASE v = None \/ ~v.fin
    <3>1. \A i \in 1..Len(fsc[f]) : ~Staying(fsc[f][i])
      BY <2>1, <2>3 DEF FInv, CacheKept, Kept
    <3>2. ~Staying(v)
      BY <2>3 DEF Staying
    <3> QED BY <2>1, <3>1, <3>2, PutKept DEF FInv
  <2> QED BY <2>2, <2>3
<1>7. CASE UpdateFinalizer
  <2>0. w.pc = "finalizer" /\ w.req \in Cluster /\ (w.cur => Live(fsc[w.req]) = w.inst)
    BY <1>7, TypeParts DEF UpdateFinalizer, TInv, WorkerTypes, CopyLive
  <2>1. CASE ~w.cur
    BY <1>1, <1>7, <2>1, FinalizerCases
  <2>2. CASE w.cur /\ ~w.inst.del
    <3>1. PICK new \in FscOf(w.req) : new.uid = w.inst.uid /\ new.fin = TRUE /\ Puts(fsc', fsc, w.req, new)
      BY <1>7, <2>2, FinalizerCases
    <3>2. new # None /\ new \in FscOf(w.req) \cup {None}
      BY ObjectsNone DEF FscOf
    <3> QED BY <2>0, <2>2, <3>1, <3>2, PutKept DEF FInv
  <2>3. CASE w.cur /\ w.inst.del
    <3>1. Puts(fsc', fsc, w.req, None)
      BY <1>7, <2>3, FinalizerCases
    <3>2. Len(fsc[w.req]) = 1 /\ fsc[w.req][1] = w.inst
      BY <2>0, <2>3 DEF FInv, WorkerKept, Synced, Live
    <3>3. \A i \in 1..Len(fsc[w.req]) : ~Staying(fsc[w.req][i])
      BY <2>3, <3>2 DEF Staying
    <3>4. ~Staying(None) /\ None \in FscOf(w.req) \cup {None}
      BY DEF Staying
    <3> QED BY <2>0, <3>1, <3>3, <3>4, PutKept DEF FInv
  <2> QED BY <2>1, <2>2, <2>3
<1> QED BY <1>2, <1>3, <1>4, <1>5, <1>6, <1>7, StepKinds, WorkerSteps

\* The worker that returns, and the worker that goes on with its copy.
LEMMA ReturnKept ==
    ASSUME w' = Idle
    PROVE  WorkerKept'
<1>1. w'.pc = "idle"
  BY IdleType
<1>2. "idle" \notin Kind \cup {"secret", "class", "rule"}
  BY ObjectsConstants
<1> QED BY <1>1, <1>2 DEF WorkerKept

\* A worker that goes on has the same copy.
LEMMA GotoKept ==
    ASSUME TInv, FInv, UNCHANGED fsc, w.pc # "idle", NEW pc, Goto(pc),
           \/ w.pc \in Kind \cup {"secret", "class", "rule"} /\ pc \in Kind \cup {"secret", "class", "rule"}
           \/ w.pc = "deleteClass" /\ pc = "finalizer"
    PROVE  WorkerKept'
<1>1. w'.pc = pc /\ w'.req = w.req /\ w'.inst = w.inst /\ w'.cur = w.cur
  BY TypeParts DEF TInv, WorkerTypes, Worker, Goto
<1>2. \A k \in Kind : k \notin {"finalizer", "deleteClass", "idle"}
  BY ObjectsConstants
<1>3. CASE w.pc \in Kind \cup {"secret", "class", "rule"} /\ pc \in Kind \cup {"secret", "class", "rule"}
  BY <1>1, <1>2, <1>3 DEF FInv, WorkerKept, Kept
<1>4. CASE w.pc = "deleteClass" /\ pc = "finalizer"
  BY <1>1, <1>2, <1>4 DEF FInv, WorkerKept, Kept
<1> QED BY <1>3, <1>4

\* A step of the worker that writes no cluster goes on or returns, and only the
\* last one returns without an error.
LEMMA WorkMoves ==
    ASSUME TInv,
           \/ ensureSecretOwnership \/ \E k \in Kind : ensureExporter(k)
           \/ ensureDefaultStorageClass \/ deleteDefaultStorageClass \/ Fault
    PROVE  \/ Return(TRUE)
           \/ \E pc : /\ Goto(pc)
                      /\ \/ /\ w.pc \in Kind \cup {"secret", "class", "rule"}
                            /\ pc \in Kind \cup {"secret", "class", "rule"}
                         \/ w.pc = "deleteClass" /\ pc = "finalizer"
<1>1. CASE ensureSecretOwnership
  <2>1. w.pc = "secret" /\ (Return(TRUE) \/ Goto(FromService))
    BY <1>1, SecretStep DEF ensureSecretOwnership
  <2> QED BY <2>1, KindsFollow
<1>2. ASSUME NEW k \in Kind, ensureExporter(k)
      PROVE  w.pc \in Kind /\ (Return(TRUE) \/ (Goto(NextPc[k]) /\ NextPc[k] \in Kind \cup {"secret", "class", "rule"}))
  <2>1. w.pc = k /\ (Return(TRUE) \/ Goto(NextPc[k]))
    BY <1>2, ExporterStep DEF ensureExporter
  <2> QED BY <2>1, KindsFollow
<1>3. CASE ensureDefaultStorageClass
  BY <1>3, ClassStep DEF ensureDefaultStorageClass
<1>4. CASE deleteDefaultStorageClass
  BY <1>4, DeleteClassStep DEF deleteDefaultStorageClass
<1>5. CASE Fault
  BY <1>5 DEF Fault
<1> QED BY <1>1, <1>2, <1>3, <1>4, <1>5

\* A copy from the cache is kept because the cached version is.
LEMMA StartKept ==
    ASSUME TInv, FInv, NEW f \in Cluster, Start(f)
    PROVE  WorkerKept'
<1>1. UNCHANGED fsc /\ \A k \in Kind : k \notin {"finalizer", "deleteClass", "idle", "secret"}
  BY ObjectsConstants DEF Start, objects
<1> DEFINE inst == Cached(fsc[f])
<1>2. CASE w' = Idle
  BY <1>2, ReturnKept
<1>3. CASE inst # None /\ w' # Idle
  <2>1. inst \in FscOf(f) /\ inst \in FscObject
    BY <1>3, FscVersions
  <2>2. inst = fsc[f][1] /\ 1 \in 1..Len(fsc[f])
    <3>1. fsc[f] \in Seq(FscObject \cup {None}) /\ Len(fsc[f]) \in Nat \ {0}
      BY FscVersions, LogVersions DEF Log
    <3> QED BY <3>1 DEF Cached
  <2>3. Staying(inst) => Kept(inst, f)
    BY <2>2 DEF FInv, CacheKept
  <2>4. /\ w'.req = f /\ w'.inst = inst /\ w'.cur = Synced(fsc[f])
        /\ w'.pc = IF inst.del THEN "deleteClass" ELSE IF inst.fin THEN "secret" ELSE "finalizer"
    BY <1>3 DEF Start
  <2>5. CASE inst.del
    BY <1>1, <2>4, <2>5 DEF WorkerKept
  <2>6. CASE ~inst.del /\ inst.fin
    <3>1. Staying(inst) /\ Kept(inst, f)
      BY <1>3, <2>3, <2>6 DEF Staying
    <3> QED BY <1>1, <2>4, <2>6, <3>1 DEF WorkerKept, Kept
  <2>7. CASE ~inst.del /\ ~inst.fin
    BY <1>1, <2>4, <2>7 DEF WorkerKept
  <2> QED BY <2>5, <2>6, <2>7
<1> QED BY <1>2, <1>3 DEF Start

\* Users only mark a cluster that has a finalizer.
LEMMA UserFscKept ==
    ASSUME TInv, FInv, NEW f \in Cluster, CreateFsc(f) \/ DeleteFsc(f)
    PROVE  WorkerKept'
<1>1. w'.pc = w.pc /\ w'.req = w.req /\ w'.inst = w.inst /\ w'.cur = (w.cur /\ w.req # f)
  BY UserFscCases
<1>2. PICK v \in FscOf(f) \cup {None} :
         /\ Puts(fsc', fsc, f, v)
         /\ \/ Live(fsc[f]) = None
            \/ v # None /\ v.uid = Live(fsc[f]).uid /\ v.fin
            \/ ~Live(fsc[f]).fin
  BY UserFscCases
<1>3. Live(fsc'[f]) = v /\ \A g \in Cluster \ {f} : fsc'[g] = fsc[g]
  BY <1>2, FscPut
<1>4. w.pc # "idle" => w.req \in Cluster
  BY TypeParts DEF TInv, WorkerTypes
<1>5. "idle" \notin Kind \cup {"secret", "class", "rule"}
  BY ObjectsConstants
<1>6. ASSUME w.pc \in Kind \cup {"secret", "class", "rule"}
      PROVE  Staying(w'.inst) /\ Live(fsc'[w.req]) # None /\ Live(fsc'[w.req]).uid = w.inst.uid /\ Live(fsc'[w.req]).fin
  <2>1. Staying(w.inst) /\ Kept(w.inst, w.req) /\ w.req \in Cluster
    BY <1>4, <1>5, <1>6 DEF FInv, WorkerKept
  <2>2. CASE w.req = f
    BY <1>1, <1>2, <1>3, <2>1, <2>2 DEF Kept
  <2>3. CASE w.req # f
    BY <1>1, <1>3, <2>1, <2>3 DEF Kept
  <2> QED BY <2>2, <2>3
<1>7. ASSUME w'.pc # "idle", w'.cur, w'.inst.del PROVE Synced(fsc'[w'.req])
  BY <1>1, <1>3, <1>4, <1>7 DEF FInv, WorkerKept
<1> QED BY <1>1, <1>6, <1>7 DEF FInv, WorkerKept, Kept

\* The worker has put the finalizer on.
LEMMA FinalizerKept ==
    ASSUME TInv, FInv, UpdateFinalizer
    PROVE  WorkerKept'
<1>1. CASE Return(TRUE)
  BY <1>1, ReturnKept DEF Return
<1>2. CASE ~Return(TRUE)
  <2>0. w.req \in Cluster
    BY TypeParts DEF UpdateFinalizer, TInv, WorkerTypes
  <2>1. PICK new \in FscOf(w.req) :
          /\ new.uid = w.inst.uid /\ new.fin = TRUE /\ ~new.del /\ Puts(fsc', fsc, w.req, new)
          /\ w'.pc = "secret" /\ w'.req = w.req /\ w'.inst = new
    BY <1>2, FinalizerCases
  <2>2. Live(fsc'[w.req]) = new
    BY <2>0, <2>1, FscPut
  <2>3. new # None
    BY ObjectsNone DEF FscOf
  <2> QED BY <2>1, <2>2, <2>3 DEF WorkerKept, Staying, Kept
<1> QED BY <1>1, <1>2

\* The worker's copy is kept by every step.
LEMMA WorkerKeptStep ==
    ASSUME TInv, FInv, Next
    PROVE  WorkerKept'
<1>1. CASE UNCHANGED <<fsc, w>>
  BY <1>1 DEF FInv, WorkerKept, Kept
<1>2. CASE Quiet
  BY <1>1, <1>2 DEF Quiet
<1>3. CASE \/ \E x \in Secret : DeliverSecret(x)
           \/ \E k \in Kind : DeliverObject(k)
           \/ \E n \in ClassName : DeliversClass(n)
  BY <1>1, <1>3 DEF DeliverSecret, DeliverObject, DeliversClass
<1>4. CASE \/ ensureSecretOwnership \/ \E k \in Kind : ensureExporter(k)
           \/ ensureDefaultStorageClass \/ deleteDefaultStorageClass \/ Fault
  <2>1. UNCHANGED fsc /\ w.pc # "idle"
    BY <1>4, WorkerSteps DEF WorkerWrites
  <2>2. CASE Return(TRUE)
    BY <2>2, ReturnKept DEF Return
  <2> QED BY <1>4, <2>1, <2>2, WorkMoves, GotoKept
<1>5. CASE CreateOrUpdatePrometheusRules \/ Reboot
  <2>1. w' = Idle
    BY <1>5, RuleStep DEF Return, Reboot
  <2> QED BY <2>1, ReturnKept
<1>6. ASSUME NEW f \in Cluster, DeliverFsc(f) PROVE WorkerKept'
  <2>1. UNCHANGED w /\ ~Synced(fsc[f])
    BY <1>6 DEF DeliverFsc
  <2>2. /\ \A g \in Cluster \ {f} : fsc'[g] = fsc[g]
        /\ \A g \in Cluster : Live(fsc'[g]) = Live(fsc[g])
    BY <1>6, FscTail
  <2>3. w.pc # "idle" => w.req \in Cluster
    BY TypeParts DEF TInv, WorkerTypes
  <2>4. "idle" \notin Kind \cup {"secret", "class", "rule"}
    BY ObjectsConstants
  <2>5. ASSUME w.pc # "idle", w.cur, w.inst.del PROVE Synced(fsc'[w.req])
    <3>1. Synced(fsc[w.req]) /\ w.req \in Cluster \ {f}
      BY <2>1, <2>3, <2>5 DEF FInv, WorkerKept
    <3> QED BY <2>2, <3>1
  <2> QED BY <2>1, <2>2, <2>3, <2>4, <2>5 DEF FInv, WorkerKept, Kept
<1> QED BY <1>2, <1>3, <1>4, <1>5, <1>6, StepKinds, StartKept, UserFscKept, FinalizerKept

\* All caches are up to date at the start.
LEMMA InitKept ==
    ASSUME Init
    PROVE  FInv
<1>1. WorkerKept
  <2>1. w.pc = "idle"
    BY IdleType DEF Init
  <2>2. "idle" \notin Kind \cup {"secret", "class", "rule"}
    BY ObjectsConstants
  <2> QED BY <2>1, <2>2 DEF WorkerKept
<1>2. CacheKept
  <2> SUFFICES ASSUME NEW f \in Cluster, NEW i \in 1..Len(fsc[f]), Staying(fsc[f][i]) PROVE Kept(fsc[f][i], f)
    BY DEF CacheKept
  <2>1. Len(fsc[f]) = 1
    BY DEF Init
  <2>2. fsc[f][i] = Live(fsc[f])
    BY <2>1 DEF Live
  <2> QED BY <2>2 DEF Staying, Kept
<1> QED BY <1>1, <1>2 DEF FInv

\* The second invariant is inductive.
LEMMA StepKept ==
    ASSUME TInv, FInv, [Next]_vars
    PROVE  FInv'
<1>1. CASE Next
  BY <1>1, CacheKeptStep, WorkerKeptStep DEF FInv
<1>2. CASE UNCHANGED vars
  BY <1>2 DEF FInv, CacheKept, WorkerKept, Kept, vars, objects
<1> QED BY <1>1, <1>2

----------------------------------------------------------------------------
(* Clusters at rest.                                                       *)

\* A cluster is at rest after a step if it was before; or the worker has just
\* finished with it, and its copy was current.
LEMMA SettledBefore ==
    ASSUME TInv, Next, NEW f \in Cluster, Settled(f)'
    PROVE  /\ fsc'[f] = fsc[f] /\ f \notin queue'
           /\ \/ Settled(f)
              \/ CreateOrUpdatePrometheusRules /\ f = w.req /\ w.cur /\ f \notin queue
<1>0. WorkerTypes /\ (w.pc = "idle" => w.req = None) /\ None \notin Cluster
  BY TypeParts, ObjectsConstants DEF TInv, IdleWorker
<1>1. Live(fsc'[f]) # None /\ Synced(fsc'[f]) /\ f \notin queue' /\ w'.req # f
  BY DEF Settled, AtRest
<1>2. CASE fsc'[f] = fsc[f] /\ f \notin queue /\ w.req # f
  BY <1>1, <1>2 DEF Settled, AtRest
<1>3. CASE \/ Quiet
           \/ \E x \in Secret : DeliverSecret(x)
           \/ \E k \in Kind : DeliverObject(k)
           \/ \E n \in ClassName : DeliversClass(n)
  <2>1. UNCHANGED <<fsc, w>> /\ queue \subseteq queue'
    BY <1>3 DEF Quiet, DeliverSecret, DeliverObject, DeliversClass
  <2> QED BY <1>1, <1>2, <2>1
<1>4. ASSUME NEW g \in Cluster, Start(g) PROVE fsc'[f] = fsc[f] /\ f \notin queue /\ w.req # f
  <2>1. fsc' = fsc /\ queue' = queue \ {g} /\ w.req # f
    BY <1>0, <1>4 DEF Start, objects
  <2>2. CASE f = g
    <3>2. Cached(fsc[f]) = None \/ w'.req = f
      BY <1>4, <2>2 DEF Start
    <3>3. Cached(fsc[f]) = Live(fsc[f])
      BY <1>1, <2>1, FscVersions, SyncedIsLive
    <3> QED BY <1>1, <2>1, <3>2, <3>3
  <2> QED BY <1>1, <2>1, <2>2
<1>5. ASSUME NEW g \in Cluster, DeliverFsc(g) PROVE fsc'[f] = fsc[f] /\ f \notin queue /\ w.req # f
  <2>1. w' = w /\ queue' = queue \cup {g}
    BY <1>5 DEF DeliverFsc
  <2>2. f # g
    BY <1>1, <2>1
  <2> QED BY <1>1, <1>5, <2>1, <2>2, FscTail
<1>6. ASSUME NEW g \in Cluster, CreateFsc(g) \/ DeleteFsc(g) PROVE fsc'[f] = fsc[f] /\ f \notin queue /\ w.req # f
  <2>1. w'.req = w.req /\ queue' = queue
    BY <1>6, UserFscCases
  <2>2. PICK v \in FscOf(g) \cup {None} : Puts(fsc', fsc, g, v)
    BY <1>6, UserFscCases
  <2>3. ~Synced(fsc'[g]) /\ \A h \in Cluster \ {g} : fsc'[h] = fsc[h]
    BY <2>2, FscPut
  <2> QED BY <1>1, <2>1, <2>3
<1>7. CASE UpdateFinalizer
  <2>0. w.req \in Cluster
    BY <1>0, <1>7 DEF WorkerTypes, UpdateFinalizer
  <2>1. CASE Return(TRUE) /\ UNCHANGED fsc
    BY <1>1, <1>2, <2>1 DEF Return
  <2>2. ASSUME NEW v \in FscOf(w.req) \cup {None}, Puts(fsc', fsc, w.req, v), queue \subseteq queue'
        PROVE  fsc'[f] = fsc[f] /\ f \notin queue /\ w.req # f
    <3>1. ~Synced(fsc'[w.req]) /\ \A h \in Cluster \ {w.req} : fsc'[h] = fsc[h]
      BY <2>0, <2>2, FscPut
    <3> QED BY <1>1, <2>2, <3>1
  <2>3. CASE Return(TRUE) /\ Puts(fsc', fsc, w.req, None)
    BY <1>2, <2>2, <2>3 DEF Return
  <2>4. CASE queue' = queue /\ \E v \in FscOf(w.req) : Puts(fsc', fsc, w.req, v)
    BY <1>2, <2>2, <2>4
  <2> QED BY <1>7, <2>1, <2>3, <2>4, FinalizerCases
<1>8. CASE \/ ensureSecretOwnership \/ \E k \in Kind : ensureExporter(k)
           \/ ensureDefaultStorageClass \/ deleteDefaultStorageClass \/ Fault
  <2>1. UNCHANGED fsc
    BY <1>8, WorkerSteps DEF WorkerWrites
  <2>2. CASE Return(TRUE)
    BY <1>1, <1>2, <2>1, <2>2 DEF Return
  <2>3. ASSUME NEW pc, Goto(pc) PROVE f \notin queue /\ w.req # f
    <3>1. w'.req = w.req /\ queue' = queue
      BY <1>0, <2>3 DEF Goto, WorkerTypes, Worker
    <3> QED BY <1>1, <3>1
  <2> QED BY <1>2, <1>8, <2>1, <2>2, <2>3, WorkMoves
<1>9. CASE CreateOrUpdatePrometheusRules
  <2>1. PICK b \in BOOLEAN : Return(b) /\ (~b => w.cur)
    BY <1>9, RuleStep
  <2>2. UNCHANGED fsc /\ f \notin queue
    BY <1>1, <1>9, <2>1, RuleStep DEF Return
  <2>3. CASE w.req = f
    <3>1. ~b
      BY <1>1, <2>1, <2>3 DEF Return
    <3> QED BY <1>1, <1>9, <2>1, <2>2, <2>3, <3>1
  <2> QED BY <1>2, <2>2, <2>3
<1>10. CASE Reboot /\ ops' \in 0..MaxOps
  <2>1. Live(fsc'[f]) = Live(fsc[f])
    BY <1>10, RebootTypes
  <2> QED BY <1>1, <1>10, <2>1 DEF Reboot
<1> QED BY <1>1, <1>2, <1>3, <1>4, <1>5, <1>6, <1>7, <1>8, <1>9, <1>10, StepKinds

----------------------------------------------------------------------------
(* The Prometheus rules.                                                   *)

\* Who writes the rules.
LEMMA RuleMoves ==
    ASSUME TInv, Next
    PROVE  \/ UNCHANGED rule /\ stray \subseteq stray'
           \/ CreateOrUpdatePrometheusRules
           \/ UNCHANGED fsc /\ RuleQuietly
<1>1. CASE Quiet
  BY <1>1 DEF Quiet
<1>2. CASE \E f \in Cluster : Start(f) \/ DeliverFsc(f) \/ CreateFsc(f) \/ DeleteFsc(f)
  BY <1>2, UserFscCases DEF Start, DeliverFsc, objects
<1>3. CASE UpdateFinalizer \/ Fault \/ Reboot
  BY <1>3 DEF UpdateFinalizer, Fault, Reboot, objects
<1>4. CASE \/ ensureSecretOwnership \/ \E k \in Kind : ensureExporter(k)
           \/ ensureDefaultStorageClass \/ deleteDefaultStorageClass
  BY <1>4 DEF ensureSecretOwnership, ensureExporter, ensureDefaultStorageClass, deleteDefaultStorageClass
<1>5. CASE \/ \E x \in Secret : DeliverSecret(x)
           \/ \E k \in Kind : DeliverObject(k)
           \/ \E n \in ClassName : DeliversClass(n)
  BY <1>5 DEF DeliverSecret, DeliverObject, DeliversClass
<1> QED BY <1>1, <1>2, <1>3, <1>4, <1>5, StepKinds

\* A cluster's UID changes only when it is created again.
LEMMA UidMoves ==
    ASSUME TInv, Next, NEW f \in Cluster
    PROVE  \/ Live(fsc'[f]) = None
           \/ Live(fsc[f]) # None /\ Live(fsc'[f]).uid = Live(fsc[f]).uid
           \/ UNCHANGED rule /\ (f \in stray' \/ rule[f] = None)
<1>1. CASE Live(fsc'[f]) = Live(fsc[f])
  BY <1>1
<1>2. CASE Quiet \/ WorkerWrites
  BY <1>1, <1>2 DEF Quiet, WorkerWrites
<1>3. CASE \/ \E g \in Cluster : Start(g)
           \/ \E x \in Secret : DeliverSecret(x)
           \/ \E k \in Kind : DeliverObject(k)
           \/ \E n \in ClassName : DeliversClass(n)
  BY <1>1, <1>3 DEF Start, objects, DeliverSecret, DeliverObject, DeliversClass
<1>4. CASE \E g \in Cluster : DeliverFsc(g)
  BY <1>1, <1>4, FscTail
<1>5. CASE Reboot /\ ops' \in 0..MaxOps
  BY <1>1, <1>5, RebootTypes
<1>6. ASSUME NEW g \in Cluster, CreateFsc(g) \/ DeleteFsc(g)
      PROVE  \/ Live(fsc'[f]) = None \/ Live(fsc'[f]) = Live(fsc[f])
             \/ Live(fsc[f]) # None /\ Live(fsc'[f]).uid = Live(fsc[f]).uid
             \/ UNCHANGED rule /\ (f \in stray' \/ rule[f] = None)
  <2>1. PICK v \in FscOf(g) \cup {None} :
         /\ Puts(fsc', fsc, g, v)
         /\ \/ g \in stray' \/ rule[g] = None
            \/ Live(fsc[g]) # None /\ v.uid = Live(fsc[g]).uid
            \/ v = None
    BY <1>6, UserFscCases
  <2>2. Live(fsc'[g]) = v /\ \A h \in Cluster \ {g} : fsc'[h] = fsc[h]
    BY <2>1, FscPut
  <2>3. UNCHANGED rule
    BY <1>6, UserFscCases
  <2>4. CASE f = g
    BY <2>1, <2>2, <2>3, <2>4
  <2>5. CASE f # g
    BY <2>2, <2>5
  <2> QED BY <2>4, <2>5
<1>7. CASE UpdateFinalizer
  <2>0. w.req \in Cluster /\ (w.cur => Live(fsc[w.req]) = w.inst) /\ w.inst # None
    BY <1>7, TypeParts, ObjectsNone DEF UpdateFinalizer, TInv, WorkerTypes, CopyLive
  <2>1. CASE UNCHANGED fsc
    BY <1>1, <2>1
  <2>2. ASSUME NEW v \in FscOf(w.req) \cup {None}, Puts(fsc', fsc, w.req, v), w.cur, v = None \/ v.uid = w.inst.uid
        PROVE  \/ Live(fsc'[f]) = None \/ Live(fsc'[f]) = Live(fsc[f])
               \/ Live(fsc[f]) # None /\ Live(fsc'[f]).uid = Live(fsc[f]).uid
    <3>1. Live(fsc'[w.req]) = v /\ \A h \in Cluster \ {w.req} : fsc'[h] = fsc[h]
      BY <2>0, <2>2, FscPut
    <3> QED BY <2>0, <2>2, <3>1
  <2> QED BY <1>1, <1>7, <2>1, <2>2, FinalizerCases
<1> QED BY <1>1, <1>2, <1>3, <1>4, <1>5, <1>6, <1>7, StepKinds, WorkerSteps

\* What has happened to the rule of a cluster that is not stray after a step.
LEMMA RuleCases ==
    ASSUME TInv, FInv, RInv, Next, NEW f \in Cluster \ stray'
    PROVE  \/ rule'[f] = rule[f] /\ f \notin stray
           \/ f \notin stray /\ Orphan(rule[f]) /\ rule'[f] = None /\ UNCHANGED fsc
           \/ UNCHANGED fsc /\ rule'[f] = OwnedBy({Live(fsc[f]).uid}) /\ rule'[f] # None
<1>1. rule \in [Cluster -> Owned \cup {None}]
  BY TypeParts DEF TInv, PlainTypes
<1>2. CASE UNCHANGED rule /\ stray \subseteq stray'
  BY <1>2
<1>3. CASE UNCHANGED fsc /\ RuleQuietly
  BY <1>1, <1>3 DEF RuleQuietly
<1>4. CASE CreateOrUpdatePrometheusRules
  <2>1. /\ w.pc = "rule" /\ UNCHANGED fsc /\ rule'[w.req] # None
        /\ \/ rule'[w.req] = OwnedBy({w.inst.uid})
           \/ w.req \in stray /\ w.req \in stray'
           \/ w.req \notin stray /\ rule[w.req] # OwnedBy({w.inst.uid}) /\ rule[w.req] # None
           \/ UNCHANGED <<rule, stray>>
        /\ stray \ {w.req} \subseteq stray'
        /\ \A g \in Cluster \ {w.req} : rule'[g] = rule[g]
    BY <1>4, RuleStep
  <2>2. Live(fsc[w.req]) # None /\ Live(fsc[w.req]).uid = w.inst.uid
    BY <2>1 DEF FInv, WorkerKept, Kept
  <2>3. CASE f # w.req
    BY <2>1, <2>3
  <2>4. CASE f = w.req /\ rule'[w.req] = OwnedBy({w.inst.uid})
    BY <2>1, <2>2, <2>4
  <2>5. CASE f = w.req /\ UNCHANGED <<rule, stray>>
    BY <2>5
  <2>6. CASE f = w.req /\ w.req \notin stray /\ rule[w.req] # OwnedBy({w.inst.uid}) /\ rule[w.req] # None
    BY <2>2, <2>6 DEF RInv, RuleOwned
  <2> QED BY <2>1, <2>3, <2>4, <2>5, <2>6
<1> QED BY <1>2, <1>3, <1>4, RuleMoves

\* The worker that makes a rule works for the cluster that is there.
LEMMA RuleOwnedStep ==
    ASSUME TInv, FInv, RInv, Next
    PROVE  RuleOwned'
<1> SUFFICES ASSUME NEW f \in Cluster \ stray', rule'[f] # None, Live(fsc'[f]) # None
             PROVE  rule'[f] = OwnedBy({Live(fsc'[f]).uid})
  BY DEF RuleOwned, OwnedBy
<1>1. CASE rule'[f] = rule[f] /\ f \notin stray
  BY <1>1, UidMoves DEF RInv, RuleOwned
<1> QED BY <1>1, RuleCases

\* The rule of a cluster at rest has a live owner, so it is not collected.
LEMMA RuleThereStep ==
    ASSUME TInv, FInv, RInv, Next
    PROVE  RuleThere'
<1> SUFFICES ASSUME NEW f \in Cluster \ stray', Settled(f)' PROVE rule'[f] # None
  BY DEF RuleThere
<1>1. CASE CreateOrUpdatePrometheusRules /\ f = w.req
  BY <1>1, RuleStep
<1>2. CASE Settled(f) /\ f \notin stray
  <2> DEFINE u == Live(fsc[f]).uid
  <2>1. rule[f] # None /\ Live(fsc[f]) # None
    BY <1>2 DEF RInv, RuleThere, Settled
  <2>2. rule[f] = OwnedBy({u})
    BY <1>2, <2>1 DEF RInv, RuleOwned
  <2>3. ~Orphan(rule[f])
    <3>1. u \in LiveUIDs
      BY <2>1 DEF LiveUIDs
    <3>2. rule[f].owners = {u}
      BY <2>2 DEF OwnedBy
    <3> QED BY <3>1, <3>2 DEF Orphan
  <2> QED BY <2>1, <2>3, RuleCases
<1>3. CASE f \in stray
  BY <1>3, RuleCases
<1> QED BY <1>1, <1>2, <1>3, SettledBefore

\* A former process has made the rules.
LEMMA InitRule ==
    ASSUME Init
    PROVE  RInv
<1>1. ASSUME NEW f \in Cluster, Live(fsc[f]) # None
      PROVE  rule[f] # None /\ rule[f] = OwnedBy({Live(fsc[f]).uid})
  <2>1. PICK d : fsc = [g \in Cluster |-> IF g \notin Present THEN <<None>>
                                         ELSE <<[NewFsc(g, 0, d[g]) EXCEPT !.fin = TRUE]>>]
    BY DEF Init
  <2>2. f \in Present
    BY <1>1, <2>1 DEF Live
  <2>3. Live(fsc[f]).uid = <<f, 0>>
    BY <2>1, <2>2 DEF Live, NewFsc
  <2>4. {<<f, 0>>} \in SUBSET UID
    BY DEF UID
  <2>5. OwnedBy({<<f, 0>>}) \in Owned /\ OwnedBy({<<f, 0>>}).owners = {<<f, 0>>}
    BY <2>4, OwnedByType
  <2>6. rule[f] = OwnedBy({<<f, 0>>})
    BY <2>2 DEF Init
  <2> QED BY <2>3, <2>5, <2>6, ObjectsNone
<1> QED BY <1>1 DEF RInv, RuleOwned, RuleThere, Settled

\* A cluster at rest has its Prometheus rule, as it should be and its own, and the
\* garbage collector does not take it, unless the rule is stray: a user has
\* deleted or edited it, or a former cluster of the name has left it, and no
\* reconcile has made it what it should be since.
THEOREM RuleIsSettled == Spec => []RuleSettled
<1> DEFINE Inv == TInv /\ FInv /\ RInv
<1>1. Init => Inv
  BY InitTypes, InitKept, InitRule
<1>2. Inv /\ [Next]_vars => Inv'
  <2> SUFFICES ASSUME Inv, [Next]_vars PROVE Inv'
    OBVIOUS
  <2>1. TInv' /\ FInv'
    BY StepTypes, StepKept
  <2>2. CASE Next
    BY <2>1, <2>2, RuleOwnedStep, RuleThereStep DEF RInv
  <2>3. CASE UNCHANGED vars
    <3>1. RInv'
      BY <2>3 DEF RInv, RuleOwned, RuleThere, Settled, AtRest, vars, objects
    <3> QED BY <2>1, <3>1
  <2> QED BY <2>2, <2>3
<1>3. Inv => RuleSettled
  BY DEF RInv, RuleOwned, RuleThere, RuleSettled, Settled
<1> QED BY <1>1, <1>2, <1>3, PTL DEF Spec

----------------------------------------------------------------------------
(* Watch events: what an event undoes, it queues the cluster for.          *)

\* An event of the secret queues the clusters that name it.
LEMMA SecretEvent ==
    ASSUME TInv, NEW x \in Secret, DeliverSecret(x), NEW f \in Cluster, f \notin queue', Cached(fsc[f]) # None,
           NEW u, NEW d
    PROVE  Keeps(f, u, d)
<1>1. SecretOf[f] \in Secret /\ SecretOf[f] # x /\ UNCHANGED <<obj, old, class>>
  BY ObjectsConstants DEF DeliverSecret, SecretToClusterMapFunc, CachedFscs
<1>2. sec'[SecretOf[f]] = sec[SecretOf[f]]
  BY <1>1, SecretTail
<1> QED BY <1>1, <1>2 DEF Keeps, SecretDone, ExporterDone, ClassDone

\* An event queues the owners, before and after it.
LEMMA ObjectEvent ==
    ASSUME TInv, NEW k \in Kind, DeliverObject(k), NEW f \in Cluster, f \notin queue',
           NEW u, u[1] = f, NEW d
    PROVE  Keeps(f, u, d)
<1>1. UNCHANGED <<sec, old, class>> /\ queue' = queue \cup OwnerNames(Cached(obj[k])) \cup OwnerNames(obj[k][2]) /\ ~Synced(obj[k])
  BY DEF DeliverObject
<1>2. /\ obj[k] \in Log(Owned \cup {None}) /\ obj'[k] = Tail(obj[k])
      /\ \A j \in Kind \ {k} : obj'[j] = obj[j]
  BY ObjectTail
<1>3. ASSUME NEW o, o # None, u \in o.owners, OwnerNames(o) \subseteq queue' PROVE FALSE
  BY <1>3 DEF OwnerNames
<1>4. ~(Cached(obj[k]) # None /\ u \in Cached(obj[k]).owners) /\ ~(obj[k][2] # None /\ u \in obj[k][2].owners)
  BY <1>1, <1>3
<1>5. /\ Len(obj[k]) \in Nat /\ Len(obj[k]) > 1
      /\ Len(obj'[k]) = Len(obj[k]) - 1
      /\ \A i \in 1..Len(obj[k]) - 1 : obj'[k][i] = obj[k][i + 1]
  BY <1>1, <1>2, TailIs
<1>6. ASSUME ExporterDone(k, u) PROVE ExporterDone(k, u)'
  <2>1. k \notin old'
    BY <1>1, <1>6 DEF ExporterDone
  <2>2. PICK j \in 2..Len(obj[k]) : obj[k][j] # None /\ u \in obj[k][j].owners
    BY <1>4, <1>6 DEF ExporterDone
  <2>3. j # 2
    BY <1>4, <2>2
  <2>4. j - 1 \in 2..Len(obj'[k]) /\ j - 1 \in 1..Len(obj[k]) - 1 /\ (j - 1) + 1 = j
    BY <1>5, <2>2, <2>3
  <2>5. obj'[k][j - 1] = obj[k][j]
    BY <1>5, <2>4
  <2> QED BY <2>1, <2>2, <2>4, <2>5 DEF ExporterDone
<1>7. ASSUME NEW j \in Kind, ExporterDone(j, u) PROVE ExporterDone(j, u)'
  <2>1. CASE j = k
    BY <1>6, <1>7, <2>1
  <2>2. CASE j # k
    <3>1. obj'[j] = obj[j]
      BY <1>2, <2>2
    <3> QED BY <1>1, <1>7, <3>1 DEF ExporterDone
  <2> QED BY <2>1, <2>2
<1>8. (SecretDone(f) => SecretDone(f)') /\ (ClassDone(d) => ClassDone(d)')
  BY <1>1 DEF SecretDone, ClassDone
<1> QED BY <1>7, <1>8 DEF Keeps

\* A deletion queues the clusters that name the class.
LEMMA ClassEvent ==
    ASSUME TInv, NEW n \in ClassName, DeliversClass(n), NEW f \in Cluster, f \notin queue', Cached(fsc[f]) # None,
           NEW u, NEW d, d = Cached(fsc[f]).default, d # None => d.class \in ClassName
    PROVE  Keeps(f, u, d)
<1>1. UNCHANGED <<sec, obj, old>> /\ ~Synced(class[n])
  BY DEF DeliversClass
<1>2. /\ class[n] \in Log(ClassObject \cup {None}) /\ class'[n] = Tail(class[n])
      /\ \A m \in ClassName \ {n} : class'[m] = class[m]
      /\ Live(class'[n]) = Live(class[n])
  BY ClassTail
<1>3. d # None /\ d.class = n => class[n][2] # None
  BY DEF DeliversClass, CachedFscs
<1>4. /\ Len(class[n]) \in Nat /\ Len(class[n]) > 1
      /\ Len(class'[n]) = Len(class[n]) - 1
      /\ \A i \in 1..Len(class[n]) - 1 : class'[n][i] = class[n][i + 1]
  BY <1>1, <1>2, TailIs
<1>5. ASSUME ClassDone(d) PROVE ClassDone(d)'
  <2>1. CASE d = None
    BY <2>1 DEF ClassDone
  <2>2. CASE d # None /\ d.class # n
    <3>1. class'[d.class] = class[d.class]
      BY <1>2, <2>2
    <3> QED BY <1>5, <2>2, <3>1 DEF ClassDone
  <2>3. CASE d # None /\ d.class = n /\ Live(class[n]) = InitDefaultStorageClass(d)
    BY <1>2, <2>3 DEF ClassDone
  <2>4. ASSUME d # None, d.class = n, NEW j \in 2..Len(class[n]), class[n][j] = None PROVE ClassDone(d)'
    <3>1. j # 2
      BY <1>3, <2>4
    <3>2. j - 1 \in 2..Len(class'[n]) /\ j - 1 \in 1..Len(class[n]) - 1 /\ (j - 1) + 1 = j
      BY <1>4, <2>4, <3>1
    <3>3. class'[n][j - 1] = None
      BY <1>4, <2>4, <3>2
    <3> QED BY <2>4, <3>2, <3>3 DEF ClassDone
  <2> QED BY <1>5, <2>1, <2>2, <2>3, <2>4 DEF ClassDone
<1>6. (SecretDone(f) => SecretDone(f)') /\ \A k \in Kind : ExporterDone(k, u) => ExporterDone(k, u)'
  BY <1>1 DEF SecretDone, ExporterDone
<1> QED BY <1>5, <1>6 DEF Keeps

\* Every step keeps what is done for a cluster that is in the cache, or queues
\* the cluster, or ends the process.
LEMMA StepKeeps ==
    ASSUME TInv, ClassAlternates, Next, NEW f \in Cluster, f \notin queue', Cached(fsc[f]) # None,
           NEW u, u[1] = f, NEW d \in DefaultPool \cup {None}, d = Cached(fsc[f]).default
    PROVE  Keeps(f, u, d) \/ (Reboot /\ ops' \in 0..MaxOps)
<1>0. LogTypes /\ (d # None => d.class \in ClassName)
  BY TypeParts DEF TInv, DefaultPool
<1>1. CASE ObjectsGrow
  BY <1>0, <1>1, GrowKeeps
<1>2. CASE Quiet \/ WorkerWrites
  BY <1>1, <1>2 DEF Quiet, WorkerWrites
<1>3. CASE UpdateFinalizer \/ \E g \in Cluster : Start(g) \/ DeliverFsc(g) \/ CreateFsc(g) \/ DeleteFsc(g)
  <2>1. UNCHANGED <<sec, obj, old, class>>
    BY <1>3, UserFscCases DEF UpdateFinalizer, Start, DeliverFsc, objects
  <2> QED BY <1>0, <1>1, <2>1, StillObjects
<1>4. CASE \E x \in Secret : DeliverSecret(x)
  BY <1>4, SecretEvent
<1>5. CASE \E k \in Kind : DeliverObject(k)
  BY <1>5, ObjectEvent
<1>6. CASE \E n \in ClassName : DeliversClass(n)
  BY <1>0, <1>6, ClassEvent
<1> QED BY <1>2, <1>3, <1>4, <1>5, <1>6, StepKinds, WorkerSteps

\* No step replaces a class by another one.
LEMMA AlternatesStep ==
    ASSUME TInv, ClassAlternates, Next
    PROVE  ClassAlternates'
<1>0. LogTypes
  BY TypeParts DEF TInv
<1>1. CASE ObjectsGrow
  BY <1>1 DEF ObjectsGrow
<1>2. CASE Quiet \/ WorkerWrites
  BY <1>1, <1>2 DEF Quiet, WorkerWrites
<1>3. CASE UNCHANGED class
  BY <1>3 DEF ClassAlternates
<1>4. CASE \/ UpdateFinalizer \/ \E g \in Cluster : Start(g) \/ DeliverFsc(g) \/ CreateFsc(g) \/ DeleteFsc(g)
           \/ \E x \in Secret : DeliverSecret(x)
           \/ \E k \in Kind : DeliverObject(k)
  <2>1. UNCHANGED class
    BY <1>4, UserFscCases DEF UpdateFinalizer, Start, DeliverFsc, objects, DeliverSecret, DeliverObject
  <2> QED BY <1>3, <2>1
<1>5. ASSUME NEW n \in ClassName, DeliversClass(n) PROVE ClassAlternates'
  <2>1. /\ class[n] \in Log(ClassObject \cup {None}) /\ class'[n] = Tail(class[n]) /\ ~Synced(class[n])
        /\ \A m \in ClassName \ {n} : class'[m] = class[m]
    BY <1>5, ClassTail DEF DeliversClass
  <2>2. /\ Len(class[n]) \in Nat /\ Len(class[n]) > 1
        /\ Len(class'[n]) = Len(class[n]) - 1
        /\ \A i \in 1..Len(class[n]) - 1 : class'[n][i] = class[n][i + 1]
    BY <2>1, TailIs
  <2> SUFFICES ASSUME NEW m \in ClassName, NEW j \in 1..Len(class'[m]) - 1
               PROVE  None \in {class'[m][j], class'[m][j + 1]}
    BY DEF ClassAlternates
  <2>3. CASE m # n
    BY <2>1, <2>3 DEF ClassAlternates
  <2>4. CASE m = n
    <3>1. j + 1 \in 1..Len(class[n]) - 1 /\ j \in 1..Len(class[n]) - 1
      BY <2>2, <2>4
    <3>2. class'[m][j] = class[n][j + 1] /\ class'[m][j + 1] = class[n][(j + 1) + 1]
      BY <2>2, <2>4, <3>1
    <3>3. None \in {class[n][j + 1], class[n][(j + 1) + 1]}
      BY <3>1 DEF ClassAlternates
    <3> QED BY <3>2, <3>3
  <2> QED BY <2>3, <2>4
<1>6. CASE Reboot /\ ops' \in 0..MaxOps
  <2>1. \A n \in ClassName : Len(class'[n]) = 1
    BY <1>6, RebootTypes
  <2> SUFFICES ASSUME NEW n \in ClassName, NEW j \in 1..Len(class'[n]) - 1 PROVE FALSE
    BY DEF ClassAlternates
  <2>2. Len(class'[n]) = 1
    BY <2>1
  <2> QED BY <2>2
<1> QED BY <1>2, <1>4, <1>5, <1>6, StepKinds, WorkerSteps

\* What is done for a cluster at rest is the work of the worker, or was done before.
LEMMA RestDoneStep ==
    ASSUME TInv, FInv, DInv, Next
    PROVE  RestDone'
<1> SUFFICES ASSUME NEW f \in Cluster, Settled(f)', NEW o, o = Live(fsc'[f])
             PROVE  /\ ~o.del
                    /\ SecretDone(f)'
                    /\ \A k \in Kind : ExporterDone(k, o.uid)'
                    /\ ClassDone(o.default)'
  BY DEF RestDone
<1>1. fsc'[f] = fsc[f] /\ f \notin queue' /\ o # None /\ o = Live(fsc[f]) /\ Synced(fsc[f])
  BY SettledBefore DEF Settled, AtRest
<1>2. Cached(fsc[f]) = o /\ o \in FscOf(f)
  BY <1>1, FscVersions, SyncedIsLive
<1>3. o.uid[1] = f /\ o.default \in DefaultPool \cup {None}
  BY <1>2 DEF FscOf, FscObject
<1>4. ~Reboot
  BY <1>1 DEF Reboot
<1>5. Keeps(f, o.uid, o.default)
  BY <1>1, <1>2, <1>3, <1>4, StepKeeps DEF DInv
<1>6. CASE Settled(f)
  BY <1>1, <1>5, <1>6 DEF DInv, RestDone, Keeps
<1>7. CASE CreateOrUpdatePrometheusRules /\ f = w.req /\ w.cur /\ f \notin queue
  <2>1. w.pc = "rule" /\ w.inst = o
    BY <1>1, <1>7 DEF CreateOrUpdatePrometheusRules, TInv, CopyLive
  <2>2. \A k \in Kind : "rule" \in AfterKind[k]
    BY ObjectsConstants DEF AfterKind
  <2>3. SecretDone(f) /\ (\A k \in Kind : ExporterDone(k, o.uid)) /\ ClassDone(o.default)
    BY <1>7, <2>1, <2>2 DEF DInv, WorkDone
  <2>4. ~o.del
    BY <2>1 DEF FInv, WorkerKept, Staying
  <2> QED BY <1>5, <2>3, <2>4 DEF Keeps
<1> QED BY <1>6, <1>7, SettledBefore

\* A step keeps what the worker has done for a cluster that is not queued again.
LEMMA WorkKeeps ==
    ASSUME TInv, DInv, Next, w.pc # "idle", w.req \notin queue', queue \subseteq queue', w' # Idle,
           NEW r, r = w.req, NEW u, u = w.inst.uid, NEW d, d = w.inst.default
    PROVE  Keeps(r, u, d)
<1>1. r \in Cluster /\ w.inst \in FscOf(r) /\ w.inst \in FscObject
  BY TypeParts DEF TInv, WorkerTypes, CopyLive
<1>2. u[1] = r /\ d \in DefaultPool \cup {None}
  BY <1>1 DEF FscOf, FscObject
<1>3. Cached(fsc[r]) # None /\ Cached(fsc[r]).default = d
  BY DEF DInv, WorkDone
<1>4. ~Reboot
  BY DEF Reboot
<1> QED BY <1>1, <1>2, <1>3, <1>4, StepKeeps DEF DInv

\* The same for a worker that stays where it is.
LEMMA WorkStays ==
    ASSUME TInv, DInv, Next, w'.pc = w.pc, w'.req = w.req, w'.inst = w.inst, queue \subseteq queue',
           w.pc # "idle" /\ w.req \notin queue' => Cached(fsc'[w.req]) = Cached(fsc[w.req])
    PROVE  WorkDone'
<1> SUFFICES ASSUME w.pc # "idle", w.req \notin queue' PROVE WorkDone'
  BY DEF WorkDone
<1>1. PICK r, u, d : r = w.req /\ u = w.inst.uid /\ d = w.inst.default
  OBVIOUS
<1>2. w' # Idle
  BY IdleType
<1>3. Keeps(r, u, d)
  BY <1>1, <1>2, WorkKeeps
<1>4. /\ Cached(fsc[r]) # None /\ Cached(fsc[r]).default = d
      /\ w.pc \in Kind \cup {"class", "rule"} => SecretDone(r)
      /\ \A k \in Kind : w.pc \in AfterKind[k] => ExporterDone(k, u)
      /\ w.pc = "rule" => ClassDone(d)
  BY <1>1 DEF DInv, WorkDone
<1>5. /\ w.pc \in Kind \cup {"class", "rule"} => SecretDone(r)'
      /\ \A k \in Kind : w.pc \in AfterKind[k] => ExporterDone(k, u)'
      /\ w.pc = "rule" => ClassDone(d)'
  BY <1>3, <1>4 DEF Keeps
<1>6. w'.req = r /\ w'.inst.uid = u /\ w'.inst.default = d /\ Cached(fsc'[r]) = Cached(fsc[r])
  BY <1>1
<1> QED BY <1>4, <1>5, <1>6 DEF WorkDone

\* A worker that goes on has done what it should have done by then.
LEMMA GoesDone ==
    ASSUME TInv, DInv, NEW pc, Goto(pc), UNCHANGED fsc, w.pc # "idle",
           NEW r, r = w.req, NEW u, u = w.inst.uid, NEW d, d = w.inst.default,
           r \notin queue =>
             /\ pc \in Kind \cup {"class", "rule"} => SecretDone(r)'
             /\ \A k \in Kind : pc \in AfterKind[k] => ExporterDone(k, u)'
             /\ pc = "rule" => ClassDone(d)'
    PROVE  WorkDone'
<1>1. w'.pc = pc /\ w'.req = r /\ w'.inst.uid = u /\ w'.inst.default = d /\ queue' = queue
  BY TypeParts DEF TInv, WorkerTypes, Worker, Goto
<1>2. r \notin queue => Cached(fsc'[r]) # None /\ Cached(fsc'[r]).default = d
  BY DEF DInv, WorkDone
<1> QED BY <1>1, <1>2 DEF WorkDone

\* The worker's own steps.
LEMMA WorkGoes ==
    ASSUME TInv, DInv, Next,
           \/ ensureSecretOwnership \/ \E k \in Kind : ensureExporter(k)
           \/ ensureDefaultStorageClass \/ deleteDefaultStorageClass \/ Fault
    PROVE  WorkDone'
<1>1. CASE Return(TRUE)
  BY <1>1, IdleType DEF WorkDone, Return
<1>2. PICK r, u, d : r = w.req /\ u = w.inst.uid /\ d = w.inst.default
  OBVIOUS
<1>3. UNCHANGED fsc /\ w.pc # "idle"
  BY WorkerSteps DEF WorkerWrites
<1>4. r \notin queue =>
        /\ w.pc \in Kind \cup {"class", "rule"} => SecretDone(r)
        /\ \A k \in Kind : w.pc \in AfterKind[k] => ExporterDone(k, u)
  BY <1>2, <1>3 DEF DInv, WorkDone
<1>5. ASSUME NEW pc, Goto(pc), pc # "idle", r \notin queue PROVE Keeps(r, u, d)
  <2>1. queue' = queue /\ w'.pc = pc
    BY <1>5, TypeParts DEF Goto, TInv, WorkerTypes, Worker
  <2>2. w' # Idle
    BY <1>5, <2>1, IdleType
  <2> QED BY <1>2, <1>3, <1>5, <2>1, <2>2, WorkKeeps
<1>6. \A k \in Kind : k # "idle" /\ k # "rule" /\ k # "class"
  BY ObjectsConstants
<1>7. CASE ensureSecretOwnership /\ ~Return(TRUE)
  <2>1. Goto(FromService) /\ SecretDone(r)' /\ w.pc = "secret"
    BY <1>2, <1>7, SecretStep DEF ensureSecretOwnership
  <2>2. FromService # "rule" /\ \A k \in Kind : FromService \notin AfterKind[k]
    BY <1>6, KindsFollow
  <2> QED BY <1>2, <1>3, <2>1, <2>2, GoesDone
<1>8. ASSUME NEW k \in Kind, ensureExporter(k), ~Return(TRUE) PROVE WorkDone'
  <2>1. Goto(NextPc[k]) /\ ExporterDone(k, u)' /\ w.pc = k
    BY <1>2, <1>8, ExporterStep DEF ensureExporter
  <2>2. NextPc[k] \in Kind \cup {"class"} /\ NextPc[k] # "rule" /\ NextPc[k] # "idle"
    BY <1>6, KindsFollow
  <2>3. ASSUME r \notin queue PROVE SecretDone(r)' /\ \A j \in Kind : NextPc[k] \in AfterKind[j] => ExporterDone(j, u)'
    <3>1. Keeps(r, u, d) /\ SecretDone(r)
      BY <1>4, <1>5, <2>1, <2>2, <2>3
    <3>2. ASSUME NEW j \in Kind, NextPc[k] \in AfterKind[j] PROVE ExporterDone(j, u)'
      <4>1. CASE j = k
        BY <2>1, <4>1
      <4>2. CASE k \in AfterKind[j]
        BY <1>4, <2>1, <2>3, <3>1, <4>2 DEF Keeps
      <4> QED BY <3>2, <4>1, <4>2, KindsFollow
    <3> QED BY <3>1, <3>2 DEF Keeps
  <2> QED BY <1>2, <1>3, <2>1, <2>2, <2>3, GoesDone
<1>9. CASE ensureDefaultStorageClass /\ ~Return(TRUE)
  <2>1. Goto("rule") /\ ClassDone(d)' /\ w.pc = "class"
    BY <1>2, <1>9, ClassStep DEF ensureDefaultStorageClass, DInv
  <2>2. ASSUME r \notin queue PROVE SecretDone(r)' /\ \A j \in Kind : ExporterDone(j, u)'
    BY <1>4, <1>5, <2>1, <2>2, KindsFollow DEF Keeps
  <2> QED BY <1>2, <1>3, <2>1, <2>2, GoesDone
<1>10. CASE deleteDefaultStorageClass /\ ~Return(TRUE)
  <2>1. Goto("finalizer")
    BY <1>10, DeleteClassStep
  <2>2. "finalizer" \notin Kind \cup {"class", "rule"} /\ \A k \in Kind : "finalizer" \notin AfterKind[k]
    BY KindsFollow, ObjectsConstants
  <2> QED BY <1>2, <1>3, <2>1, <2>2, GoesDone
<1>11. CASE Fault
  BY <1>1, <1>11 DEF Fault
<1> QED BY <1>1, <1>7, <1>8, <1>9, <1>10, <1>11

\* At the start of a Reconcile nothing is done yet.
LEMMA StartDone ==
    ASSUME TInv, NEW f \in Cluster, Start(f)
    PROVE  WorkDone'
<1>1. CASE w' = Idle
  BY <1>1, IdleType DEF WorkDone
<1>2. CASE w' # Idle
  <2>1. /\ Cached(fsc[f]) # None /\ UNCHANGED fsc
        /\ w'.req = f /\ w'.inst = Cached(fsc[f]) /\ w'.pc \in {"deleteClass", "secret", "finalizer"}
    BY <1>2 DEF Start, objects
  <2>2. w'.pc \notin Kind \cup {"class", "rule"} /\ \A k \in Kind : w'.pc \notin AfterKind[k]
    BY <2>1, KindsFollow, ObjectsConstants
  <2> QED BY <2>1, <2>2 DEF WorkDone
<1> QED BY <1>1, <1>2

\* The finalizer comes before everything else.
LEMMA FinalizerDone ==
    ASSUME TInv, DInv, UpdateFinalizer
    PROVE  WorkDone'
<1>1. CASE Return(TRUE)
  BY <1>1, IdleType DEF WorkDone, Return
<1>2. CASE ~Return(TRUE)
  <2>0. w.req \in Cluster /\ w.pc # "idle"
    BY TypeParts DEF UpdateFinalizer, TInv, WorkerTypes
  <2>1. PICK new \in FscOf(w.req) :
          /\ new.default = w.inst.default /\ Puts(fsc', fsc, w.req, new) /\ queue' = queue
          /\ w'.pc = "secret" /\ w'.req = w.req /\ w'.inst = new
    BY <1>2, FinalizerCases
  <2>2. Cached(fsc'[w.req]) = Cached(fsc[w.req])
    BY <2>0, <2>1, FscPut
  <2>3. "secret" \notin Kind \cup {"class", "rule"} /\ \A k \in Kind : "secret" \notin AfterKind[k]
    BY KindsFollow, ObjectsConstants
  <2>4. w.req \notin queue => Cached(fsc[w.req]) # None /\ Cached(fsc[w.req]).default = w.inst.default
    BY <2>0 DEF DInv, WorkDone
  <2> QED BY <2>1, <2>2, <2>3, <2>4 DEF WorkDone
<1> QED BY <1>1, <1>2

\* What is behind the worker stays done, or its cluster is queued.
LEMMA WorkDoneStep ==
    ASSUME TInv, DInv, Next
    PROVE  WorkDone'
<1>1. CASE \/ Quiet
           \/ \E x \in Secret : DeliverSecret(x)
           \/ \E k \in Kind : DeliverObject(k)
           \/ \E n \in ClassName : DeliversClass(n)
  <2>1. UNCHANGED <<fsc, w>> /\ queue \subseteq queue'
    BY <1>1 DEF Quiet, DeliverSecret, DeliverObject, DeliversClass
  <2> QED BY <2>1, WorkStays
<1>2. ASSUME NEW f \in Cluster, CreateFsc(f) \/ DeleteFsc(f) PROVE WorkDone'
  <2>1. w'.pc = w.pc /\ w'.req = w.req /\ w'.inst = w.inst /\ queue \subseteq queue'
    BY <1>2, UserFscCases
  <2>2. PICK v \in FscOf(f) \cup {None} : Puts(fsc', fsc, f, v)
    BY <1>2, UserFscCases
  <2>3. \A g \in Cluster : Cached(fsc'[g]) = Cached(fsc[g])
    BY <2>2, FscPut
  <2>4. w.pc # "idle" => w.req \in Cluster
    BY TypeParts DEF TInv, WorkerTypes
  <2> QED BY <2>1, <2>3, <2>4, WorkStays
<1>3. ASSUME NEW f \in Cluster, DeliverFsc(f) PROVE WorkDone'
  <2>1. w' = w /\ queue' = queue \cup {f}
    BY <1>3 DEF DeliverFsc
  <2>2. \A g \in Cluster \ {f} : fsc'[g] = fsc[g]
    BY <1>3, FscTail
  <2>3. w.pc # "idle" => w.req \in Cluster
    BY TypeParts DEF TInv, WorkerTypes
  <2>4. w.pc # "idle" /\ w.req \notin queue' => Cached(fsc'[w.req]) = Cached(fsc[w.req])
    BY <2>1, <2>2, <2>3
  <2> QED BY <2>1, <2>4, WorkStays
<1>4. CASE CreateOrUpdatePrometheusRules \/ Reboot
  <2>1. w' = Idle
    BY <1>4, RuleStep DEF Return, Reboot
  <2> QED BY <2>1, IdleType DEF WorkDone
<1> QED BY <1>1, <1>2, <1>3, <1>4, StepKinds, WorkGoes, StartDone, FinalizerDone

\* At the start every cluster is queued.
LEMMA InitDone ==
    ASSUME Init
    PROVE  DInv
<1>1. \A f \in Cluster : Live(fsc[f]) # None => f \in queue
  <2> SUFFICES ASSUME NEW f \in Cluster, Live(fsc[f]) # None PROVE f \in queue
    OBVIOUS
  <2>1. Synced(fsc[f])
    BY DEF Init, Synced
  <2>2. Cached(fsc[f]) = Live(fsc[f])
    BY <2>1, InitTypes, FscVersions, SyncedIsLive
  <2> QED BY <2>2 DEF Init, CachedFscs
<1>2. RestDone
  BY <1>1 DEF RestDone, Settled, AtRest
<1>3. WorkDone
  BY IdleType DEF Init, WorkDone
<1>4. ClassAlternates
  <2> SUFFICES ASSUME NEW n \in ClassName, NEW j \in 1..Len(class[n]) - 1 PROVE FALSE
    BY DEF ClassAlternates
  <2>1. \E o \in ClassObject \cup {None} : class[n] = <<o>>
    BY DEF Init
  <2>2. Len(class[n]) = 1
    BY <2>1
  <2> QED BY <2>2
<1> QED BY <1>2, <1>3, <1>4 DEF DInv

\* The third inductive invariant.
LEMMA DoneInv == Spec => [](TInv /\ FInv /\ DInv)
<1>1. Init => TInv /\ FInv /\ DInv
  BY InitTypes, InitKept, InitDone
<1>2. TInv /\ FInv /\ DInv /\ [Next]_vars => (TInv /\ FInv /\ DInv)'
  <2> SUFFICES ASSUME TInv, FInv, DInv, [Next]_vars PROVE TInv' /\ FInv' /\ DInv'
    OBVIOUS
  <2>1. TInv' /\ FInv'
    BY StepTypes, StepKept
  <2>2. CASE Next
    BY <2>1, <2>2, AlternatesStep, RestDoneStep, WorkDoneStep DEF DInv
  <2>3. CASE UNCHANGED vars
    <3>1. ClassAlternates' /\ RestDone' /\ WorkDone'
      BY <2>3 DEF DInv, ClassAlternates, RestDone, WorkDone, Settled, AtRest, SecretDone, ExporterDone, ClassDone, vars, objects
    <3> QED BY <2>1, <3>1 DEF DInv
  <2> QED BY <2>2, <2>3
<1> QED BY <1>1, <1>2, PTL DEF Spec

\* A cluster at rest has its exporter: when the cache is up to date, the
\* Service, the Deployment and the ServiceMonitor exist as they should be, are
\* owned by this very cluster, and nothing is left of an older release.  What
\* users and the garbage collector do to them reaches the cluster through
\* the owner references (EnqueueRequestForOwner).
THEOREM ExporterIsSettled == Spec => []ExporterSettled
<1>1. ASSUME TInv, DInv PROVE ExporterSettled
  <2> SUFFICES ASSUME NEW f \in Cluster, NEW k \in Kind, Settled(f), Synced(obj[k])
               PROVE  /\ Live(obj[k]) # None /\ Live(obj[k]).ok
                      /\ Live(fsc[f]).uid \in Live(obj[k]).owners /\ k \notin old
    BY DEF ExporterSettled
  <2>1. ExporterDone(k, Live(fsc[f]).uid)
    BY <1>1 DEF DInv, RestDone
  <2>2. obj[k] \in Log(Owned \cup {None})
    BY <1>1, TypeParts DEF TInv, LogTypes
  <2>3. Cached(obj[k]) = Live(obj[k])
    BY <2>2, SyncedIsLive
  <2>4. ASSUME NEW j \in 2..Len(obj[k]) PROVE FALSE
    <3>1. Len(obj[k]) = 1
      BY DEF Synced
    <3> QED BY <2>4, <3>1
  <2> QED BY <2>1, <2>3, <2>4 DEF ExporterDone
<1>2. TInv /\ FInv /\ DInv => ExporterSettled
  BY <1>1
<1> QED BY <1>2, DoneInv, PTL

\* A cluster at rest has its secret, and the secret has an owner: also after
\* the garbage collector has taken the secret along with another cluster
\* (SecretToClusterMapFunc queues the ones that are left).
THEOREM SecretIsSettled == Spec => []SecretSettled
<1>1. TInv /\ FInv /\ DInv => SecretSettled
  BY DEF DInv, RestDone, SecretDone, SecretSettled
<1> QED BY <1>1, DoneInv, PTL

\* A cluster at rest with a default pool has its default class, also after a
\* user, or the deletion of another cluster that names the same class, has
\* taken it (DefaultStorageClassToClusterMapperFunc).
THEOREM DefaultClassIsSettled == Spec => []DefaultClassSettled
<1>1. ASSUME DInv PROVE DefaultClassSettled
  <2> SUFFICES ASSUME NEW f \in Cluster, Settled(f), Live(fsc[f]).default # None, Synced(class[Live(fsc[f]).default.class])
               PROVE  Live(class[Live(fsc[f]).default.class]) = InitDefaultStorageClass(Live(fsc[f]).default)
    BY DEF DefaultClassSettled
  <2> DEFINE log == class[Live(fsc[f]).default.class]
  <2>1. ClassDone(Live(fsc[f]).default)
    BY <1>1 DEF DInv, RestDone
  <2>2. ASSUME NEW j \in 2..Len(log) PROVE FALSE
    <3>1. Len(log) = 1
      BY DEF Synced
    <3> QED BY <2>2, <3>1
  <2> QED BY <2>1, <2>2 DEF ClassDone
<1>2. TInv /\ FInv /\ DInv => DefaultClassSettled
  BY <1>1
<1> QED BY <1>2, DoneInv, PTL
=============================================================================
