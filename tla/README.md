# A TLA+ model of the IBM Storage ODF operator

The operator runs in an OpenShift cluster and keeps the objects that OpenShift
Data Foundation needs for IBM FlashSystem storage: for every
`FlashSystemCluster` custom resource a CSI driver CR, a default StorageClass,
an exporter with its Service and ServiceMonitor, the labels of its volumes, and
above all the *pools ConfigMap* `ibm-flashsystem-pools`, which tells the exporter
which StorageClass uses which pool of which storage system.  This directory models the operator's
controllers, checks the models with TLC on small instances and proves the main
facts with TLAPS for instances of any size.

File names below are relative to `src/`.

## The system

All controllers run in one process (`main.go`) on controller-runtime 0.23.  They
share one *cache* of API objects, fed by watch events; every `Get` and `List`
reads the cache, every `Create`, `Update` and `Delete` goes to the API server.
Each controller has one worker (`MaxConcurrentReconciles: 1`) and a work queue of
names; event handlers put names in the queues, and a name whose `Reconcile` fails
is put back.

| Part | State | Operations | Interacts with |
| --- | --- | --- | --- |
| FlashSystemCluster reconciler, `controllers/flashsystemcluster_controller.go` | queue of cluster names, flag `IsCSICRCreated`, the copies a reconcile works on | finalizer, secret ownership, CSI CR, pools ConfigMap entry, exporter objects, default StorageClass, Prometheus rule, conditions and phase; deletion | watches clusters, secrets, StorageClasses (deletion), ConfigMaps (deletion), CSI CRs (deletion), exporter objects |
| StorageClass watcher, `controllers/storageclass/` | queue of class names, a copy of the pools ConfigMap | matches a class to clusters through the management addresses in secrets, records its pool in the entries, removes it elsewhere | watches classes, clusters (creation, deletion), secrets (address changes), ConfigMaps (deletion) |
| Pool utilities, `controllers/util/poolutil.go` | none | get or create the ConfigMap, map clusters by address, event predicates, the exporter's reader of the mounted map | used by the three controllers |
| CSI driver CR and default StorageClass, `controllers/driver.go` | the CR, the class | create if missing, compare, delete | reconciler |
| Exporter objects, `controllers/exporter.go` | Deployment, Service, ServiceMonitor shared by all clusters through owner references | create, merge owners, update, remove duplicates | reconciler |
| Conditions and phase, `controllers/util/condition.go`, `api/v1alpha1/` | `status.conditions`, `status.phase` | set by each error path and at the end of a reconcile | reconciler; the exporter writes some conditions |
| PersistentVolume watcher, `controllers/persistentvolume/` | the storage-system label of a volume | compute the label from claim, class, secret and clusters | watches volumes, clusters (creation, deletion), secrets (address changes) |
| ClusterVersion controller and console, `controllers/clusterversion_controller.go`, `console/` | console Service and ConsolePlugin, the plugin's name in the Console's list | create if missing, from a Runnable at startup and from a reconciler; enable; remove at exit | watches the ClusterVersion; shares the Console with other operators |

### What is hard about it

The two controllers that write the pools ConfigMap write it *as a whole*, from a
copy read earlier from a cache that may be behind.  Everything rests on the API
server's version check, on retries, and on the event handlers queuing everything
a change concerns:

* a cluster or a class may be deleted, created or changed between the read and
  the write of the other controller;
* the watcher hands the ConfigMap to its helpers *by value*, so once an Update in
  its loop has changed the object, the next Update of the same loop has an old
  version and conflicts with its own predecessor: a class that moves from one
  cluster to another takes at least two reconciles, in a random order of the keys;
* a class may be reconciled before the reconciler has added its cluster's entry;
* users delete the ConfigMap, and both controllers must rebuild it together;
* the process may stop anywhere and loses queues and pending events.

The status of a cluster is written as a whole too, by the reconciler and by the
exporter, and every reconcile refreshes times in it and so may cause the next one.
The flag `IsCSICRCreated` is set by the reconciler's worker and cleared by an event
handler that runs in another thread, without a lock.

The exporter's objects belong to all clusters at once, by owner references that every
reconcile extends in a copy of the object, while the garbage collector of the API
server drops references and deletes objects whose owners are gone.  It also deletes a
secret with the one cluster that owns it, under the others that use it.

The label of a volume depends on six objects of which only three kinds are watched,
and a watch may miss the change that matters; whatever cannot be computed now has to
be retried until it can.

For the console three activities of one process race for the same objects, an error of
two of them ends the process, and a process that stops in good order undoes what its
successor must do again.

`PROJECT.json` lists these hazards with the lines where they bite.

### What makes each part correct

* Pools ConfigMap: it changes one entry or one class of one entry at a time
  (`PoolMapSpec`), entries of existing clusters are not lost (`EntryKept`), and
  when everything has been processed it says exactly what the live clusters,
  classes and secrets say (`LiveScRecorded`, `DeadScForgotten`, `LiveFscListed`,
  `DeadFscForgotten`, `PoolsConverge`).
* Status: the operator keeps what the exporter reports (`ReportsKept`); a cluster at rest
  has been reconciled and is `Ready` exactly if its conditions are (`PhaseSettled`), in
  the end every cluster's status is like that (`StatusConverges`), and nothing but
  heartbeat writes can keep the clusters from coming to rest (`StatusRests`).  That the
  phase is never `Ready` after a failed launch of the driver (`ReadyMeansProvisioned`)
  does not hold.
* CSI CR: once the handler of a deletion has returned, no cluster rests with the flag
  clear (`FlagSettled`).  That there is a CR whenever there is a cluster and nothing left to
  do (`DriverLaunched`) does not hold.
* Exporter objects: a cluster at rest has all of them, as they should be, with itself
  among their owners (`ExporterSettled`), and no write drops a live owner
  (`OwnersKept`); its Prometheus rule is as it should be and its own, unless something
  has happened to it that nobody watches (`RuleSettled`).
* Secret: a cluster at rest has its secret, and the secret an owner (`SecretSettled`).
* Default StorageClass: a cluster at rest has the class its spec asks for
  (`DefaultClassSettled`).
* Volume label: at rest, and in the end, it names the cluster that serves the volume,
  unless a change was not reported (`LabelSettled`, `LabelsConverge`), and setting it undoes nothing (`VolumesKept`).
* Console: Service and ConsolePlugin are there when nobody is at work on them
  (`ConsoleSettled`), in the end they are and the plugin is enabled
  (`ConsoleConverges`), and the plugins of others stay in the list (`PluginsKept`).

## The modules

| Module | What it is |
| --- | --- |
| `VersionLog` | an API object as a client with a cache sees it: a sequence of versions |
| `PoolMap` | the abstract specification of the pools ConfigMap: create, delete, drop the legacy key, add or remove one cluster, set one class of one entry |
| `StorageClassMatch` | the pure part of the watcher: which clusters and pools a class is matched to, and which secret events queue which classes |
| `PoolsConfigMap` | the two controllers, their queues and workers, the cache, the API server, users, restarts and faults; imports `PoolMap` with `pools <- Live(cm)` |
| `MCPools` | the classes, secrets and clusters of the small instances |
| `ClusterStatus` | conditions and phase of the clusters, the exporter as the other writer of the status, the CSI CR and the flag with its event handler |
| `MCStatus` | its small instances |
| `ClusterObjects` | the objects the reconciler keeps for the clusters: exporter objects and their owners, secret ownership, default StorageClass, Prometheus rules; the garbage collector |
| `VolumeLabels` | the PersistentVolume watcher; uses `StorageClassMatch` |
| `ConsolePlugin` | the ClusterVersion reconciler, the two Runnables, the end of a process and the start of the next |
| `MCObjects`, `MCVolumes`, `MCConsole` | their small instances |
| `VersionLogProofs` | what reads, writes, events and restarts do to a log of versions |
| `PoolsProofs`, `EntriesProofs`, `ClassesProofs` | the theorems about `PoolsConfigMap`: types and refinement, the entries of the clusters, the pools of the classes |
| `StatusProofs`, `ObjectsProofs`, `VolumeProofs`, `ConsoleProofs` | the theorems about `ClusterStatus`, `ClusterObjects`, `VolumeLabels` and `ConsolePlugin` |

### How state and actions correspond to the code

*Objects.*  `fsc[f]`, `sc[s]`, `sec[x]` and `cm` are logs of versions.  The head
is what the cache has, the last one is what the API server has, those after the
head are watch events on their way.  A cluster has its secret's name, whether it
carries the operator's finalizer and whether it is marked for deletion; a class
its parameters and whether it is marked; a secret its `management_address` and its
topology `config`.  The content of the ConfigMap maps keys to entries; JSON
encoding is one-to-one here and is left out.  All model classes are of the block
CSI provisioner; the watcher filters out the others before anything else.

*Versions.*  The API server refuses an Update whose resource version is not the
live one.  Instead of numbers a worker's copy has a flag (`cur`, `instCur`): a
read sets it when the log has one version, every later write by anybody else
clears it.  An Update that changes nothing makes no version and no event, as the
API server does it.

*Workers.*  `fscW.pc` and `scW.pc` stand between the API calls of the two
`Reconcile` functions:

| Action | Code |
| --- | --- |
| `FscStart` | `Reconcile`: Get of the instance, branch on the deletion timestamp and the finalizer |
| `FscUpdateFinalizer` | `reconcile`: Update that adds or removes the finalizer |
| `FscEnsureSecret` | `ensureSecretOwnership` and `ensureFlashSystemCSICR`, as far as they can end the reconcile |
| `GetCreateConfigmap` | `util.GetCreateConfigmap` with `createIfMissing` |
| `FscDropPools`, `FscAddEntry` | the two Updates of `ensureScPoolConfigMap` |
| `FscUpdateStatus` | the rest of `reconcile` and `Status().Update` |
| `FscRemoveEntry` | `removeFscFromConfigMap` |
| `ScStart` | watcher `Reconcile`: `GetCreateConfigmap` without creating |
| `ScMatch` | Get of the class, `getFlashSystemClusterByStorageClass`, check of the entries |
| `ScUpdate(k)` | one round of the loop over the keys: `addStorageClassToConfigMap` or `removeStorageClassFromConfigMap` |
| `DeliverFsc`, `DeliverSc`, `DeliverSecret`, `DeliverCm` | a watch event: the cache moves on and the map functions and predicates of both controllers queue names |
| `Restart`, `Fault` | the process is replaced; an API call fails |

`ClusterStatus` has the rest of the same reconciler; `w.pc` stands between its steps:

| Action | Code |
| --- | --- |
| `Start` | `Reconcile`: Get of the instance |
| `ensureSecretOwnership` | the secret check, as far as it can fail |
| `CheckFlag`, `HasIBMBlockCSICRExisted`, `CreateIBMBlockCSICR`, `SetFlag` | `ensureFlashSystemCSICR`: the flag is read, CRs are listed, one is created, the flag is set |
| `ExporterCreated` | the ConfigMap, Service, Deployment and ServiceMonitor steps, then the condition `ExporterCreated` |
| `ReconcileComplete` | default StorageClass, Prometheus rule, `SetReconcileCompleteCondition` and the phase |
| `CsiFails`, `EnsureFails` | the error paths of `reconcile`: of the CSI step, of all the others |
| `StatusUpdate` | `Status().Update` and what `Reconcile` returns |
| `CSIToClusterMapFunc` | the event handler of a deleted CR, in two steps: clear the flag, list the clusters |
| `ExporterReports`, `CreateCr`, `DeleteCr`, `CreateFsc`, `DeleteFsc` | the exporter and the users; the deletion of a cluster is one step, which may come at any moment of a reconcile |

Conditions are "absent", "True" or "False"; "Unknown" is only set by
`SetReconcileProgressingCondition`, which nobody calls.  Reasons and messages are
left out, and of the times only that a heartbeat may make an Update news (`PutStatus`).
The branch of the phase that yields `Progressing` is there as in the code; it is never
taken, because `SetReconcileCompleteCondition` has just set that condition to False.
CRs are read and created by a dynamic client without a cache, so they are a set and not
logs; the list is of all namespaces (`GetAllNamespace` collects the *namespace* of each
Namespace object, which is empty, so each of its lists is one of all namespaces).

`ClusterObjects` has the steps of the same reconciler that `ClusterStatus` takes as one:

| Action | Code |
| --- | --- |
| `Start`, `UpdateFinalizer` | `Reconcile` and the finalizer part of `reconcile` |
| `ensureSecretOwnership` | the same: a secret without an owner gets this cluster |
| `ensureExporter(k)` | `ensureExporterService`, `ensureExporterDeployment`, `ensureExporterServiceMonitor`, for each kind `k`, in the order of `NextPc`: `deleteDuplicated...`, then `CreateOrUpdate` with `updateExporter` and `isOwnerExist` |
| `ensureDefaultStorageClass`, `deleteDefaultStorageClass` | the same |
| `CreateOrUpdatePrometheusRules` | `enablePrometheusRules` and `Status().Update` |
| `DeliverFsc`, `DeliverSecret`, `DeliverObject`, `DeliverClass` | the watches of `SetupWithManager`: by name, `SecretToClusterMapFunc`, the owners, `DefaultStorageClassToClusterMapperFunc` |
| `DeleteRule`, `EditRule` | a user changes a rule; `SetupWithManager` has no watch on rules, so nothing is queued |
| `GcSecret`, `GcRule`, `GcDecides`, `GcDeletes`, `GcDropsOwners` | the garbage collector (external) |

An owner is a UID, so a cluster that comes back under its name is another owner; the
events go to names.  A spec is as expected or not.  The Service and the Deployment
never compare equal to what is expected, since the API server drops or fills in
fields, so every reconcile sends an Update of them; one that changes nothing makes no
version.  Each Get is one action with the write that follows it: a copy that is
written with success is still the live version, hence still in the cache.  With a
cluster that has no default pool, the deletion of any StorageClass makes
`DefaultStorageClassToClusterMapperFunc` follow a nil pointer; a panic in an event
handler is not recovered, so this is a restart (`Reboot`).
`stray` is a history variable: the clusters to whose rule something has happened that no
watch reports, since a reconcile last left it as it should be.  That is a deletion or an
edit by a user, or the creation of the cluster while the rule of a former one of its name was
still there, with an owner that is gone.

`VolumeLabels`: `Start` is `Reconcile` with `getPVManagementAddress`,
`ensureStorageSystemLabel` the rest of it; `DeliverPv`, `DeliverFsc` and
`DeliverSecret` are the watches with `pvPredicate`, `IgnoreUpdateAndGenericPredicate`
and `SecretMgmtAddrPredicate`; `pvMap` queues all volumes.  The volumes of the model
are of the block driver; whether a volume refers to a claim may change.  Claims and
classes are read but not watched: a cache that is behind is a read before the user's
step, so only the live ones are kept.  A deleted claim does not come back: the volume
would be bound to another one of its name only with a new reference.  A failing lookup is retried, which changes
nothing until it succeeds: `Start` is enabled when it does.
A cluster may name another secret (`UpdateFsc`) and a class may come back with other
parameters (`CreateClass`).  `IgnoreUpdateAndGenericPredicate` drops the former and nobody
watches the latter, so they set the history variable `unheard`, as does a change of a secret
that `SecretMgmtAddrPredicate` does not report though a match reads it (`Reported`).  The
next process lists all volumes and clears it.

`ConsolePlugin`: `pc["startup"]` and `pc["reconcile"]` are the two calls of
`ensureConsolePlugin`, in the steps `GetDeployment`, `ensureService` and
`ensurePlugin`.  `Fail` is what an error does to the caller: the reconcile is retried,
the Runnable ends the manager (`Exit`).  `EnableIBMConsoleByDefault` calls `os.Exit` on
any error.  `Stop` is the signal: running calls are waited for, then `RemoveConsole`
deletes the ConsolePlugin as the cache knows it, and the next process starts.  There is
one process at a time (one replica and a leader election without early release).  The
deployment of the console is not deleted in the model, and of Service and
ConsolePlugin only existence and owner are kept: `CreateOrUpdate` with these mutate
functions never changes anything else.  `dirty` is a history variable.

*Nondeterminism of the code.*  A `List` of the cache and a `range` over a Go map
have no order.  A match therefore has a set of outcomes, and the loop takes its
keys in any order.

*Abstractions.*  The reads of one match (the class, its secret, the clusters and
their secrets) are one step; they are all from the cache, no write depends on
their being simultaneous, and an event between them queues the class again.
`Status().Update` does not put a version in the log: its content is never read
here (`ClusterStatus` has it), and what it does, a new event for the same cluster or a conflict, is the
choice of `FscUpdateStatus` to queue the cluster again.  The owner reference that
`ensureSecretOwnership` writes to a secret is not kept in `PoolsConfigMap`; its event
would queue the cluster again, which `FscUpdateStatus` may do too.  There a default
StorageClass that the reconciler creates or deletes, and a secret the garbage collector
deletes, are steps of the users, who may take them at any moment; `ClusterObjects` has
the real ones.  `DefaultClass` says which class is the default one of a
cluster, whose deletion queues the cluster; every cluster is taken to have a default
pool in that module.  A panic in a reconcile (a type assertion on a topology
secret) is an error, as controller-runtime recovers it.

## The runs

The `pools` runs have one StorageClass; the hard cases are about several clusters, two
controllers and the users, and classes do not interact except through the
ConfigMap's version, which the other writers already change at every point.
Bounds: `MaxOps` on the steps of users and restarts, `MaxFaults` on API calls that
fail for no modelled reason, `MayMiss` on which objects may be missing at the
start, `UserOps` on the kinds of user steps.  Two user steps are enough for every
race of a change with a reaction to an earlier one; retries are unbounded.  The
system may rightly come to rest, so deadlock is not checked.

| Run | Instance | Shows |
| --- | --- | --- |
| `pools_settle` | two clusters, a regular class whose secret moves between their addresses; clusters created and deleted, class terminated and deleted, ConfigMap deleted | at rest the ConfigMap agrees with the live objects (`LiveScRecorded`, `DeadScForgotten`, `LiveFscListed`, `DeadFscForgotten`), and no entry of an existing cluster is lost (`EntryKept`) |
| `pools_restart` | a topology class over two clusters; its secret changes, also to one that cannot be matched; one restart or two, one fault | what is live is recorded also across restarts and faults (`LiveScRecorded`, `LiveFscListed`) |
| `pools_any` | names reused at once, clusters that change or share secrets, classes without a pool, a ConfigMap of an older release | `TypeOK` and the refinement `PoolMapSpec` |
| `pools_live` | as `pools_settle`, with classes created and secrets deleted | `PoolsConverge` under fairness: all the conflicts and retries come to an end |
| `pools_fsc_leak` | one cluster, deletion and restart | `DeadFscForgotten` fails (finding 1) |
| `pools_sc_leak` | one class, deletion and restart | `DeadScForgotten` fails (finding 2) |
| `cluster_status` | two clusters, one of which may be created later, two namespaces, any two steps of users, exporter and restarts, one failing call | `TypeOK`, `PhaseSettled`, `FlagSettled`, `ReportsKept`, and `StatusConverges` and `StatusRests` under fairness |
| `csi_flag_race` | one cluster, one deletion of a CR | `DriverLaunched` fails (finding 3) |
| `cluster_objects` | two clusters, one there from the start with all its objects, one that may come; one secret for both, one name for their default classes, or no default pool for the second; a Deployment and a ServiceMonitor, the latter with an object of an older release; any two steps of users (who also delete and edit rules), restarts and faults | `TypeOK`, `ExporterSettled`, `SecretSettled`, `DefaultClassSettled`, `RuleSettled`, `OwnersKept` |
| `volume_labels` | a volume of a regular class and one of a topology class, one secret for both, and another class of the regular one's name with another secret; two clusters, at different addresses or at one, the second with either of two secrets; any two steps of users, restarts and faults | `TypeOK`, `LabelSettled`, `VolumesKept`, and `LabelsConverge` under fairness |
| `console` | any deployment state at the start, one plugin of another operator; any three of: late deployment, ClusterVersion event, changes and deletions of the objects, changes of the list, stop, crash, fault | `TypeOK`, `ConsoleSettled`, `PluginsKept`, and `ConsoleConverges` under fairness |
| `phase_ready` | one cluster that the exporter reports ready, a CR deleted, a failing call | `ReadyMeansProvisioned` fails (finding 4) |

*Fairness* (`FairSpec`).  A worker that has begun a reconcile goes on (weak
fairness of its steps); a watch event is delivered in the end (weak fairness of
every `Deliver`).  A queued name has its turn again and again (strong fairness of
`FscStart` and `ScStart`): the queues are first in, first out, a failing name goes
to the back, and back-off only delays it.  Strong fairness is needed because the
worker is busy with others in between.  `ClusterStatus` assumes the same of `Start`,
`Work`, `DeliverFsc` and the event handler; `VolumeLabels` of `Start`, the label step and
the events; `ConsolePlugin` needs only weak fairness, since nothing but a bounded mishap
or its own failure disables a step of a process.  Nothing is assumed of users, restarts and
faults.

*Restrictions of what is checked.*  `NameReuse = FALSE`: `EntryKept` and the "at
rest" properties are checked for users who create a cluster again only once the
operator is done with the deleted one of the same name.  Otherwise
`removeFscFromConfigMap`, which works by name, may take the new cluster's entry;
the model has that behaviour, and `pools_any`, `TypeCorrect`, `Refinement`,
`DeadFscIsForgotten` and `DeadScIsForgotten` cover it.
`SecretDatas`: in the "at rest" runs the secrets change only in ways
`SecretMgmtAddrPredicate` reacts to.  It ignores, for instance, an id that is added
to a topology secret, and an address that is added to a secret without one; the
classes concerned then stay as they are until something else queues them.
`UpdateFsc` (a cluster changes its secret) is not among the steps of these runs
for the same reason: the watcher ignores updates of clusters.  `LiveScIsRecorded` states
these restrictions as its hypotheses (`ChangesReported`).
`LabelSettled` and `RuleSettled` have no such hypothesis but exceptions in their statements, for what the
code cannot know of.  The steps that cause them are in the runs, but for the unreported changes
of secrets, which only the theorem `LabelIsSettled` covers.  `LabelSettled` excepts everything until the next restart
once a change was `unheard`: a cluster that names another secret, a class that comes back with other
parameters, an address that a secret gets or loses, a topology secret that becomes another kind, a
secret that counts as one without an address and comes back changed (its deletion is not
reported either).  Ids of a topology come, go and move freely, and the retries make up for
the events that are not there.  `RuleSettled` excepts the clusters in `stray` until a reconcile,
which may be one for any other reason, makes the rule what it should be.

*What the liveness properties do not say.*  Whether the chain of heartbeat writes and
reconciles of `ClusterStatus` ends is a matter of time: an Update is news only if the second has
changed since the last one (`PutStatus` leaves it open).  `StatusConverges` therefore speaks of
what the status says and not of rest, and `StatusRests` of rest, if only finitely many writes are
heartbeats.  Where two clusters have one management address, the label of a volume may go from
one to the other for ever, since the list has no order and `UniqueFSCMatchError` is never
returned; `LabelsConverge` then says only that the label is one of the two.

*Smaller instances.*  Two of the three kinds of exporter objects are in `cluster_objects`, one that always
differs and one that is compared; the Service is treated like the Deployment, without the
secret.  In `console` the users do not take the plugin out of the list: only the next
process would put it back, whether they want it or not.

### Findings

1. `reconcile` removes the finalizer of a deleted cluster before it removes the
   cluster's entry from the ConfigMap.  A restart between the two leaves the entry
   for good.
2. A StorageClass deleted while the operator is down stays in the ConfigMap for
   good: only a reconcile of its own name removes it, and no event will queue it.
3. A CSI CR deleted between its creation and the assignment `IsCSICRCreated = true`
   is not created again: the handler's `false` is overwritten, and the reconcile it
   queued skips.
4. A reconcile that fails in `ensureFlashSystemCSICR` leaves the phase of the one
   before, alone of all error paths; it may be `Ready`.

The comments of the repository also disagree with each other about the phase of a cluster that
was reconciled while a ready condition is False.  The code (lines 399-411 of the reconciler) makes it
`Not Ready`, as `util/condition.go:38` ("used when waiting for system to be ready after
reconcile is successful") and the controller's test (line 278) say.
`api/v1alpha1/flashsystemcluster_types.go` has `Error` for it (line 92, "used when reconcile fails
or there is any of false ready from conditions"), and `Not Ready` for a failed reconcile (line 96),
which in the code is `Error`.  The model follows the code; `PhaseSettled` takes no side and only
tells `Ready` from the rest.

## The theorems

`PoolsProofs` proves, for any sets of clusters, classes, secrets, pools, addresses
and ids and any bounds,

* `TypeCorrect`: `Spec => []TypeOK`;
* `Refinement`: `Spec => PoolMapSpec`, the operator implements `PoolMap`.

They rest on the assumptions on the constants only (`SentinelAssumption`,
`ConstantsAssumption`, `NoneAssumption`: the sentinels are none of the values they
are told apart from, the options of users have the right types); TLC evaluates
them in every run.

Neither is inductive by itself.  The type of a worker says that it *may* hold no
object, but its steps take the object apart; and an Update is a step of `PoolMap`
only if the copy it is made from is the live content.  The inductive invariant is
`IInv == TypeOK /\ WorkersHold /\ CopiesLive`: `WorkersHold` says what a worker
holds at each `pc` (the instance it read, a copy of the ConfigMap, entries for the
keys its loop still has to do), and `CopiesLive` that a copy whose version is
still live *is* the live content.  The proof has one lemma per action; the
refinement then shows that every accepted Update, made from the live content,
changes one entry or one class of one entry, and that every other step leaves the
live ConfigMap alone.

`EntriesProofs` proves about the entries of the clusters

* `EntryIsKept`: `~NameReuse` implies `Spec => EntryKept`;
* `LiveFscIsListed`: `~NameReuse` implies `Spec => []LiveFscListed`;
* `DeadFscIsForgotten`: `"restart" \notin UserOps` implies `Spec => []DeadFscForgotten`.

Both hypotheses are needed.  With `NameReuse` TLC finds counterexamples to the first two (a late
removal takes the new cluster's entry, and its reconcile skips because the cached ConfigMap
still has the old one); with restarts the third fails (finding 1).  The proofs sort the steps by what they do to the
entries (`StepKinds`) and go in layers.
`BInv`: a cluster marked for deletion has a finalizer, and one whose live version the
worker holds is there.
`RInv`, for `EntryKept`: when names are not reused no cluster comes back behind a deletion
that has not reached the cache, a cluster the cache does not know is neither queued nor in
work, and so a worker that removes an entry removes that of a cluster that is gone
(`RemovesDead`), though it decided so from a cache that was behind.
`LInv`, for `LiveFscListed`: a worker that skips because its copy has the entry relies on an
old version.  `EntriesStay` says what an old version tells: an entry in any version since
the cached one is live, unless a deletion of the whole ConfigMap is on its way, which queues
every cluster when it arrives; `ListedSoon`, that a cluster without an entry is queued, has
an event, or is in the hands of a worker that adds the entry or fails.
`DInv`, for `DeadFscForgotten`: a worker that took a cluster for a live one that is gone
has its name queued again or an event on its way (`WorkSeen`), and an entry of a dead cluster
has a queued name, an event or a removing worker after it.

`ClassesProofs` proves about the pools of the classes

* `DeadScIsForgotten`: `"restart" \notin UserOps` implies `Spec => []DeadScForgotten`

(with restarts it fails, finding 2).  The watcher removes a class from the entries its *copy*
has; the question is why a stale copy lacks none.  `OldKeys` answers it: an entry with pools in it
is in every version since the cached one, because the reconciler creates entries without pools, and
the watcher, whose copy is live only while the cache is up to date (`CurSynced`), fills only
entries that have reached the cache.  So a copy read from the cache has every such entry, and
keeps having it (`HoldsKeys`).  `ScSeen` and `DeadSoon` are the analogues of `WorkSeen`
and of the last part of `DInv`.

* `LiveScIsRecorded`: `ChangesReported` implies `Spec => []LiveScRecorded`

also with restarts, failing calls, and ConfigMaps, secrets, clusters and classes that are
deleted.  `ChangesReported` says that every change a class depends on is one the watcher's
handlers and predicates let through: names of clusters are not reused; no cluster changes its
secret; the secrets of clusters have the operator's prefix; `SecretMgmtAddrPredicate` reacts
to every change between two contents a secret may have, its absence included where it may be
absent; and no class lacks a pool.  `pools_settle` and `pools_restart` satisfy it.  None of the
five can be dropped: on a variant of `pools_settle` without it TLC finds a
counterexample to `LiveScRecorded` each time.  The last one is the least obvious: a pool ""
ends the watcher's loop without an error, and whatever the entries it has not come to hold
stays as it is.

The inductive invariant is `MInv == OInv /\ KInv /\ SInv`.  `LiveScRecorded` compares the
ConfigMap with the live objects, the watcher with the cached ones, so `SInv` speaks of the
cache: the live pools of a class that is neither queued nor in work are a match of it against
the *cached* clusters and secrets, but for entries of clusters whose deletion is on its way
(`RecMatched`); what the loop is about to record is such a match, unless the class is queued
again (`WorkMatched`); and what the loop has passed has the pools it wants (`LoopDone`).  At
rest cache and live objects are the same.  Three things make this inductive.  What a match
depends on: `MatchIs` and `MatchReads` show that it names listed clusters only and reads no
secret but those of the class and of the listed clusters.  That what it depends on does not
change unheard: `StepHeard` shows that every watch event that changes it queues the class,
for which `OInv` keeps the contents of each log within the hypotheses (all versions of a cluster
name one secret, every version of a secret is one of its contents and differs from the next).
And that copies lose nothing: `KInv`, the part of the invariant of `DeadScIsForgotten` that
holds across restarts.

`StatusProofs` proves, for any clusters, namespaces and bounds,

* `PhaseIsSettled`: `Spec => []PhaseSettled`;
* `ReportsAreKept`: `Spec => ReportsKept`;
* `FlagIsSettled`: `Spec => []FlagSettled`;
* `StatusTypes`: `Spec => []TypeOK`,

from `StatusConstants` only.  `PhaseSettled` speaks of clusters at rest, and they
come to rest when the worker returns: what matters is what it writes then.  The
inductive invariant adds `WriteReconciled` (a reconcile without an error is about to
write `Ready` exactly if the conditions are), `CopyHasReports` (a copy whose version
is live has the exporter's live reports) and `IdleWorker`.  A write that changes the
status makes a version the cache does not have, so the cluster is not at rest until
the event has queued it; a write that changes nothing leaves a live status that is
what the worker computed.  `CopyHasReports` also gives `ReportsKept`: of the steps that
are not the exporter's, only an accepted Update writes a status.
`FlagSettled` has an invariant of its own, `FlagInv`: while the flag is clear and the handler
that cleared it has queued the clusters, each of them is queued, has an event, or is in the
hands of a worker that has not passed the flag yet or has failed.  It says nothing of the
CR itself, which is why the race of finding 3 does not contradict it.

`ObjectsProofs` proves, for any clusters, kinds of exporter objects that are modelled, classes,
secrets and bounds,

* `ExporterIsSettled`, `SecretIsSettled`, `DefaultClassIsSettled`: `Spec => []ExporterSettled`
  and so on;
* `RuleIsSettled`: `Spec => []RuleSettled`, for the clusters that are not `stray`;
* `OwnersAreKept`: `Spec => OwnersKept`;
* `ObjectsTypes`: `Spec => []TypeOK`,

from `ObjectsConstants` and `ObjectsNone`.  `TInv` adds to the types that a copy whose version
is live is the live object, and that a UID belongs to one name; it gives `OwnersKept`.  What is
done for a cluster is done for a UID, and reconciles work from cached objects: `FInv` says
that a version with a finalizer and without a deletion mark, anywhere from the cache on or in
the worker's hands, is of the cluster that is still there, so nothing is done for a
predecessor of the same name.  `RInv` then gives `RuleSettled`: of a cluster that
is not stray the rule, if there is one, is its own and as it should be, and there is one when the cluster is
at rest.  `DInv` is about the other
objects, which users, the garbage collector and other clusters take away: what is done for a
cluster at rest (`RestDone`), or is behind the worker (`WorkDone`), is still there or an event
is on its way that queues the cluster.  For an exporter object the event reaches the
clusters among the owners of the versions it replaces, so `ExporterDone` speaks of the
owners of all versions since the cached one; for the default class the event that counts is the
deletion, and `ClassAlternates` says that a class does not change without one.

`VolumeProofs` proves, for any volumes, clusters, classes, secrets and bounds,

* `LabelIsSettled`: `Spec => []LabelSettled`;
* `VolumesAreKept`: `Spec => VolumesKept`;
* `VolumeTypes`: `Spec => []TypeOK`,

from `VolumeConstants`, `SentinelAssumption` and `VolumeNone`.  `LabelSettled` compares the
label with the live objects, but what a reconcile has read is older; the invariant compares it
with the *cached* ones.  `RestMatched` says that a volume at rest has the label that goes with
an address which the cached secret of its class, if there is one, still gives; `WorkerKnows`
says the same of the address the worker has in hand, unless the volume is queued again; and
`LogReported` that every change of a secret on its way to the cache is one that the predicate
reports or that cannot matter, and that clusters on their way only come and go.  All this
holds only as long as nothing is `unheard`, so the inductive invariant is
`HeardInv == TInv /\ (unheard \/ IInv)`: `UnheardStays` shows that only a restart ends the exception, and
`RestartInv` that the invariant then holds from the types alone, whatever was wrong before.

`ConsoleProofs` proves, for any other plugins and bounds,

* `ConsoleIsSettled`: `Spec => []ConsoleSettled`;
* `PluginsAreKept`: `Spec => PluginsKept`;
* `ConsoleTypes`: `Spec => []TypeOK`,

from `ConsoleConstants` only.  The inductive invariant adds two facts to the types.
`CacheTells` says what an old version tells of the live one: a Service that has its owner
or is gone does not come back without it, and as long as nothing is dirty, what is in the
cache is still there; so a call that skips because of its cache, or that ignores
AlreadyExists, skips what is done.  `ReconcileWill` says that what is missing is ahead of
a reconcile, queued or under way.  It speaks of the reconciler alone: the startup Runnable
does not keep its word in a process that stops, and the proof shows that nobody relies
on it.  `PluginsKept` follows from the types: an accepted Update was made from the live list.

What is only model-checked: the five liveness properties (`PoolsConverge`,
`StatusConverges`, `StatusRests`, `LabelsConverge`, `ConsoleConverges`).  Liveness under fairness is
outside what the prover does.  Every invariant and every other action property or
refinement of a passing run has its theorem.

## Not modelled

* Events, log lines, labels other than the volume's, environment variables and the
  operator's flags: no state that a controller reads back.
* `util/safeio.go` and `ReadPoolConfigMapFile`: file access, and the exporter's side of the
  ConfigMap.
* `CalculateDataHash` and the conditions nobody sets: no callers.
* Leader election itself, health probes, scheme registration; generated deep copies.
* Port and base path of the console: written once, never updated.

## What is left

Of the properties, liveness: the invariants above are what such a proof would start from, and
what it would add is a measure of the conflicts and retries that are still possible.  Of the
code, the parts listed under "Not modelled".
