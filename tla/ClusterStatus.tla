---------------------------- MODULE ClusterStatus ---------------------------
(***************************************************************************)
(* The status of the FlashSystemClusters, which the reconciler writes as a  *)
(* whole and the exporter writes too, and the IBMBlockCSI CR, which the     *)
(* reconciler creates unless the flag IsCSICRCreated says that there is     *)
(* one.  The flag is set by the reconciler's worker and cleared by an event *)
(* handler, which runs in another thread and takes no lock.                *)
(*                                                                         *)
(* A cluster's status is a log of versions (VersionLog); None: there is no  *)
(* such cluster.  CSI CRs are read and created by a client without a cache. *)
(*                                                                         *)
(* Left to PoolsConfigMap: the finalizer (a cluster is deleted at once      *)
(* here) and what the other steps of reconcile do when they do not fail.   *)
(***************************************************************************)
EXTENDS VersionLog

CONSTANTS
    Cluster,       \* names of FlashSystemClusters
    Namespace,     \* the namespaces an IBMBlockCSI CR may be in
    OwnNamespace,  \* the namespace of the clusters
    None,          \* absent
    MayMiss,       \* the clusters that may not exist when the operator starts
    UserOps,       \* the kinds of steps the users and the exporter may take
    MaxOps,        \* bound on these steps, and on restarts
    MaxFaults      \* bound on the calls that fail for no modelled reason

\* A condition may not be there yet; "Unknown" is set by a function nobody calls.
ConditionStatus == {"absent", "True", "False"}
PhaseName == {"", "Ready", "Progressing", "Error", "Not Ready"}

\* The conditions ReconcileComplete, ReconcileProgressing, ProvisionerReady and
\* ExporterCreated of the operator, ExporterReady and StorageClusterReady of
\* the exporter, and the phase.
Status == [complete : ConditionStatus, progressing : ConditionStatus,
           provisioner : ConditionStatus, created : ConditionStatus,
           exporterReady : ConditionStatus, storageReady : ConditionStatus,
           phase : PhaseName]

ASSUME StatusConstants ==
    /\ OwnNamespace \in Namespace
    /\ None \notin Status /\ None \notin Cluster
    /\ UserOps \subseteq {"createFsc", "deleteFsc", "createCr", "deleteCr", "exporter", "restart"}
    /\ MaxOps \in Nat /\ MaxFaults \in Nat

VARIABLES
    st,         \* [Cluster -> versions of the status]
    cr,         \* the namespaces that have a CSI CR
    gone,       \* delete events of CSI CRs on their way
    isCreated,  \* the flag IsCSICRCreated
    mapper,     \* the event handler CSIToClusterMapFunc
    queue,      \* names queued for the reconciler
    w,          \* the reconciler's worker
    ops,        \* steps the users and the exporter have taken
    faults      \* faults that have happened

vars == <<st, cr, gone, isCreated, mapper, queue, w, ops, faults>>

WorkerPC == {"idle", "secret", "csi", "find", "create", "flag", "exporter", "default", "write"}

\* inst: the status the worker holds; cur: whether its version is still the
\* live one; failed: whether reconcile has ended with an error.
Worker == [pc : WorkerPC, req : Cluster \cup {None}, inst : Status \cup {None},
           cur : BOOLEAN, failed : BOOLEAN]

TypeOK == /\ st \in [Cluster -> Log(Status \cup {None})]
          /\ cr \subseteq Namespace
          /\ gone \in Nat
          /\ isCreated \in BOOLEAN
          /\ mapper \in {"idle", "list"}
          /\ queue \subseteq Cluster
          /\ w \in Worker
          /\ w.pc # "idle" => w.req \in Cluster /\ w.inst \in Status
          /\ ops \in 0..MaxOps
          /\ faults \in 0..MaxFaults

Idle == [pc |-> "idle", req |-> None, inst |-> None, cur |-> FALSE, failed |-> FALSE]

NewStatus == [complete |-> "absent", progressing |-> "absent", provisioner |-> "absent",
              created |-> "absent", exporterReady |-> "absent", storageReady |-> "absent",
              phase |-> ""]

CachedFscs == {f \in Cluster : Cached(st[f]) # None}

Init == /\ st \in [Cluster -> {<<None>>, <<NewStatus>>}]
        /\ \A f \in Cluster : st[f] = <<None>> => f \in MayMiss
        /\ cr = {}
        /\ gone = 0
        /\ isCreated = FALSE
        /\ mapper = "idle"
        /\ queue = CachedFscs
        /\ w = Idle
        /\ ops = 0
        /\ faults = 0

----------------------------------------------------------------------------
(* Conditions and phase.                                                   *)

SetReconcileErrorCondition(s) == [s EXCEPT !.complete = "False", !.progressing = "True"]

SetReconcileProvisionerErrorCondition(s) == [s EXCEPT !.complete = "False", !.provisioner = "False"]

SetReconcileCompleteCondition(s) ==
    [s EXCEPT !.complete = "True", !.progressing = "False", !.provisioner = "True"]

AllReady(s) == {s.complete, s.exporterReady, s.storageReady, s.provisioner} = {"True"}

\* The phase at the end of a reconcile without an error.
PhaseOf(s) ==
    IF AllReady(s) THEN "Ready"
    ELSE IF s.progressing = "True" THEN "Progressing" ELSE "Not Ready"

----------------------------------------------------------------------------
(* The worker of the reconciler.                                           *)

\* Mutant of Start: a cluster that is not found is reconciled.
StartAnyway(f) ==
    /\ w.pc = "idle"
    /\ f \in queue
    /\ queue' = queue \ {f}
    /\ w' = [Idle EXCEPT !.pc = "secret", !.req = f,
                         !.inst = Cached(st[f]), !.cur = Synced(st[f])]
    /\ UNCHANGED <<st, cr, gone, isCreated, mapper, ops, faults>>

\* Get of the instance; for one that is not there only the ConfigMap is left to do.
Start(f) ==
    /\ w.pc = "idle"
    /\ f \in queue
    /\ queue' = queue \ {f}
    /\ w' = IF Cached(st[f]) = None THEN Idle
            ELSE [Idle EXCEPT !.pc = "secret", !.req = f,
                              !.inst = Cached(st[f]), !.cur = Synced(st[f])]
    /\ UNCHANGED <<st, cr, gone, isCreated, mapper, ops, faults>>

Goto(from, to) ==
    /\ w.pc = from
    /\ w' = [w EXCEPT !.pc = to]
    /\ UNCHANGED <<st, gone, mapper, queue, ops, faults>>

\* Reconcile ends with an error; the status s is written all the same.
FailWith(s) == w' = [w EXCEPT !.pc = "write", !.inst = s, !.failed = TRUE]

Failing == faults < MaxFaults /\ faults' = faults + 1

ensureSecretOwnership == Goto("secret", "csi") /\ UNCHANGED <<cr, isCreated>>

CheckFlag == Goto("csi", IF isCreated THEN "exporter" ELSE "find") /\ UNCHANGED <<cr, isCreated>>

\* A list of the CRs of all namespaces.
HasIBMBlockCSICRExisted ==
    Goto("find", IF cr = {} THEN "create" ELSE "flag") /\ UNCHANGED <<cr, isCreated>>

\* Create fails when a CR has got there since the list.
CreateIBMBlockCSICR ==
    \/ /\ OwnNamespace \notin cr
       /\ Goto("create", "flag")
       /\ cr' = cr \cup {OwnNamespace}
       /\ UNCHANGED isCreated
    \/ /\ OwnNamespace \in cr
       /\ w.pc = "create"
       /\ FailWith(SetReconcileProvisionerErrorCondition(w.inst))
       /\ UNCHANGED <<st, cr, gone, isCreated, mapper, queue, ops, faults>>

\* The assignment comes after another call, which creates an event object.
SetFlag == Goto("flag", "exporter") /\ isCreated' = TRUE /\ UNCHANGED cr

\* One of the calls of ensureFlashSystemCSICR fails.
CsiFails ==
    /\ w.pc \in {"find", "create"}
    /\ Failing
    /\ FailWith(SetReconcileProvisionerErrorCondition(w.inst))
    /\ UNCHANGED <<st, cr, gone, isCreated, mapper, queue, ops>>

\* The ConfigMap, Service, Deployment and ServiceMonitor are there.
ExporterCreated ==
    /\ w.pc = "exporter"
    /\ w' = [w EXCEPT !.pc = "default", !.inst.created = "True"]
    /\ UNCHANGED <<st, cr, gone, isCreated, mapper, queue, ops, faults>>

\* Mutant of ReconcileComplete: the phase is the one of the last reconcile.
ReconcileCompleteOnly ==
    /\ w.pc = "default"
    /\ w' = [w EXCEPT !.pc = "write", !.inst = SetReconcileCompleteCondition(@)]
    /\ UNCHANGED <<st, cr, gone, isCreated, mapper, queue, ops, faults>>

\* The default StorageClass and the Prometheus rule are there too.
ReconcileComplete ==
    LET s == SetReconcileCompleteCondition(w.inst)
    IN  /\ w.pc = "default"
        /\ w' = [w EXCEPT !.pc = "write", !.inst = [s EXCEPT !.phase = PhaseOf(s)]]
        /\ UNCHANGED <<st, cr, gone, isCreated, mapper, queue, ops, faults>>

\* One of the steps other than ensureFlashSystemCSICR fails.
EnsureFails ==
    /\ w.pc \in {"secret", "exporter", "default"}
    /\ Failing
    /\ FailWith([SetReconcileErrorCondition(w.inst) EXCEPT !.phase = "Error"])
    /\ UNCHANGED <<st, cr, gone, isCreated, mapper, queue, ops>>

\* Reconcile returns; with an error the name is queued again.
Return(retry) ==
    /\ w' = Idle
    /\ queue' = IF retry THEN queue \cup {w.req} ELSE queue
    /\ UNCHANGED <<cr, gone, isCreated, mapper, ops>>

\* An accepted Update.  One with the same conditions makes a new version only
\* if a heartbeat time, which has seconds, is another one.
PutStatus ==
    \E beat \in BOOLEAN :
        st' = IF w.inst = Live(st[w.req]) /\ ~beat THEN st
              ELSE [st EXCEPT ![w.req] = Append(@, w.inst)]

\* Mutants of StatusUpdate: it carries no resource version; its own error is
\* not returned; reconcile asks for another one when it has succeeded.
StatusUpdateBlindly ==
    /\ w.pc = "write"
    /\ \/ PutStatus /\ Return(w.failed) /\ UNCHANGED faults
       \/ Failing /\ UNCHANGED st /\ Return(TRUE)

StatusUpdateOnce ==
    /\ w.pc = "write"
    /\ \/ w.cur /\ PutStatus /\ Return(w.failed) /\ UNCHANGED faults
       \/ ~w.cur /\ UNCHANGED <<st, faults>> /\ Return(w.failed)
       \/ Failing /\ UNCHANGED st /\ Return(w.failed)

StatusUpdateRequeues ==
    /\ w.pc = "write"
    /\ \/ w.cur /\ PutStatus /\ Return(TRUE) /\ UNCHANGED faults
       \/ ~w.cur /\ UNCHANGED <<st, faults>> /\ Return(TRUE)
       \/ Failing /\ UNCHANGED st /\ Return(TRUE)

\* Status().Update, refused from a copy that is not the live version.
StatusUpdate ==
    /\ w.pc = "write"
    /\ \/ w.cur /\ PutStatus /\ Return(w.failed) /\ UNCHANGED faults
       \/ ~w.cur /\ UNCHANGED <<st, faults>> /\ Return(TRUE)
       \/ Failing /\ UNCHANGED st /\ Return(TRUE)

Work == \/ ensureSecretOwnership \/ CheckFlag \/ HasIBMBlockCSICRExisted
        \/ CreateIBMBlockCSICR \/ SetFlag \/ ExporterCreated
        \/ ReconcileComplete \/ StatusUpdate

----------------------------------------------------------------------------
(* Watch events and their handlers.                                        *)

DeliverFsc(f) ==
    /\ ~Synced(st[f])
    /\ st' = [st EXCEPT ![f] = Tail(@)]
    /\ queue' = queue \cup {f}
    /\ UNCHANGED <<cr, gone, isCreated, mapper, w, ops, faults>>

\* Mutant of CSIToClusterMapFunc: it lists the clusters before it clears the flag.
CSIToClusterMapFuncLate ==
    /\ UNCHANGED <<st, cr, w, ops, faults>>
    /\ \/ /\ mapper = "idle"
          /\ gone > 0
          /\ gone' = gone - 1
          /\ mapper' = "list"
          /\ queue' = queue \cup CachedFscs
          /\ UNCHANGED isCreated
       \/ /\ mapper = "list"
          /\ mapper' = "idle"
          /\ isCreated' = FALSE
          /\ UNCHANGED <<gone, queue>>

\* The handler of a CR's deletion clears the flag, then lists the clusters to queue.
CSIToClusterMapFunc ==
    /\ UNCHANGED <<st, cr, w, ops, faults>>
    /\ \/ /\ mapper = "idle"
          /\ gone > 0
          /\ gone' = gone - 1
          /\ isCreated' = FALSE
          /\ mapper' = "list"
          /\ UNCHANGED queue
       \/ /\ mapper = "list"
          /\ mapper' = "idle"
          /\ queue' = queue \cup CachedFscs
          /\ UNCHANGED <<gone, isCreated>>

----------------------------------------------------------------------------
(* The users and the exporter.                                             *)

UserOp(op) == /\ op \in UserOps
              /\ ops < MaxOps
              /\ ops' = ops + 1
              /\ UNCHANGED <<isCreated, mapper, queue, faults>>

CreateFsc(f) ==
    /\ UserOp("createFsc")
    /\ Live(st[f]) = None
    /\ st' = [st EXCEPT ![f] = Append(@, NewStatus)]
    /\ UNCHANGED <<cr, gone, w>>

\* The cluster is gone, its finalizer included: a copy of it is no longer live.
DeleteFsc(f) ==
    /\ UserOp("deleteFsc")
    /\ Live(st[f]) # None
    /\ st' = [st EXCEPT ![f] = Append(@, None)]
    /\ w' = [w EXCEPT !.cur = @ /\ w.req # f]
    /\ UNCHANGED <<cr, gone>>

CreateCr(n) ==
    /\ UserOp("createCr")
    /\ n \notin cr
    /\ cr' = cr \cup {n}
    /\ UNCHANGED <<st, gone, w>>

DeleteCr(n) ==
    /\ UserOp("deleteCr")
    /\ n \in cr
    /\ cr' = cr \ {n}
    /\ gone' = gone + 1
    /\ UNCHANGED <<st, w>>

\* The exporter reports on itself and on the storage system.
ExporterReports(f) ==
    /\ UserOp("exporter")
    /\ Live(st[f]) # None
    /\ \E e, s \in {"True", "False"} :
         LET new == [Live(st[f]) EXCEPT !.exporterReady = e, !.storageReady = s]
         IN  /\ new # Live(st[f])
             /\ st' = [st EXCEPT ![f] = Append(@, new)]
    /\ w' = [w EXCEPT !.cur = @ /\ w.req # f]
    /\ UNCHANGED <<cr, gone>>

\* The operator's process ends and another one starts.
Restart ==
    /\ "restart" \in UserOps
    /\ ops < MaxOps
    /\ ops' = ops + 1
    /\ st' = [f \in Cluster |-> <<Live(st[f])>>]
    /\ gone' = 0
    /\ isCreated' = FALSE
    /\ mapper' = "idle"
    /\ queue' = {f \in Cluster : Live(st[f]) # None}
    /\ w' = Idle
    /\ UNCHANGED <<cr, faults>>

Next == \/ Work
        \/ CsiFails
        \/ EnsureFails
        \/ \E f \in Cluster : \/ Start(f) \/ DeliverFsc(f)
                             \/ CreateFsc(f) \/ DeleteFsc(f) \/ ExporterReports(f)
        \/ CSIToClusterMapFunc
        \/ \E n \in Namespace : CreateCr(n) \/ DeleteCr(n)
        \/ Restart

Spec == Init /\ [][Next]_vars

\* As in PoolsConfigMap: workers and handlers go on, events arrive, and a queued
\* name has its turn again and again.
Fairness == /\ \A f \in Cluster : SF_vars(Start(f)) /\ WF_vars(DeliverFsc(f))
            /\ WF_vars(Work)
            /\ WF_vars(CSIToClusterMapFunc)

FairSpec == Spec /\ Fairness

----------------------------------------------------------------------------
(* Properties.                                                             *)

AtRest(f) == Synced(st[f]) /\ f \notin queue /\ w.req # f

\* What the status says when reconcile has succeeded.  Which phase a cluster has
\* that is not Ready is left open: PhaseOf makes it Not Ready, as util/condition.go
\* says, while the comments of the API types would have Error when a ready
\* condition is False.
Reconciled(s) == s.complete = "True" /\ (s.phase = "Ready" <=> AllReady(s))

\* A cluster that is not queued and not in work has been reconciled since its
\* last change, and is Ready exactly if the conditions of both writers, the
\* operator and the exporter, all say so.
PhaseSettled ==
    \A f \in Cluster : Live(st[f]) # None /\ AtRest(f) => Reconciled(Live(st[f]))

\* The whole-status Updates of the operator never take back or repeat what the
\* exporter has reported (steps of the exporter and the users count in ops).
ReportsKept ==
    [][\A f \in Cluster : ops' = ops /\ Live(st[f]) # None =>
          /\ Live(st'[f]) # None
          /\ Live(st'[f]).exporterReady = Live(st[f]).exporterReady
          /\ Live(st'[f]).storageReady = Live(st[f]).storageReady]_vars

\* There is a cluster, and nothing is left to do for any.
AllDone == /\ \A f \in Cluster : AtRest(f)
           /\ \E f \in Cluster : Live(st[f]) # None
           /\ gone = 0 /\ mapper = "idle"

\* When the handler of a CR's deletion has returned, no cluster is at rest with
\* the flag clear: the reconciles it has queued are not lost, and none of them
\* ends before the flag is set again.  It does not say that they look for a CR:
\* a worker that found one before its deletion may set the flag over the
\* handler's clear (DriverLaunched).
FlagSettled ==
    mapper = "idle" /\ (\E f \in Cluster : Live(st[f]) # None /\ AtRest(f)) => isCreated

\* When there is a cluster and nothing is left to do, there is a CSI CR.
DriverLaunched == AllDone => cr # {}

\* A cluster whose last reconcile failed to launch the driver is not Ready.
ReadyMeansProvisioned ==
    \A f \in Cluster : Live(st[f]) # None =>
        (Live(st[f]).phase = "Ready" => Live(st[f]).provisioner = "True")

\* Conflicts with the exporter, failures and restarts do not leave a status
\* behind: in the end every cluster has been reconciled and is Ready exactly if
\* its conditions are, and stays so while reconciles that change only the
\* heartbeat times go on.
StatusConverges ==
    <>[](\A f \in Cluster : Live(st[f]) # None => Reconciled(Live(st[f])))

\* A new version of a status in which only the heartbeat times differ.
Heartbeat == \E f \in Cluster : /\ Len(st'[f]) = Len(st[f]) + 1
                                /\ Live(st'[f]) = Live(st[f])

\* Each write of a status makes the operator reconcile that cluster again.  Only
\* heartbeats can make this go on for ever: if they end, which they do when a
\* reconcile ends in the second in which the one before it did, the clusters
\* come to rest, and no retry, conflict or event of the handler queues another.
StatusRests == <>[](\A f \in Cluster : AtRest(f)) \/ []<><<Heartbeat>>_vars
=============================================================================
