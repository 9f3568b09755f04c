---------------------------- MODULE StatusProofs ----------------------------
(***************************************************************************)
(* Proofs about ClusterStatus, for any clusters, namespaces, steps of the   *)
(* users and the exporter, restarts and faults: a phase at rest follows     *)
(* from the conditions, and the operator keeps what the exporter reports.   *)
(***************************************************************************)
EXTENDS ClusterStatus, VersionLogProofs

\* A reconcile without an error writes Ready exactly if its conditions say so.
WriteReconciled == w.pc = "write" /\ ~w.failed => Reconciled(w.inst)

\* What the exporter has reported is the same in two statuses.
SameReports(s, t) == s.exporterReady = t.exporterReady /\ s.storageReady = t.storageReady

\* A copy whose version is live has the reports of the live status.
CopyHasReports ==
    w.pc # "idle" /\ w.cur => /\ Live(st[w.req]) # None
                              /\ SameReports(w.inst, Live(st[w.req]))

IdleWorker == w.pc = "idle" => w.req = None

IInv == TypeOK /\ IdleWorker /\ WriteReconciled /\ CopyHasReports /\ PhaseSettled

LEMMA NewStatusType == NewStatus \in Status
BY DEF NewStatus, Status, ConditionStatus, PhaseName

LEMMA IdleType == Idle \in Worker
BY DEF Idle, Worker, WorkerPC

\* The functions that set conditions keep the exporter's.
LEMMA ConditionTypes ==
    ASSUME NEW s \in Status
    PROVE  /\ SetReconcileErrorCondition(s) \in Status
           /\ [SetReconcileErrorCondition(s) EXCEPT !.phase = "Error"] \in Status
           /\ SameReports(s, [SetReconcileErrorCondition(s) EXCEPT !.phase = "Error"])
           /\ SetReconcileProvisionerErrorCondition(s) \in Status
           /\ SameReports(s, SetReconcileProvisionerErrorCondition(s))
           /\ SetReconcileCompleteCondition(s) \in Status
           /\ SameReports(s, SetReconcileCompleteCondition(s))
           /\ PhaseOf(s) \in PhaseName
           /\ [s EXCEPT !.created = "True"] \in Status
           /\ SameReports(s, [s EXCEPT !.created = "True"])
<1>1. /\ SetReconcileErrorCondition(s) \in Status
      /\ SameReports(s, SetReconcileErrorCondition(s))
  BY DEF SetReconcileErrorCondition, SameReports, Status, ConditionStatus
<1>2. ASSUME NEW c \in Status, SameReports(s, c)
      PROVE  [c EXCEPT !.phase = "Error"] \in Status /\ SameReports(s, [c EXCEPT !.phase = "Error"])
  BY <1>2 DEF SameReports, Status, PhaseName
<1>3. /\ SetReconcileProvisionerErrorCondition(s) \in Status
      /\ SameReports(s, SetReconcileProvisionerErrorCondition(s))
  BY DEF SetReconcileProvisionerErrorCondition, SameReports, Status, ConditionStatus
<1>4. /\ SetReconcileCompleteCondition(s) \in Status
      /\ SameReports(s, SetReconcileCompleteCondition(s))
  BY DEF SetReconcileCompleteCondition, SameReports, Status, ConditionStatus
<1>5. PhaseOf(s) \in PhaseName
  BY DEF PhaseOf, PhaseName
<1>6. [s EXCEPT !.created = "True"] \in Status /\ SameReports(s, [s EXCEPT !.created = "True"])
  BY DEF SameReports, Status, ConditionStatus
<1> QED BY <1>1, <1>2, <1>3, <1>4, <1>5, <1>6

\* A completed reconcile makes a cluster Ready exactly if its conditions are.
LEMMA CompleteIsReconciled ==
    ASSUME NEW s \in Status
    PROVE  LET c == SetReconcileCompleteCondition(s)
               t == [c EXCEPT !.phase = PhaseOf(c)]
           IN  /\ t \in Status
               /\ Reconciled(t)
               /\ SameReports(s, t)
<1> DEFINE c == SetReconcileCompleteCondition(s)
           t == [c EXCEPT !.phase = PhaseOf(c)]
<1>1. c \in Status /\ PhaseOf(c) \in PhaseName /\ SameReports(s, c)
  BY ConditionTypes
<1>2. c.complete = "True"
  BY DEF SetReconcileCompleteCondition, Status
<1> HIDE DEF c
<1>3. /\ t \in Status /\ t.complete = c.complete /\ t.phase = PhaseOf(c)
      /\ t.exporterReady = c.exporterReady /\ t.storageReady = c.storageReady
      /\ t.provisioner = c.provisioner /\ t.progressing = c.progressing
  BY <1>1 DEF Status
<1>4. t.phase = "Ready" <=> AllReady(t)
  <2> HIDE DEF t
  <2>1. AllReady(t) <=> AllReady(c)
    BY <1>3 DEF AllReady
  <2>2. PhaseOf(c) = "Ready" <=> AllReady(c)
    BY DEF PhaseOf
  <2> QED BY <1>3, <2>1, <2>2
<1> QED BY <1>1, <1>2, <1>3, <1>4 DEF Reconciled, SameReports, c

LEMMA InitInv == Init => IInv
<1> SUFFICES ASSUME Init PROVE IInv
  OBVIOUS
<1>1. st \in [Cluster -> Log(Status \cup {None})]
  BY NewStatusType, LogRestart DEF Init
<1>2. TypeOK
  <2>1. 0 \in 0..MaxOps /\ 0 \in 0..MaxFaults
    BY StatusConstants
  <2>2. w \in Worker /\ w.pc = "idle"
    BY IdleType DEF Init, Idle
  <2>3. queue \subseteq Cluster /\ cr \subseteq Namespace /\ isCreated \in BOOLEAN
    BY DEF Init, CachedFscs
  <2> QED BY <1>1, <2>1, <2>2, <2>3 DEF Init, TypeOK
<1>3. PhaseSettled
  <2> SUFFICES ASSUME NEW f \in Cluster, Live(st[f]) # None, AtRest(f) PROVE FALSE
    BY DEF PhaseSettled
  <2>1. Cached(st[f]) # None
    BY <1>1, SyncedIsLive DEF AtRest
  <2> QED BY <2>1 DEF AtRest, Init, CachedFscs
<1> QED BY <1>2, <1>3 DEF IInv, IdleWorker, WriteReconciled, CopyHasReports, Init, Idle

\* A step of the worker that writes nothing: it goes on with the same cluster
\* and a status with the same reports.
LEMMA WorkerGoesOn ==
    ASSUME IInv, UNCHANGED <<st, mapper, queue, ops>>, w.pc # "idle",
           cr' \subseteq Namespace, gone' \in Nat, isCreated' \in BOOLEAN, faults' \in 0..MaxFaults,
           NEW to \in WorkerPC \ {"idle"}, NEW s \in Status, NEW failed \in BOOLEAN,
           w' = [w EXCEPT !.pc = to, !.inst = s, !.failed = failed],
           SameReports(w.inst, s), to = "write" /\ ~failed => Reconciled(s)
    PROVE  IInv'
<1>1. w \in Worker /\ w.req \in Cluster
  BY DEF IInv, TypeOK
<1>2. /\ w' \in Worker /\ w'.pc = to /\ w'.req = w.req /\ w'.inst = s
      /\ w'.cur = w.cur /\ w'.failed = failed
  BY <1>1 DEF Worker
<1>3. TypeOK'
  BY <1>1, <1>2 DEF IInv, TypeOK
<1>4. IdleWorker' /\ WriteReconciled'
  BY <1>2 DEF IdleWorker, WriteReconciled, Reconciled, AllReady
<1>5. CopyHasReports'
  BY <1>2 DEF IInv, CopyHasReports, SameReports
<1>6. PhaseSettled'
  BY <1>2 DEF IInv, PhaseSettled, AtRest, Reconciled, AllReady
<1> QED BY <1>3, <1>4, <1>5, <1>6 DEF IInv

LEMMA GotoInv ==
    ASSUME IInv, NEW from \in WorkerPC \ {"idle"}, NEW to \in WorkerPC \ {"idle", "write"},
           Goto(from, to), cr' \subseteq Namespace, isCreated' \in BOOLEAN
    PROVE  IInv'
<1>1. w \in Worker /\ w.pc = from /\ w.inst \in Status
  BY DEF IInv, TypeOK, Goto
<1>2. w' = [w EXCEPT !.pc = to, !.inst = w.inst, !.failed = w.failed]
  BY <1>1 DEF Goto, Worker
<1>3. w.failed \in BOOLEAN
  BY <1>1 DEF Worker
<1> QED BY <1>1, <1>2, <1>3, WorkerGoesOn DEF Goto, IInv, TypeOK, SameReports

\* Reconcile returns after a write or without one.
LEMMA ReturnInv ==
    ASSUME IInv, w.pc = "write", NEW retry \in BOOLEAN, Return(retry),
           st' \in [Cluster -> Log(Status \cup {None})], faults' \in 0..MaxFaults,
           \A f \in Cluster : \/ st'[f] = st[f] /\ (f # w.req \/ retry \/ Reconciled(Live(st[f])))
                              \/ ~Synced(st'[f])
    PROVE  IInv'
<1>1. w.req \in Cluster
  BY DEF IInv, TypeOK
<1>2. TypeOK'
  BY <1>1, IdleType DEF IInv, TypeOK, Return, Idle
<1>3. PhaseSettled'
  <2> SUFFICES ASSUME NEW f \in Cluster, Live(st'[f]) # None, AtRest(f)'
               PROVE  Reconciled(Live(st'[f]))
    BY DEF PhaseSettled, Reconciled, AllReady
  <2>1. Synced(st'[f]) /\ f \notin queue'
    BY DEF AtRest
  <2>2. st'[f] = st[f] /\ (f # w.req \/ retry \/ Reconciled(Live(st[f])))
    BY <2>1
  <2>3. f \notin queue /\ (retry => f # w.req)
    BY <2>1 DEF Return
  <2>4. CASE f # w.req
    BY <2>1, <2>2, <2>3, <2>4 DEF IInv, PhaseSettled, AtRest
  <2> QED BY <2>2, <2>3, <2>4
<1> QED BY <1>2, <1>3 DEF IInv, IdleWorker, WriteReconciled, CopyHasReports, Return, Idle

LEMMA StatusUpdateInv == ASSUME IInv, StatusUpdate PROVE IInv'
<1>1. w \in Worker /\ w.req \in Cluster /\ w.inst \in Status /\ w.pc = "write"
  BY DEF IInv, TypeOK, StatusUpdate
<1>2. w.failed \in BOOLEAN
  BY <1>1 DEF Worker
<1>3. CASE w.cur /\ PutStatus /\ Return(w.failed) /\ UNCHANGED faults
  <2>1. PICK beat \in BOOLEAN :
          st' = IF w.inst = Live(st[w.req]) /\ ~beat THEN st
                ELSE [st EXCEPT ![w.req] = Append(@, w.inst)]
    BY <1>3 DEF PutStatus
  <2>2. st \in [Cluster -> Log(Status \cup {None})] /\ faults \in 0..MaxFaults
    BY DEF IInv, TypeOK
  <2>3. ~w.failed => Reconciled(w.inst)
    BY <1>1 DEF IInv, WriteReconciled
  <2>4. /\ Append(st[w.req], w.inst) \in Log(Status \cup {None})
        /\ ~Synced(Append(st[w.req], w.inst))
    BY <1>1, <2>2, LogAppend
  <2>5. CASE st' = st /\ w.inst = Live(st[w.req])
    BY <1>1, <1>2, <1>3, <2>2, <2>3, <2>5, ReturnInv
  <2>6. CASE st' = [st EXCEPT ![w.req] = Append(@, w.inst)]
    BY <1>1, <1>2, <1>3, <2>2, <2>4, <2>6, ReturnInv
  <2> QED BY <2>1, <2>5, <2>6
<1>4. CASE UNCHANGED st /\ Return(TRUE) /\ faults' \in 0..MaxFaults
  BY <1>1, <1>4, ReturnInv DEF IInv, TypeOK
<1>5. Failing => faults' \in 0..MaxFaults
  BY StatusConstants DEF Failing, IInv, TypeOK
<1> QED BY <1>3, <1>4, <1>5 DEF StatusUpdate, IInv, TypeOK

LEMMA WorkInv == ASSUME IInv, Work PROVE IInv'
<1>1. CASE ensureSecretOwnership
  BY <1>1, GotoInv DEF ensureSecretOwnership, WorkerPC, IInv, TypeOK
<1>2. CASE CheckFlag
  BY <1>2, GotoInv DEF CheckFlag, WorkerPC, IInv, TypeOK
<1>3. CASE HasIBMBlockCSICRExisted
  BY <1>3, GotoInv DEF HasIBMBlockCSICRExisted, WorkerPC, IInv, TypeOK
<1>4. CASE CreateIBMBlockCSICR
  <2>1. CASE Goto("create", "flag") /\ cr' = cr \cup {OwnNamespace} /\ UNCHANGED isCreated
    BY <2>1, GotoInv, StatusConstants DEF WorkerPC, IInv, TypeOK
  <2>2. CASE /\ w.pc = "create"
             /\ FailWith(SetReconcileProvisionerErrorCondition(w.inst))
             /\ UNCHANGED <<st, cr, gone, isCreated, mapper, queue, ops, faults>>
    BY <2>2, WorkerGoesOn, ConditionTypes DEF FailWith, WorkerPC, IInv, TypeOK
  <2> QED BY <1>4, <2>1, <2>2 DEF CreateIBMBlockCSICR
<1>5. CASE SetFlag
  BY <1>5, GotoInv DEF SetFlag, WorkerPC, IInv, TypeOK
<1>6. CASE ExporterCreated
  <2>1. w \in Worker /\ w.inst \in Status /\ w.pc = "exporter"
    BY <1>6 DEF ExporterCreated, IInv, TypeOK
  <2> DEFINE t == [w.inst EXCEPT !.created = "True"]
  <2>2. t \in Status /\ SameReports(w.inst, t)
    BY <2>1, ConditionTypes
  <2>3. w' = [w EXCEPT !.pc = "default", !.inst = t]
    BY <1>6, <2>1 DEF ExporterCreated
  <2> HIDE DEF t
  <2>4. w' = [w EXCEPT !.pc = "default", !.inst = t, !.failed = w.failed] /\ w.failed \in BOOLEAN
    BY <2>1, <2>3 DEF Worker
  <2> QED BY <1>6, <2>1, <2>2, <2>4, WorkerGoesOn DEF ExporterCreated, WorkerPC, IInv, TypeOK
<1>7. CASE ReconcileComplete
  <2> DEFINE c == SetReconcileCompleteCondition(w.inst)
             t == [c EXCEPT !.phase = PhaseOf(c)]
  <2>1. w \in Worker /\ w.inst \in Status /\ w.pc = "default"
    BY <1>7 DEF ReconcileComplete, IInv, TypeOK
  <2>2. t \in Status /\ Reconciled(t) /\ SameReports(w.inst, t)
    BY <2>1, CompleteIsReconciled
  <2>3. w' = [w EXCEPT !.pc = "write", !.inst = t]
    BY <1>7 DEF ReconcileComplete
  <2> HIDE DEF t
  <2>4. w' = [w EXCEPT !.pc = "write", !.inst = t, !.failed = w.failed] /\ w.failed \in BOOLEAN
    BY <2>1, <2>3 DEF Worker
  <2> QED BY <1>7, <2>1, <2>2, <2>4, WorkerGoesOn DEF ReconcileComplete, WorkerPC, IInv, TypeOK
<1>8. CASE StatusUpdate
  BY <1>8, StatusUpdateInv
<1> QED BY <1>1, <1>2, <1>3, <1>4, <1>5, <1>6, <1>7, <1>8 DEF Work

\* The steps in which a call fails.
LEMMA FailInv == ASSUME IInv, CsiFails \/ EnsureFails PROVE IInv'
<1>1. faults' \in 0..MaxFaults
  BY StatusConstants DEF CsiFails, EnsureFails, Failing, IInv, TypeOK
<1>2. w.inst \in Status /\ w.pc # "idle"
  BY DEF CsiFails, EnsureFails, IInv, TypeOK
<1>3. CASE CsiFails
  BY <1>1, <1>2, <1>3, WorkerGoesOn, ConditionTypes DEF CsiFails, FailWith, WorkerPC, IInv, TypeOK
<1>4. CASE EnsureFails
  <2> DEFINE t == [SetReconcileErrorCondition(w.inst) EXCEPT !.phase = "Error"]
  <2>1. t \in Status /\ SameReports(w.inst, t)
    BY <1>2, ConditionTypes
  <2>2. w' = [w EXCEPT !.pc = "write", !.inst = t, !.failed = TRUE]
    BY <1>4 DEF EnsureFails, FailWith
  <2> HIDE DEF t
  <2> QED BY <1>1, <1>2, <1>4, <2>1, <2>2, WorkerGoesOn DEF EnsureFails, WorkerPC, IInv, TypeOK
<1> QED BY <1>3, <1>4

LEMMA StartInv == ASSUME IInv, NEW f \in Cluster, Start(f) PROVE IInv'
<1>1. st \in [Cluster -> Log(Status \cup {None})] /\ w.req = None
  BY DEF IInv, TypeOK, IdleWorker, Start
<1>2. Cached(st[f]) \in Status \cup {None} /\ (Synced(st[f]) => Cached(st[f]) = Live(st[f]))
  BY <1>1, LogVersions, SyncedIsLive
<1>3. ASSUME NEW g \in Cluster, Live(st'[g]) # None, AtRest(g)'
      PROVE  Reconciled(Live(st'[g]))
  <2>1. st' = st /\ Synced(st[g]) /\ g \notin queue \ {f} /\ w'.req # g
    BY <1>3 DEF AtRest, Start
  <2>2. CASE g = f
    BY <1>2, <1>3, <2>1, <2>2 DEF Start, Idle
  <2>3. CASE g # f
    BY <1>1, <1>3, <2>1, <2>3, StatusConstants DEF IInv, PhaseSettled, AtRest
  <2> QED BY <2>2, <2>3
<1>4. PhaseSettled'
  BY <1>3 DEF PhaseSettled, Reconciled, AllReady
<1>5. CASE Cached(st[f]) = None
  BY <1>4, <1>5, IdleType DEF Start, IInv, TypeOK, IdleWorker, WriteReconciled, CopyHasReports, Idle
<1>6. CASE Cached(st[f]) # None
  <2>1. /\ w' \in Worker /\ w'.pc = "secret" /\ w'.req = f
        /\ w'.inst = Cached(st[f]) /\ w'.cur = Synced(st[f])
    <3>1. w' = [pc |-> "secret", req |-> f, inst |-> Cached(st[f]), cur |-> Synced(st[f]),
                failed |-> FALSE]
      BY <1>6 DEF Start, Idle
    <3>2. Synced(st[f]) \in BOOLEAN /\ "secret" \in WorkerPC
      BY DEF Synced, WorkerPC
    <3> QED BY <1>2, <1>6, <3>1, <3>2 DEF Worker
  <2> QED BY <1>2, <1>4, <1>6, <2>1
          DEF Start, IInv, TypeOK, IdleWorker, WriteReconciled, CopyHasReports, SameReports
<1> QED BY <1>5, <1>6

LEMMA DeliverInv == ASSUME IInv, NEW f \in Cluster, DeliverFsc(f) PROVE IInv'
<1>1. st \in [Cluster -> Log(Status \cup {None})]
  BY DEF IInv, TypeOK
<1>2. Tail(st[f]) \in Log(Status \cup {None}) /\ Live(Tail(st[f])) = Live(st[f])
  BY <1>1, LogTail DEF DeliverFsc
<1>3. /\ st' \in [Cluster -> Log(Status \cup {None})]
      /\ \A g \in Cluster : Live(st'[g]) = Live(st[g]) /\ (g # f => st'[g] = st[g])
  BY <1>1, <1>2 DEF DeliverFsc
<1>4. TypeOK'
  BY <1>3 DEF DeliverFsc, IInv, TypeOK
<1>5. CopyHasReports'
  BY <1>3 DEF DeliverFsc, IInv, TypeOK, CopyHasReports, SameReports
<1>6. PhaseSettled'
  BY <1>3 DEF DeliverFsc, IInv, PhaseSettled, AtRest, Reconciled, AllReady
<1> QED BY <1>4, <1>5, <1>6 DEF DeliverFsc, IInv, IdleWorker, WriteReconciled, Reconciled, AllReady

LEMMA MapperInv == ASSUME IInv, CSIToClusterMapFunc PROVE IInv'
<1>1. TypeOK'
  <2>1. gone' \in Nat
    BY DEF CSIToClusterMapFunc, IInv, TypeOK
  <2>2. queue' \subseteq Cluster
    BY DEF CSIToClusterMapFunc, IInv, TypeOK, CachedFscs
  <2>3. isCreated' \in BOOLEAN /\ mapper' \in {"idle", "list"}
    BY DEF CSIToClusterMapFunc, IInv, TypeOK
  <2> QED BY <2>1, <2>2, <2>3 DEF CSIToClusterMapFunc, IInv, TypeOK
<1>2. PhaseSettled'
  BY DEF CSIToClusterMapFunc, IInv, PhaseSettled, AtRest, Reconciled, AllReady
<1> QED BY <1>1, <1>2 DEF CSIToClusterMapFunc, IInv, IdleWorker, WriteReconciled,
                          CopyHasReports, SameReports, Reconciled, AllReady

\* A new version of one cluster's status by a user or by the exporter.
LEMMA UserPutsInv ==
    ASSUME IInv, NEW f \in Cluster, NEW new \in Status \cup {None},
           st' = [st EXCEPT ![f] = Append(@, new)], ops' \in 0..MaxOps,
           UNCHANGED <<cr, gone, isCreated, mapper, queue, faults>>,
           w' = [w EXCEPT !.cur = @ /\ (w.req # f \/ Live(st[f]) = None)]
    PROVE  IInv'
<1>1. st \in [Cluster -> Log(Status \cup {None})] /\ w \in Worker
  BY DEF IInv, TypeOK
<1>2. /\ Append(st[f], new) \in Log(Status \cup {None})
      /\ ~Synced(Append(st[f], new))
  BY <1>1, LogAppend
<1>3. /\ st' \in [Cluster -> Log(Status \cup {None})] /\ ~Synced(st'[f])
      /\ \A g \in Cluster : g # f => st'[g] = st[g]
  BY <1>1, <1>2
<1>4. /\ w' \in Worker /\ w'.pc = w.pc /\ w'.req = w.req /\ w'.inst = w.inst
      /\ w'.failed = w.failed /\ w'.cur = (w.cur /\ (w.req # f \/ Live(st[f]) = None))
  BY <1>1 DEF Worker
<1>5. TypeOK'
  BY <1>3, <1>4 DEF IInv, TypeOK
<1>6. CopyHasReports'
  BY <1>3, <1>4 DEF IInv, TypeOK, CopyHasReports, SameReports
<1>7. PhaseSettled'
  BY <1>3, <1>4 DEF IInv, PhaseSettled, AtRest, Reconciled, AllReady
<1> QED BY <1>4, <1>5, <1>6, <1>7 DEF IInv, IdleWorker, WriteReconciled, Reconciled, AllReady

LEMMA UserInv ==
    ASSUME IInv, \/ \E f \in Cluster : CreateFsc(f) \/ DeleteFsc(f) \/ ExporterReports(f)
                 \/ \E n \in Namespace : CreateCr(n) \/ DeleteCr(n)
    PROVE  IInv'
<1>1. ops' \in 0..MaxOps /\ UNCHANGED <<isCreated, mapper, queue, faults>>
  <2>1. PICK op \in {"createFsc", "deleteFsc", "createCr", "deleteCr", "exporter"} : UserOp(op)
    BY DEF CreateFsc, DeleteFsc, ExporterReports, CreateCr, DeleteCr
  <2> QED BY <2>1, StatusConstants DEF UserOp, IInv, TypeOK
<1>2. st \in [Cluster -> Log(Status \cup {None})] /\ w \in Worker
  BY DEF IInv, TypeOK
<1>3. ASSUME NEW f \in Cluster, CreateFsc(f) PROVE IInv'
  <2>1. w = [w EXCEPT !.cur = @ /\ TRUE]
    BY <1>2 DEF Worker
  <2>2. w' = [w EXCEPT !.cur = @ /\ (w.req # f \/ Live(st[f]) = None)]
    BY <1>3, <2>1 DEF CreateFsc
  <2> QED BY <1>1, <1>3, <2>2, NewStatusType, UserPutsInv DEF CreateFsc
<1>4. ASSUME NEW f \in Cluster, ExporterReports(f) PROVE IInv'
  <2>1. PICK e \in {"True", "False"}, r \in {"True", "False"} :
          st' = [st EXCEPT ![f] = Append(@, [Live(st[f]) EXCEPT !.exporterReady = e,
                                                                !.storageReady = r])]
    BY <1>4 DEF ExporterReports
  <2>2. Live(st[f]) \in Status
    <3>1. Live(st[f]) \in Status \cup {None}
      BY <1>2, LogVersions
    <3>2. Live(st[f]) # None
      BY <1>4 DEF ExporterReports
    <3> QED BY <3>1, <3>2
  <2>3. [Live(st[f]) EXCEPT !.exporterReady = e, !.storageReady = r] \in Status
    BY <2>2 DEF Status, ConditionStatus
  <2>4. w' = [w EXCEPT !.cur = @ /\ (w.req # f \/ Live(st[f]) = None)]
    BY <1>4 DEF ExporterReports
  <2> QED BY <1>1, <1>4, <2>1, <2>3, <2>4, UserPutsInv DEF ExporterReports
<1>5. ASSUME NEW n \in Namespace, CreateCr(n) \/ DeleteCr(n) PROVE IInv'
  <2>1. cr' \subseteq Namespace /\ gone' \in Nat /\ UNCHANGED <<st, w>>
    BY <1>5 DEF CreateCr, DeleteCr, IInv, TypeOK
  <2> QED BY <1>1, <2>1 DEF IInv, TypeOK, IdleWorker, WriteReconciled, CopyHasReports,
                            SameReports, PhaseSettled, AtRest, Reconciled, AllReady
<1>6. ASSUME NEW f \in Cluster, DeleteFsc(f) PROVE IInv'
  <2>1. w' = [w EXCEPT !.cur = @ /\ (w.req # f \/ Live(st[f]) = None)]
    BY <1>6 DEF DeleteFsc
  <2> QED BY <1>1, <1>6, <2>1, UserPutsInv DEF DeleteFsc
<1> QED BY <1>3, <1>4, <1>5, <1>6

LEMMA RestartInv == ASSUME IInv, Restart PROVE IInv'
<1>1. \A f \in Cluster : /\ Live(st[f]) \in Status \cup {None}
                         /\ st'[f] = <<Live(st[f])>>
  BY LogVersions DEF IInv, TypeOK, Restart
<1>2. /\ st' \in [Cluster -> Log(Status \cup {None})]
      /\ \A f \in Cluster : Live(st'[f]) = Live(st[f])
  BY <1>1, LogRestart DEF Restart
<1>3. TypeOK'
  <2>1. ops' \in 0..MaxOps
    BY StatusConstants DEF Restart, IInv, TypeOK
  <2>2. w' \in Worker /\ w'.pc = "idle"
    BY IdleType DEF Restart, Idle
  <2>3. queue' \subseteq Cluster /\ isCreated' \in BOOLEAN
    BY DEF Restart
  <2> QED BY <1>2, <2>1, <2>2, <2>3 DEF Restart, IInv, TypeOK
<1>4. PhaseSettled'
  BY <1>2 DEF Restart, PhaseSettled, AtRest
<1> QED BY <1>3, <1>4 DEF Restart, IInv, IdleWorker, WriteReconciled, CopyHasReports, Idle

LEMMA StepInv == ASSUME IInv, [Next]_vars PROVE IInv'
<1>1. CASE UNCHANGED vars
  BY <1>1 DEF vars, IInv, TypeOK, IdleWorker, WriteReconciled, CopyHasReports, SameReports,
              PhaseSettled, AtRest, Reconciled, AllReady
<1>2. CASE Next
  BY <1>2, WorkInv, FailInv, StartInv, DeliverInv, MapperInv, UserInv, RestartInv DEF Next
<1> QED BY <1>1, <1>2

\* The inductive invariant holds in every reachable state.
LEMMA Invariant == Spec => []IInv
BY InitInv, StepInv, PTL DEF Spec

\* The statuses, the flag, the events on their way and the worker's copy keep
\* their types; in particular a reconcile past its Get has a status in hand.
THEOREM StatusTypes == Spec => []TypeOK
<1>1. IInv => TypeOK
  BY DEF IInv
<1> QED BY <1>1, Invariant, PTL

\* A cluster the reconciler has nothing left to do for has been reconciled since
\* the last write of its status by anyone, and is Ready exactly if all the
\* conditions that reconcile and the exporter have set are True.
THEOREM PhaseIsSettled == Spec => []PhaseSettled
<1>1. IInv => PhaseSettled
  BY DEF IInv
<1> QED BY <1>1, Invariant, PTL

\* A step of the operator leaves the live reports of the exporter alone.
LEMMA StepKeepsReports ==
    ASSUME IInv, [Next]_vars, ops' = ops, NEW f \in Cluster, Live(st[f]) # None
    PROVE  Live(st'[f]) # None /\ SameReports(Live(st'[f]), Live(st[f]))
<1>1. st \in [Cluster -> Log(Status \cup {None})] /\ ops \in Nat
  BY StatusConstants DEF IInv, TypeOK
<1>2. CASE Live(st'[f]) = Live(st[f])
  BY <1>2 DEF SameReports
<1>3. CASE st' = st
  BY <1>2, <1>3
<1>4. ASSUME NEW g \in Cluster, DeliverFsc(g)
      PROVE  Live(st'[f]) # None /\ SameReports(Live(st'[f]), Live(st[f]))
  <2>1. Live(Tail(st[g])) = Live(st[g])
    BY <1>1, <1>4, LogTail DEF DeliverFsc
  <2> QED BY <1>1, <1>2, <1>4, <2>1 DEF DeliverFsc
<1>5. CASE w.pc = "write" /\ w.cur /\ PutStatus
  <2>1. w.req \in Cluster /\ w.inst \in Status
    BY <1>5 DEF IInv, TypeOK
  <2>2. Live(Append(st[w.req], w.inst)) = w.inst
    BY <1>1, <2>1, LogAppend
  <2>3. SameReports(w.inst, Live(st[w.req]))
    BY <1>5 DEF IInv, CopyHasReports
  <2>4. w.inst # None
    BY <2>1, StatusConstants
  <2>5. CASE f # w.req \/ st' = st
    BY <1>1, <1>2, <1>5, <2>1, <2>5 DEF PutStatus
  <2>6. CASE st' = [st EXCEPT ![w.req] = Append(@, w.inst)] /\ f = w.req
    BY <1>1, <2>1, <2>2, <2>3, <2>4, <2>6
  <2> QED BY <1>5, <2>5, <2>6 DEF PutStatus
<1>6. CASE Work \/ CsiFails \/ EnsureFails
  BY <1>3, <1>5, <1>6 DEF Work, ensureSecretOwnership, CheckFlag, HasIBMBlockCSICRExisted,
       CreateIBMBlockCSICR, SetFlag, ExporterCreated, ReconcileComplete, StatusUpdate,
       CsiFails, EnsureFails, Goto
<1>7. ASSUME NEW g \in Cluster, Start(g) \/ CreateFsc(g) \/ DeleteFsc(g) \/ ExporterReports(g)
      PROVE  Live(st'[f]) # None /\ SameReports(Live(st'[f]), Live(st[f]))
  BY <1>1, <1>3, <1>7 DEF Start, CreateFsc, DeleteFsc, ExporterReports, UserOp
<1>8. CASE CSIToClusterMapFunc \/ UNCHANGED vars
  BY <1>3, <1>8 DEF CSIToClusterMapFunc, vars
<1>9. CASE Restart \/ \E n \in Namespace : CreateCr(n) \/ DeleteCr(n)
  BY <1>1, <1>9 DEF Restart, CreateCr, DeleteCr, UserOp
<1> QED BY <1>4, <1>6, <1>7, <1>8, <1>9 DEF Next

\* No Update of the operator takes back or repeats a report of the exporter,
\* though each one writes the whole status from a copy read some steps before.
THEOREM ReportsAreKept == Spec => ReportsKept
<1>1. ASSUME IInv, [Next]_vars
      PROVE  [\A f \in Cluster : ops' = ops /\ Live(st[f]) # None =>
                /\ Live(st'[f]) # None
                /\ Live(st'[f]).exporterReady = Live(st[f]).exporterReady
                /\ Live(st'[f]).storageReady = Live(st[f]).storageReady]_vars
  BY <1>1, StepKeepsReports DEF SameReports
<1> QED BY <1>1, Invariant, PTL DEF Spec, ReportsKept

----------------------------------------------------------------------------
(* The flag.                                                               *)

\* The worker has f in hand and, before it returns, sets the flag or queues f.
WillSetFlag(f) ==
    /\ w.req = f
    /\ w.pc \in {"secret", "csi", "find", "create", "flag"} \/ w.failed

\* While the flag is clear and the handler that clears it is not about to list
\* the clusters, no cluster is left alone: its event is on its way, it is
\* queued, or the worker has it and has not passed the flag.
FlagInv ==
    ~isCreated /\ mapper = "idle" =>
        \A f \in Cluster : Live(st[f]) # None /\ Synced(st[f]) /\ f \notin queue => WillSetFlag(f)

\* All live clusters are queued when the operator starts.
LEMMA FlagInit == ASSUME Init PROVE FlagInv
<1>1. st \in [Cluster -> Log(Status \cup {None})]
  BY InitInv DEF IInv, TypeOK
<1> SUFFICES ASSUME NEW f \in Cluster, Live(st[f]) # None, Synced(st[f]), f \notin queue PROVE FALSE
  BY DEF FlagInv
<1>2. Cached(st[f]) # None
  BY <1>1, SyncedIsLive
<1> QED BY <1>2 DEF Init, CachedFscs

\* A step of the worker with the same cluster: it passes the flag only when it
\* is set, and does not forget that it has failed.
LEMMA FlagGoesOn ==
    ASSUME IInv, FlagInv, UNCHANGED <<st, mapper, queue>>, isCreated => isCreated',
           w'.req = w.req, w.failed => w'.failed,
           isCreated' \/ w'.failed \/ w'.pc \in {"secret", "csi", "find", "create", "flag"}
                      \/ w.pc \in {"exporter", "default"}
    PROVE  FlagInv'
<1> SUFFICES ASSUME ~isCreated', mapper' = "idle",
                    NEW f \in Cluster, Live(st'[f]) # None, Synced(st'[f]), f \notin queue'
             PROVE  WillSetFlag(f)'
  BY DEF FlagInv
<1>1. WillSetFlag(f)
  BY DEF FlagInv
<1> QED BY <1>1 DEF WillSetFlag

\* Reconcile returns: what it has failed to do is queued again.
LEMMA FlagUpdate == ASSUME IInv, FlagInv, StatusUpdate PROVE FlagInv'
<1> SUFFICES ASSUME ~isCreated', mapper' = "idle",
                    NEW f \in Cluster, Live(st'[f]) # None, Synced(st'[f]), f \notin queue'
             PROVE  FALSE
  BY DEF FlagInv
<1>1. w \in Worker /\ w.req \in Cluster /\ w.inst \in Status /\ w.pc = "write"
  BY DEF IInv, TypeOK, StatusUpdate
<1>2. st \in [Cluster -> Log(Status \cup {None})]
  BY DEF IInv, TypeOK
<1>3. /\ ~Synced(Append(st[w.req], w.inst))
  BY <1>1, <1>2, LogAppend
<1>4. /\ st'[f] = st[f]
      /\ Return(w.failed) \/ Return(TRUE)
  BY <1>1, <1>2, <1>3 DEF StatusUpdate, PutStatus
<1>5. ~isCreated /\ mapper = "idle" /\ f \notin queue /\ (w.failed => f # w.req)
  BY <1>1, <1>4 DEF Return, Worker
<1>6. WillSetFlag(f)
  BY <1>4, <1>5 DEF FlagInv
<1> QED BY <1>1, <1>5, <1>6 DEF WillSetFlag

\* The worker's steps: it gets past the flag only when it is set, or by failing.
LEMMA FlagWork == ASSUME IInv, FlagInv, Work \/ CsiFails \/ EnsureFails PROVE FlagInv'
<1>1. w \in Worker /\ isCreated \in BOOLEAN
  BY DEF IInv, TypeOK
<1>2. ASSUME NEW from, NEW to, Goto(from, to), isCreated => isCreated',
             isCreated' \/ to \in {"csi", "find", "create", "flag"}
      PROVE  FlagInv'
  <2>1. w'.req = w.req /\ w'.failed = w.failed /\ w'.pc = to
    BY <1>1, <1>2 DEF Goto, Worker
  <2> QED BY <1>2, <2>1, FlagGoesOn DEF Goto
<1>3. ASSUME NEW s, FailWith(s), UNCHANGED <<st, isCreated, mapper, queue>>
      PROVE  FlagInv'
  <2>1. w'.req = w.req /\ w'.failed
    BY <1>1, <1>3 DEF FailWith, Worker
  <2> QED BY <1>3, <2>1, FlagGoesOn
<1>4. CASE ensureSecretOwnership
  BY <1>2, <1>4 DEF ensureSecretOwnership
<1>5. CASE CheckFlag
  BY <1>2, <1>5 DEF CheckFlag
<1>6. CASE HasIBMBlockCSICRExisted
  BY <1>2, <1>6 DEF HasIBMBlockCSICRExisted
<1>7. CASE CreateIBMBlockCSICR
  BY <1>2, <1>3, <1>7 DEF CreateIBMBlockCSICR
<1>8. CASE SetFlag
  BY <1>2, <1>8 DEF SetFlag
<1>9. CASE ExporterCreated \/ ReconcileComplete
  <2>1. w'.req = w.req /\ w'.failed = w.failed /\ w.pc \in {"exporter", "default"}
    BY <1>1, <1>9 DEF ExporterCreated, ReconcileComplete, Worker
  <2> QED BY <1>9, <2>1, FlagGoesOn DEF ExporterCreated, ReconcileComplete
<1>10. CASE CsiFails \/ EnsureFails
  BY <1>3, <1>10 DEF CsiFails, EnsureFails
<1> QED BY <1>4, <1>5, <1>6, <1>7, <1>8, <1>9, <1>10, FlagUpdate DEF Work

\* A name leaves the queue only into the worker's hands.
LEMMA FlagStart == ASSUME IInv, FlagInv, NEW g \in Cluster, Start(g) PROVE FlagInv'
<1> SUFFICES ASSUME ~isCreated', mapper' = "idle",
                    NEW f \in Cluster, Live(st'[f]) # None, Synced(st'[f]), f \notin queue'
             PROVE  WillSetFlag(f)'
  BY DEF FlagInv
<1>1. st \in [Cluster -> Log(Status \cup {None})] /\ w.req = None /\ f # None
  BY StatusConstants DEF IInv, TypeOK, IdleWorker, Start
<1>2. ~isCreated /\ mapper = "idle" /\ st' = st /\ queue' = queue \ {g}
  BY DEF Start
<1>3. f = g
  BY <1>1, <1>2 DEF FlagInv, WillSetFlag
<1>4. Cached(st[g]) # None
  BY <1>1, <1>2, <1>3, SyncedIsLive
<1> QED BY <1>3, <1>4 DEF Start, WillSetFlag, Idle

\* Events and their handlers only add to the queue; the handler that clears the
\* flag has queued every cluster in the cache when it is idle again.
LEMMA FlagEvents ==
    ASSUME IInv, FlagInv, CSIToClusterMapFunc \/ \E g \in Cluster : DeliverFsc(g)
    PROVE  FlagInv'
<1> SUFFICES ASSUME ~isCreated', mapper' = "idle",
                    NEW f \in Cluster, Live(st'[f]) # None, Synced(st'[f]), f \notin queue'
             PROVE  WillSetFlag(f)'
  BY DEF FlagInv
<1>1. st \in [Cluster -> Log(Status \cup {None})]
  BY DEF IInv, TypeOK
<1>2. CASE CSIToClusterMapFunc
  <2>1. st' = st /\ queue' = queue \cup CachedFscs
    BY <1>2 DEF CSIToClusterMapFunc
  <2>2. Cached(st[f]) # None
    BY <1>1, <2>1, SyncedIsLive
  <2> QED BY <2>1, <2>2 DEF CachedFscs
<1>3. ASSUME NEW g \in Cluster, DeliverFsc(g) PROVE WillSetFlag(f)'
  BY <1>1, <1>3 DEF DeliverFsc, FlagInv, WillSetFlag
<1> QED BY <1>2, <1>3

\* Whatever the users and the exporter write to a status is on its way as an event.
LEMMA FlagUsers ==
    ASSUME IInv, FlagInv,
           \/ \E g \in Cluster : CreateFsc(g) \/ DeleteFsc(g) \/ ExporterReports(g)
           \/ \E n \in Namespace : CreateCr(n) \/ DeleteCr(n)
    PROVE  FlagInv'
<1> SUFFICES ASSUME ~isCreated', mapper' = "idle",
                    NEW f \in Cluster, Live(st'[f]) # None, Synced(st'[f]), f \notin queue'
             PROVE  WillSetFlag(f)'
  BY DEF FlagInv
<1>1. w \in Worker /\ st \in [Cluster -> Log(Status \cup {None})]
  BY DEF IInv, TypeOK
<1>2. UNCHANGED <<isCreated, mapper, queue>>
  BY DEF CreateFsc, DeleteFsc, ExporterReports, CreateCr, DeleteCr, UserOp
<1>3. w'.pc = w.pc /\ w'.req = w.req /\ w'.failed = w.failed
  BY <1>1 DEF CreateFsc, DeleteFsc, ExporterReports, CreateCr, DeleteCr, Worker
<1>4. st'[f] = st[f]
  <2>1. ASSUME NEW g \in Cluster, NEW new \in Status \cup {None},
               st' = [st EXCEPT ![g] = Append(@, new)]
        PROVE  st'[f] = st[f]
    <3>1. ~Synced(Append(st[g], new))
      BY <1>1, <2>1, LogAppend
    <3> QED BY <1>1, <2>1, <3>1
  <2>2. ASSUME NEW g \in Cluster, ExporterReports(g) PROVE st'[f] = st[f]
    <3>1. Live(st[g]) \in Status
      <4>1. Live(st[g]) \in Status \cup {None} /\ Live(st[g]) # None
        BY <1>1, <2>2, LogVersions DEF ExporterReports
      <4> QED BY <4>1
    <3>2. PICK e \in {"True", "False"}, r \in {"True", "False"} :
            st' = [st EXCEPT ![g] = Append(@, [Live(st[g]) EXCEPT !.exporterReady = e,
                                                                  !.storageReady = r])]
      BY <2>2 DEF ExporterReports
    <3>3. [Live(st[g]) EXCEPT !.exporterReady = e, !.storageReady = r] \in Status
      BY <3>1 DEF Status, ConditionStatus
    <3> QED BY <2>1, <3>2, <3>3
  <2>3. ASSUME NEW g \in Cluster, CreateFsc(g) \/ DeleteFsc(g) PROVE st'[f] = st[f]
    BY <2>1, <2>3, NewStatusType DEF CreateFsc, DeleteFsc
  <2> QED BY <2>2, <2>3 DEF CreateCr, DeleteCr
<1> QED BY <1>2, <1>3, <1>4 DEF FlagInv, WillSetFlag

\* Every step keeps it.
LEMMA FlagStep == ASSUME IInv, FlagInv, [Next]_vars PROVE FlagInv'
<1>1. CASE UNCHANGED vars
  BY <1>1 DEF vars, FlagInv, WillSetFlag
<1>2. CASE Restart
  <2> SUFFICES ASSUME NEW f \in Cluster, Live(st'[f]) # None PROVE f \in queue'
    BY DEF FlagInv
  <2>1. Live(st'[f]) = Live(st[f])
    BY <1>2, LogVersions, LogRestart DEF Restart, IInv, TypeOK
  <2> QED BY <1>2, <2>1 DEF Restart
<1> QED BY <1>1, <1>2, FlagWork, FlagStart, FlagEvents, FlagUsers DEF Next

\* In every reachable state in which the handler is not at work and some cluster
\* is at rest, the flag is set: no order of the worker's steps and the handler's
\* leaves the handler's clear behind with nobody to look at it.  That the flag
\* is set does not mean that there is a CSI CR (DriverLaunched).
THEOREM FlagIsSettled == Spec => []FlagSettled
<1>1. IInv /\ FlagInv => FlagSettled
  BY DEF IInv, TypeOK, FlagInv, FlagSettled, AtRest, WillSetFlag
<1>2. ASSUME IInv, IInv', FlagInv, [Next]_vars PROVE FlagInv'
  BY <1>2, FlagStep
<1> QED BY <1>1, <1>2, FlagInit, Invariant, PTL DEF Spec
=============================================================================
