---------------------------- MODULE PoolsProofs -----------------------------
(***************************************************************************)
(* Proofs about PoolsConfigMap, for any clusters, classes, secrets, users'  *)
(* steps, restarts and faults: its type invariant, and that it implements   *)
(* PoolMap.                                                                *)
(***************************************************************************)
EXTENDS PoolsConfigMap, VersionLogProofs

----------------------------------------------------------------------------
(* The match.                                                              *)

Outcome == [Cluster -> Pool \cup {EmptyPool, None}] \cup {Error}

ClusterList == [Cluster -> Secret \cup {None}]
SecretList == [Secret -> SecretData \cup {None}]

\* Every outcome of a match is an error or a map from clusters to pools.
LEMMA MatchOutcomes ==
    ASSUME NEW p \in Params, NEW clusters \in ClusterList, NEW secrets \in SecretList
    PROVE  getFlashSystemClusterByStorageClass(p, clusters, secrets) \subseteq Outcome
<1> DEFINE data == secrets[ScSecret(p)]
<1>1. getFscByRegularStorageClass(p, data, clusters, secrets) \subseteq Outcome
  <2>1. NoMatch \in Outcome
    BY DEF NoMatch, Outcome
  <2>2. \A f \in Cluster : [NoMatch EXCEPT ![f] = p.pool] \in Outcome
    BY DEF NoMatch, Outcome, Params
  <2> QED BY <2>1, <2>2 DEF getFscByRegularStorageClass, WithAddress, Listed, Outcome
<1>2. getFscByTopologyStorageClass(p, data, clusters, secrets) \subseteq Outcome
  BY DEF getFscByTopologyStorageClass, Outcome
<1> QED BY <1>1, <1>2 DEF getFlashSystemClusterByStorageClass, Outcome

----------------------------------------------------------------------------
(* The inductive invariant.                                                *)

\* A worker has what its next step needs.
WorkersHold ==
    /\ fscW.pc # "idle" => fscW.req \in Cluster
    /\ fscW.pc \in {"finalizer", "secret", "getCm", "pools", "entry", "status"}
       => fscW.inst \in FscObject
    /\ fscW.pc \in {"pools", "entry", "rmEntry"} => fscW.data \in Pools!Content
    /\ scW.pc # "idle" => scW.req \in StorageClass /\ scW.data \in Pools!Content
    /\ scW.pc = "idle" => ~scW.cur
    /\ scW.pc = "loop" => \A k \in scW.todo : scW.data[k] \in Pools!Entry

IInv == TypeOK /\ WorkersHold /\ CopiesLive

\* An accepted Update makes its content the live one.
LEMMA PutCmLive ==
    ASSUME cm \in Log(Pools!Content \cup {None}), NEW new \in Pools!Content, PutCm(new)
    PROVE  cm' \in Log(Pools!Content \cup {None}) /\ Live(cm') = new
BY LogAppend DEF PutCm

LEMMA IdleWorkers == FscIdle \in FscWorker /\ ScIdle \in ScWorker
BY DEF FscIdle, ScIdle, FscWorker, ScWorker, FscPC, NoMatch

\* What users may create are objects.
LEMMA OptionTypes ==
    /\ \A f \in Cluster : FscOptions(f) \subseteq FscObject \cup {None}
    /\ \A s \in StorageClass : ScOptions(s) \subseteq ScObject \cup {None}
    /\ \A x \in Secret : SecretOptions(x) \subseteq SecretData \cup {None}
<1>1. ASSUME NEW f \in Cluster, NEW x \in FscSecrets[f]
      PROVE  [secret |-> x, fin |-> FALSE, del |-> FALSE] \in FscObject
  <2>1. x \in Secret
    BY ConstantsAssumption
  <2> QED BY <2>1 DEF FscObject
<1>2. ASSUME NEW s \in StorageClass, NEW p \in ScParams[s]
      PROVE  [params |-> p, del |-> FALSE] \in ScObject
  <2>1. p \in Params
    BY ConstantsAssumption
  <2> QED BY <2>1 DEF ScObject
<1>3. \A x \in Secret : SecretDatas[x] \subseteq SecretData
  BY ConstantsAssumption
<1> QED BY <1>1, <1>2, <1>3 DEF FscOptions, ScOptions, SecretOptions

LEMMA InitInv == Init => IInv
<1> SUFFICES ASSUME Init PROVE IInv
  OBVIOUS
<1>1. fsc \in [Cluster -> Log(FscObject \cup {None})]
  <2>1. fsc \in [Cluster -> {<<o>> : o \in UNION {FscOptions(f) : f \in Cluster}}]
    BY DEF Init, Choices
  <2>2. \A f \in Cluster : FscOptions(f) \subseteq FscObject \cup {None}
    BY OptionTypes
  <2>3. ASSUME NEW f \in Cluster PROVE fsc[f] \in Log(FscObject \cup {None})
    <3>1. PICK o \in UNION {FscOptions(n) : n \in Cluster} : fsc[f] = <<o>>
      BY <2>1
    <3>2. o \in FscObject \cup {None}
      BY <2>2
    <3> QED BY <3>1, <3>2, LogRestart
  <2> QED BY <2>1, <2>3
<1>2. sc \in [StorageClass -> Log(ScObject \cup {None})]
  <2>1. sc \in [StorageClass -> {<<o>> : o \in UNION {ScOptions(s) : s \in StorageClass}}]
    BY DEF Init, Choices
  <2>2. \A s \in StorageClass : ScOptions(s) \subseteq ScObject \cup {None}
    BY OptionTypes
  <2>3. ASSUME NEW s \in StorageClass PROVE sc[s] \in Log(ScObject \cup {None})
    <3>1. PICK o \in UNION {ScOptions(n) : n \in StorageClass} : sc[s] = <<o>>
      BY <2>1
    <3>2. o \in ScObject \cup {None}
      BY <2>2
    <3> QED BY <3>1, <3>2, LogRestart
  <2> QED BY <2>1, <2>3
<1>3. sec \in [Secret -> Log(SecretData \cup {None})]
  <2>1. sec \in [Secret -> {<<o>> : o \in UNION {SecretOptions(x) : x \in Secret}}]
    BY DEF Init, Choices
  <2>2. \A x \in Secret : SecretOptions(x) \subseteq SecretData \cup {None}
    BY OptionTypes
  <2>3. ASSUME NEW x \in Secret PROVE sec[x] \in Log(SecretData \cup {None})
    <3>1. PICK o \in UNION {SecretOptions(n) : n \in Secret} : sec[x] = <<o>>
      BY <2>1
    <3>2. o \in SecretData \cup {None}
      BY <2>2
    <3> QED BY <3>1, <3>2, LogRestart
  <2> QED BY <2>1, <2>3
<1>4. cm \in Log(Pools!Content \cup {None})
  <2>1. \A m \in LegacyPools :
          [Pools!EmptyMap EXCEPT ![PoolsKey] = [secret |-> None, scs |-> m]] \in Pools!Content
    BY ConstantsAssumption DEF Pools!EmptyMap, Pools!Content, Pools!Entry, Pools!Key
  <2> QED BY <2>1, LogRestart DEF Init
<1>5. fscW = FscIdle /\ scW = ScIdle
  BY DEF Init
<1>6. fscQ \subseteq Cluster /\ scQ \subseteq StorageClass /\ ops \in 0..MaxOps /\ faults \in 0..MaxFaults
  BY ConstantsAssumption DEF Init, CachedFscs, CachedScs
<1>7. TypeOK
  BY <1>1, <1>2, <1>3, <1>4, <1>5, <1>6, IdleWorkers DEF TypeOK
<1>8. WorkersHold /\ CopiesLive
  BY <1>5 DEF WorkersHold, CopiesLive, FscIdle, ScIdle
<1> QED BY <1>7, <1>8 DEF IInv

----------------------------------------------------------------------------
(* Every step keeps the invariant.                                         *)

LEMMA FscReturns ==
    ASSUME IInv, fscW.pc # "idle", NEW retry \in BOOLEAN, FscReturn(retry)
    PROVE  fscW' = FscIdle /\ fscW' \in FscWorker /\ fscQ' \in SUBSET Cluster
BY IdleWorkers DEF FscReturn, IInv, TypeOK, WorkersHold

LEMMA ScReturns ==
    ASSUME IInv, scW.pc # "idle", NEW retry \in BOOLEAN, ScReturn(retry)
    PROVE  scW' = ScIdle /\ scW' \in ScWorker /\ scQ' \in SUBSET StorageClass
BY IdleWorkers DEF ScReturn, IInv, TypeOK, WorkersHold

\* The reconciler returns and nothing else changes (a fault may be counted).
LEMMA FscGivesUp ==
    ASSUME IInv, fscW.pc # "idle", NEW retry \in BOOLEAN, FscReturn(retry),
           UNCHANGED <<fsc, sc, sec, cm, scQ, scW, ops>>, faults' \in 0..MaxFaults
    PROVE  IInv'
<1>1. fscW' = FscIdle /\ fscW' \in FscWorker /\ fscQ' \in SUBSET Cluster
  BY FscReturns
<1>2. TypeOK'
  BY <1>1 DEF IInv, TypeOK
<1>3. WorkersHold' /\ CopiesLive'
  BY <1>1 DEF IInv, WorkersHold, CopiesLive, FscIdle
<1> QED BY <1>2, <1>3 DEF IInv

\* The same for the watcher.
LEMMA ScGivesUp ==
    ASSUME IInv, scW.pc # "idle", NEW retry \in BOOLEAN, ScReturn(retry),
           UNCHANGED <<fsc, sc, sec, cm, fscQ, fscW, ops>>, faults' \in 0..MaxFaults
    PROVE  IInv'
<1>1. scW' = ScIdle /\ scW' \in ScWorker /\ scQ' \in SUBSET StorageClass
  BY ScReturns
<1>2. TypeOK'
  BY <1>1 DEF IInv, TypeOK
<1>3. WorkersHold' /\ CopiesLive'
  BY <1>1 DEF IInv, WorkersHold, CopiesLive, ScIdle
<1> QED BY <1>2, <1>3 DEF IInv

LEMMA FscStartInv == ASSUME IInv, NEW f \in Cluster, FscStart(f) PROVE IInv'
<1> USE DEF IInv, TypeOK
<1>1. Cached(fsc[f]) \in FscObject \cup {None}
  BY LogVersions
<1>2. fscW' \in FscWorker
  BY <1>1 DEF FscStart, FscWorker, FscIdle, FscPC, Synced, objects
<1>3. TypeOK'
  BY <1>2 DEF FscStart, objects
<1>4. WorkersHold'
  BY <1>1 DEF FscStart, WorkersHold, FscIdle, objects
<1>5. CopiesLive'
  BY DEF FscStart, CopiesLive, FscIdle, objects
<1> QED BY <1>3, <1>4, <1>5

LEMMA FscUpdateFinalizerInv == ASSUME IInv, FscUpdateFinalizer PROVE IInv'
<1> USE DEF IInv, TypeOK
<1>1. fscW.pc = "finalizer" /\ fscW.req \in Cluster /\ fscW.inst \in FscObject
  BY DEF FscUpdateFinalizer, WorkersHold
<1>2. CASE fscW.instCur /\ ~fscW.inst.del
  <2> DEFINE new == [fscW.inst EXCEPT !.fin = TRUE]
  <2>1. new \in FscObject
    BY <1>1 DEF FscObject
  <2>2. /\ fsc' = [fsc EXCEPT ![fscW.req] = Append(fsc[fscW.req], new)]
        /\ fscW' = [fscW EXCEPT !.pc = "secret", !.inst = new]
        /\ UNCHANGED <<sc, sec, cm, fscQ, scQ, scW, ops, faults>>
    BY <1>1, <1>2, IdleWorkers DEF FscUpdateFinalizer
  <2>3. fsc' \in [Cluster -> Log(FscObject \cup {None})]
    BY <1>1, <2>1, <2>2, LogAppend
  <2>4. fscW' \in FscWorker
    BY <2>1, <2>2 DEF FscWorker, FscPC
  <2>5. TypeOK'
    BY <2>2, <2>3, <2>4
  <2>6. WorkersHold' /\ CopiesLive'
    BY <1>1, <2>1, <2>2 DEF WorkersHold, CopiesLive, FscWorker
  <2> QED BY <2>5, <2>6
<1>3. CASE fscW.instCur /\ fscW.inst.del
  <2>2. /\ fsc' = [fsc EXCEPT ![fscW.req] = Append(fsc[fscW.req], None)]
        /\ fscW' = [fscW EXCEPT !.pc = "rmGetCm", !.instCur = FALSE]
        /\ UNCHANGED <<sc, sec, cm, fscQ, scQ, scW, ops, faults>>
    BY <1>1, <1>3 DEF FscUpdateFinalizer
  <2>3. fsc' \in [Cluster -> Log(FscObject \cup {None})]
    BY <1>1, <2>2, LogAppend
  <2>4. fscW' \in FscWorker
    BY <2>2 DEF FscWorker, FscPC
  <2>5. TypeOK'
    BY <2>2, <2>3, <2>4
  <2>6. WorkersHold' /\ CopiesLive'
    BY <1>1, <2>2 DEF WorkersHold, CopiesLive, FscWorker
  <2> QED BY <2>5, <2>6
<1>4. CASE ~fscW.instCur
  <2>1. FscReturn(TRUE) /\ UNCHANGED <<fsc, sc, sec, cm, scQ, scW, ops, faults>>
    BY <1>1, <1>4 DEF FscUpdateFinalizer
  <2> QED BY <1>1, <2>1, FscGivesUp
<1> QED BY <1>2, <1>3, <1>4

LEMMA FscGotoInv ==
    ASSUME IInv, fscW.pc # "idle", NEW next \in FscPC, FscGoto(next),
           next \in {"getCm", "status"} => fscW.inst \in FscObject,
           next \in {"entry"} => fscW.inst \in FscObject /\ fscW.data \in Pools!Content,
           next \in {"getCm", "entry", "status"},
           UNCHANGED <<objects, scQ, scW, ops, faults>>
    PROVE  IInv'
<1>1. fscW' = [fscW EXCEPT !.pc = next] /\ UNCHANGED <<fsc, sc, sec, cm, fscQ, scQ, scW, ops, faults>>
  BY DEF FscGoto, objects
<1>2. fscW' \in FscWorker
  BY <1>1 DEF IInv, TypeOK, FscWorker
<1>3. TypeOK'
  BY <1>1, <1>2 DEF IInv, TypeOK
<1>4. WorkersHold' /\ CopiesLive'
  BY <1>1 DEF IInv, TypeOK, WorkersHold, CopiesLive, FscWorker
<1> QED BY <1>3, <1>4 DEF IInv

LEMMA FscEnsureSecretInv == ASSUME IInv, FscEnsureSecret PROVE IInv'
<1>1. fscW.pc = "secret" /\ fscW.inst \in FscObject
  BY DEF IInv, FscEnsureSecret, WorkersHold
<1>2. CASE FscReturn(TRUE)
  BY <1>1, <1>2, FscGivesUp DEF FscEnsureSecret, objects, IInv, TypeOK
<1>3. CASE FscGoto("getCm")
  BY <1>1, <1>3, FscGotoInv DEF FscEnsureSecret, FscPC
<1> QED BY <1>2, <1>3 DEF FscEnsureSecret

LEMMA EmptyMapContent == Pools!EmptyMap \in Pools!Content
BY DEF Pools!EmptyMap, Pools!Content

LEMMA GetCreateConfigmapInv == ASSUME IInv, GetCreateConfigmap PROVE IInv'
<1> USE DEF IInv, TypeOK
<1>1. fscW.pc \in {"getCm", "rmGetCm"} /\ fscW.req \in Cluster
      /\ (fscW.pc = "getCm" => fscW.inst \in FscObject)
  BY DEF GetCreateConfigmap, WorkersHold
<1> DEFINE next == IF fscW.pc = "getCm" THEN "pools" ELSE "rmEntry"
           Held(data, cur) == fscW' = [fscW EXCEPT !.pc = next, !.data = data, !.cur = cur]
<1>2. ASSUME NEW data \in Pools!Content, NEW cur \in BOOLEAN, Held(data, cur),
             cm' \in Log(Pools!Content \cup {None}), cur => data = Live(cm'),
             scW.cur => Live(cm') = Live(cm),
             UNCHANGED <<fsc, sc, sec, fscQ, scQ, scW, ops, faults>>
      PROVE  IInv'
  <2>1. fscW' \in FscWorker
    BY <1>2 DEF FscWorker, FscPC
  <2>2. TypeOK'
    BY <1>2, <2>1
  <2>3. WorkersHold' /\ CopiesLive'
    BY <1>1, <1>2 DEF WorkersHold, CopiesLive, FscWorker
  <2> QED BY <2>2, <2>3
<1>3. CASE Cached(cm) # None /\ UNCHANGED cm
  <2>1. Cached(cm) \in Pools!Content /\ (Synced(cm) => Cached(cm) = Live(cm))
    BY <1>3, LogVersions, SyncedIsLive
  <2>2. Held(Cached(cm), Synced(cm)) /\ UNCHANGED <<fsc, sc, sec, fscQ, scQ, scW, ops, faults>>
    BY <1>1, <1>3 DEF GetCreateConfigmap
  <2> QED BY <1>2, <1>3, <2>1, <2>2 DEF Synced
<1>4. CASE Cached(cm) = None /\ Live(cm) = None
  <2>1. Held(Pools!EmptyMap, TRUE) /\ PutCm(Pools!EmptyMap)
        /\ UNCHANGED <<fsc, sc, sec, fscQ, scQ, scW, ops, faults>>
    BY <1>1, <1>4 DEF GetCreateConfigmap
  <2>2. cm' \in Log(Pools!Content \cup {None}) /\ Live(cm') = Pools!EmptyMap
    BY <2>1, PutCmLive, EmptyMapContent
  <2>3. ~scW.cur
    BY <1>4, NoneAssumption DEF CopiesLive, WorkersHold
  <2> QED BY <1>2, <2>1, <2>2, <2>3, EmptyMapContent
<1>5. CASE FscReturn(TRUE) /\ UNCHANGED cm
  BY <1>1, <1>5, FscGivesUp DEF GetCreateConfigmap
<1> QED BY <1>3, <1>4, <1>5 DEF GetCreateConfigmap

\* An accepted Update of the reconciler, as the watcher sees it.
LEMMA FscPut ==
    ASSUME IInv, NEW new \in Pools!Content, FscPutCm(new)
    PROVE  /\ cm' \in Log(Pools!Content \cup {None})
           /\ Live(cm') = new
           /\ scW' \in ScWorker
           /\ scW' = [scW EXCEPT !.cur = scW'.cur]
           /\ scW'.cur => scW.cur /\ scW.data = new
<1>1. cm' \in Log(Pools!Content \cup {None}) /\ Live(cm') = new
  BY PutCmLive DEF FscPutCm, IInv, TypeOK
<1>2. scW' = [scW EXCEPT !.cur = scW.cur /\ new = Live(cm)] /\ scW \in ScWorker
  BY DEF FscPutCm, StillLive, IInv, TypeOK
<1>3. scW'.cur = (scW.cur /\ new = Live(cm)) /\ scW' \in ScWorker
  BY <1>2 DEF ScWorker
<1> QED BY <1>1, <1>2, <1>3 DEF IInv, CopiesLive

LEMMA FscUpdateCmInv ==
    ASSUME IInv, fscW.pc \in {"pools", "entry"}, NEW new \in Pools!Content,
           NEW next \in {"entry", "status"}, FscUpdateCm(new, next),
           UNCHANGED <<fsc, sc, sec, scQ, ops, faults>>
    PROVE  IInv'
<1>1. CASE FscPutCm(new) /\ fscW' = [fscW EXCEPT !.pc = next, !.data = new] /\ UNCHANGED fscQ
  <2>1. fscW' \in FscWorker
    BY <1>1 DEF IInv, TypeOK, FscWorker, FscPC
  <2>2. TypeOK'
    BY <1>1, <2>1, FscPut DEF IInv, TypeOK
  <2>3. WorkersHold'
    <3>1. scW' = [scW EXCEPT !.cur = scW'.cur] /\ (scW'.cur => scW.cur) /\ scW \in ScWorker
      BY <1>1, FscPut DEF IInv, TypeOK
    <3>2. /\ scW'.pc = scW.pc /\ scW'.req = scW.req /\ scW'.data = scW.data
          /\ scW'.todo = scW.todo
      BY <3>1 DEF ScWorker
    <3>3. fscW'.pc = next /\ fscW'.req = fscW.req /\ fscW'.inst = fscW.inst /\ fscW'.data = new
      BY <1>1 DEF IInv, TypeOK, FscWorker
    <3> QED BY <3>1, <3>2, <3>3 DEF IInv, WorkersHold
  <2>4. CopiesLive'
    <3>1. /\ scW' = [scW EXCEPT !.cur = scW'.cur] /\ (scW'.cur => scW.data = new)
          /\ scW \in ScWorker /\ Live(cm') = new
      BY <1>1, FscPut DEF IInv, TypeOK
    <3> QED BY <1>1, <3>1 DEF IInv, TypeOK, CopiesLive, FscWorker, ScWorker
  <2> QED BY <2>2, <2>3, <2>4 DEF IInv
<1>2. CASE FscConflict
  BY <1>2, FscGivesUp DEF FscConflict, IInv, TypeOK
<1> QED BY <1>1, <1>2 DEF FscUpdateCm

LEMMA FscDropPoolsInv == ASSUME IInv, FscDropPools PROVE IInv'
<1>1. fscW.pc = "pools" /\ fscW.inst \in FscObject /\ fscW.data \in Pools!Content
  BY DEF IInv, FscDropPools, WorkersHold
<1>2. CASE fscW.data[PoolsKey] = None
  BY <1>1, <1>2, FscGotoInv DEF FscDropPools, FscPC, objects
<1>3. CASE fscW.data[PoolsKey] # None
  <2>1. [fscW.data EXCEPT ![PoolsKey] = None] \in Pools!Content
    BY <1>1 DEF Pools!Content
  <2> QED BY <1>1, <1>3, <2>1, FscUpdateCmInv DEF FscDropPools
<1> QED BY <1>2, <1>3

LEMMA FscAddEntryInv == ASSUME IInv, FscAddEntry PROVE IInv'
<1>1. /\ fscW.pc = "entry" /\ fscW.inst \in FscObject
      /\ fscW.data \in Pools!Content /\ fscW.req \in Cluster
  BY DEF IInv, FscAddEntry, WorkersHold
<1>2. CASE fscW.data[fscW.req] # None
  BY <1>1, <1>2, FscGotoInv DEF FscAddEntry, FscPC, objects
<1>3. CASE fscW.data[fscW.req] = None
  <2> DEFINE entry == [secret |-> fscW.inst.secret, scs |-> Pools!NoPools]
  <2>1. entry \in Pools!Entry
    BY <1>1 DEF Pools!Entry, Pools!NoPools, FscObject
  <2>2. [fscW.data EXCEPT ![fscW.req] = entry] \in Pools!Content
    BY <1>1, <2>1 DEF Pools!Content
  <2>3. FscUpdateCm([fscW.data EXCEPT ![fscW.req] = entry], "status")
        /\ UNCHANGED <<fsc, sc, sec, scQ, ops, faults>>
    BY <1>3 DEF FscAddEntry
  <2> QED BY <1>1, <2>2, <2>3, FscUpdateCmInv
<1> QED BY <1>2, <1>3

LEMMA FscUpdateStatusInv == ASSUME IInv, FscUpdateStatus PROVE IInv'
<1>1. PICK retry \in {~fscW.instCur, TRUE} : FscReturn(retry)
  BY DEF FscUpdateStatus
<1>2. retry \in BOOLEAN
  BY <1>1 DEF IInv, TypeOK, FscWorker
<1> QED BY <1>1, <1>2, FscGivesUp DEF FscUpdateStatus, objects, IInv, TypeOK

LEMMA FscRemoveEntryInv == ASSUME IInv, FscRemoveEntry PROVE IInv'
<1>1. fscW.pc = "rmEntry" /\ fscW.data \in Pools!Content
  BY DEF IInv, FscRemoveEntry, WorkersHold
<1> DEFINE new == [fscW.data EXCEPT ![fscW.req] = None]
<1>2. CASE FscPutCm(new) /\ FscReturn(fscW.inst # None)
  <2>1. new \in Pools!Content
    BY <1>1 DEF Pools!Content
  <2>2. fscW' = FscIdle /\ fscW' \in FscWorker /\ fscQ' \in SUBSET Cluster
    BY <1>1, <1>2, FscReturns
  <2>3. /\ cm' \in Log(Pools!Content \cup {None})
        /\ Live(cm') = new
        /\ scW' \in ScWorker
        /\ scW' = [scW EXCEPT !.cur = scW'.cur]
        /\ scW'.cur => scW.cur /\ scW.data = new
    BY <1>2, <2>1, FscPut
  <2>4. TypeOK'
    BY <2>2, <2>3 DEF FscRemoveEntry, IInv, TypeOK
  <2>5. /\ scW'.pc = scW.pc /\ scW'.req = scW.req /\ scW'.data = scW.data
        /\ scW'.todo = scW.todo
    BY <2>3 DEF IInv, TypeOK, ScWorker
  <2>6. WorkersHold' /\ CopiesLive'
    BY <2>2, <2>3, <2>5 DEF IInv, WorkersHold, CopiesLive, FscIdle
  <2> QED BY <2>4, <2>6 DEF IInv
<1>3. CASE FscConflict
  BY <1>1, <1>3, FscGivesUp DEF FscRemoveEntry, FscConflict, IInv, TypeOK
<1> QED BY <1>2, <1>3 DEF FscRemoveEntry

LEMMA ScStartInv == ASSUME IInv, NEW s \in StorageClass, ScStart(s) PROVE IInv'
<1>1. Cached(cm) \in Pools!Content /\ (Synced(cm) => Cached(cm) = Live(cm))
  BY LogVersions, SyncedIsLive DEF ScStart, IInv, TypeOK
<1>2. scW' = [ScIdle EXCEPT !.pc = "match", !.req = s, !.data = Cached(cm), !.cur = Synced(cm)]
      /\ scQ' = scQ \ {s} /\ UNCHANGED <<fsc, sc, sec, cm, fscQ, fscW, ops, faults>>
  BY DEF ScStart, objects
<1>3. scW' \in ScWorker
  BY <1>1, <1>2, IdleWorkers DEF ScIdle, ScWorker, Synced
<1>4. TypeOK'
  BY <1>2, <1>3 DEF IInv, TypeOK
<1>5. WorkersHold' /\ CopiesLive'
  BY <1>1, <1>2 DEF IInv, WorkersHold, CopiesLive, ScIdle
<1> QED BY <1>4, <1>5 DEF IInv

\* What a match against the cache can return.
LEMMA CachedMatch ==
    ASSUME TypeOK, NEW s \in StorageClass, Cached(sc[s]) # None
    PROVE  MatchIn(Cached, s) \subseteq Outcome
<1> DEFINE clusters == [f \in Cluster |-> IF Cached(fsc[f]) = None THEN None ELSE Cached(fsc[f]).secret]
           secrets == [x \in Secret |-> Cached(sec[x])]
<1>1. Cached(sc[s]).params \in Params
  <2>1. Cached(sc[s]) \in ScObject
    BY LogVersions DEF TypeOK
  <2> QED BY <2>1 DEF ScObject
<1>2. clusters \in ClusterList
  <2>1. \A f \in Cluster : Cached(fsc[f]) \in FscObject \cup {None}
    BY LogVersions DEF TypeOK
  <2> QED BY <2>1 DEF ClusterList, FscObject
<1>3. secrets \in SecretList
  BY LogVersions DEF TypeOK, SecretList
<1>4. MatchIn(Cached, s) = getFlashSystemClusterByStorageClass(Cached(sc[s]).params, clusters, secrets)
  BY DEF MatchIn
<1> HIDE DEF clusters, secrets
<1> QED BY <1>1, <1>2, <1>3, <1>4, MatchOutcomes

LEMMA ScLoopInv ==
    ASSUME IInv, scW.pc = "match", NEW want \in [Cluster -> Pool \cup {EmptyPool, None}],
           ScLoop(want), UNCHANGED <<objects, fscQ, fscW, ops, faults>>
    PROVE  IInv'
<1> DEFINE keys == {k \in Pools!Key : scW.data[k] # None}
<1>1. CASE ScReturn(FALSE)
  BY <1>1, ScGivesUp DEF objects, IInv, TypeOK
<1>2. CASE scW' = [scW EXCEPT !.pc = "loop", !.want = want, !.todo = keys] /\ UNCHANGED scQ
  <2>1. scW' \in ScWorker
    BY <1>2 DEF IInv, TypeOK, ScWorker
  <2>2. TypeOK'
    BY <1>2, <2>1 DEF IInv, TypeOK, objects
  <2>3. scW.data \in Pools!Content /\ scW.req \in StorageClass
    BY DEF IInv, WorkersHold
  <2>4. \A k \in keys : scW.data[k] \in Pools!Entry
    BY <2>3 DEF Pools!Content
  <2>5. /\ scW'.pc = "loop" /\ scW'.req = scW.req /\ scW'.data = scW.data
        /\ scW'.cur = scW.cur /\ scW'.todo = keys
    BY <1>2 DEF IInv, TypeOK, ScWorker
  <2>6. WorkersHold'
    BY <2>3, <2>4, <2>5 DEF IInv, WorkersHold, objects
  <2>7. CopiesLive'
    BY <2>5 DEF IInv, CopiesLive, objects
  <2> QED BY <2>2, <2>6, <2>7 DEF IInv
<1> QED BY <1>1, <1>2 DEF ScLoop

LEMMA ScMatchInv == ASSUME IInv, ScMatch PROVE IInv'
<1>1. /\ scW.pc = "match" /\ scW.req \in StorageClass
      /\ UNCHANGED <<objects, fscQ, fscW, ops, faults>>
  BY DEF IInv, WorkersHold, ScMatch
<1>2. NoMatch \in [Cluster -> Pool \cup {EmptyPool, None}]
  BY DEF NoMatch
<1>3. CASE ScLoop(NoMatch)
  BY <1>1, <1>2, <1>3, ScLoopInv
<1>4. CASE ScReturn(TRUE)
  BY <1>1, <1>4, ScGivesUp DEF objects, IInv, TypeOK
<1>5. CASE Cached(sc[scW.req]) # None
           /\ \E want \in MatchIn(Cached, scW.req) : want # Error /\ ScLoop(want)
  <2>1. PICK want \in MatchIn(Cached, scW.req) : want # Error /\ ScLoop(want)
    BY <1>5
  <2>2. want \in Outcome
    BY <1>1, <1>5, <2>1, CachedMatch DEF IInv
  <2> QED BY <1>1, <2>1, <2>2, ScLoopInv DEF Outcome
<1> QED BY <1>3, <1>4, <1>5 DEF ScMatch

LEMMA ScUpdateInv == ASSUME IInv, NEW k \in Pools!Key, ScUpdate(k) PROVE IInv'
<1>1. /\ scW.pc = "loop" /\ k \in scW.todo /\ scW.req \in StorageClass
      /\ scW.data \in Pools!Content /\ scW.data[k] \in Pools!Entry
      /\ UNCHANGED <<fsc, sc, sec, fscQ, ops, faults>>
  BY DEF IInv, WorkersHold, ScUpdate, InLoop
<1>2. CASE ScReturn(FALSE) /\ UNCHANGED <<cm, fscW>>
  BY <1>1, <1>2, ScGivesUp DEF IInv, TypeOK
<1>3. CASE ScConflict
  BY <1>1, <1>3, ScGivesUp DEF ScConflict, IInv, TypeOK
<1>4. CASE ScPool(k) # EmptyPool /\ scW.cur /\ ScPutCm(k)
  <2> DEFINE new == ScChanged(k)
             tables == [scW.data[k].scs EXCEPT ![scW.req] = ScPool(k)]
  <2>1. ScPool(k) \in Pool \cup {None}
    BY <1>1, <1>4, ConstantsAssumption DEF ScPool, IInv, TypeOK, ScWorker, Pools!Key
  <2>2. tables \in [StorageClass -> Pool \cup {None}]
    BY <1>1, <2>1 DEF Pools!Entry
  <2>3. [scW.data[k] EXCEPT !.scs = tables] \in Pools!Entry
    BY <1>1, <2>2 DEF Pools!Entry
  <2>4. new = [scW.data EXCEPT ![k] = [scW.data[k] EXCEPT !.scs = tables]]
    BY DEF ScChanged
  <2>5. new \in Pools!Content /\ \A j \in scW.todo : new[j] \in Pools!Entry
    BY <1>1, <2>3, <2>4 DEF IInv, WorkersHold, Pools!Content
  <2> HIDE DEF new
  <2>6. cm' \in Log(Pools!Content \cup {None}) /\ Live(cm') = new
    BY <1>4, <2>5, PutCmLive DEF ScPutCm, IInv, TypeOK, new
  <2>7. /\ fscW' \in FscWorker
        /\ fscW'.pc = fscW.pc /\ fscW'.req = fscW.req /\ fscW'.inst = fscW.inst
        /\ fscW'.data = fscW.data
        /\ fscW'.cur => fscW.cur /\ new = Live(cm)
    BY <1>4 DEF ScPutCm, StillLive, IInv, TypeOK, FscWorker, new
  <2>8. /\ scW' \in ScWorker /\ scQ' \in SUBSET StorageClass
        /\ \/ scW' = ScIdle
           \/ /\ scW'.pc = "loop" /\ scW'.req = scW.req /\ scW'.data = new
              /\ scW'.todo \subseteq scW.todo
    <3>1. CASE ScReturn(FALSE)
      BY <1>1, <3>1, ScReturns
    <3>2. CASE scW' = [scW EXCEPT !.todo = @ \ {k}, !.data = new, !.cur = StillLive(@, new)]
               /\ UNCHANGED scQ
      BY <1>1, <2>5, <3>2 DEF IInv, TypeOK, ScWorker, StillLive
    <3> QED BY <1>4, <3>1, <3>2 DEF ScPutCm, new
  <2>9. TypeOK'
    BY <1>1, <2>6, <2>7, <2>8 DEF IInv, TypeOK
  <2>10. WorkersHold'
    BY <1>1, <2>5, <2>7, <2>8 DEF IInv, WorkersHold, ScIdle
  <2>11. CopiesLive'
    BY <2>6, <2>7, <2>8 DEF IInv, CopiesLive, ScIdle
  <2> QED BY <2>9, <2>10, <2>11 DEF IInv
<1> QED BY <1>2, <1>3, <1>4 DEF ScUpdate

\* A step that leaves both workers and the live ConfigMap alone.
LEMMA WorkersUntouched ==
    ASSUME IInv, UNCHANGED <<fscW, scW>>, Live(cm') = Live(cm), TypeOK'
    PROVE  IInv'
BY DEF IInv, WorkersHold, CopiesLive

LEMMA DeliverInv == ASSUME IInv, Deliver PROVE IInv'
<1> USE DEF IInv, TypeOK
<1>1. ASSUME NEW f \in Cluster, DeliverFsc(f) PROVE IInv'
  <2>1. fsc' \in [Cluster -> Log(FscObject \cup {None})]
    BY <1>1, LogTail DEF DeliverFsc
  <2>2. TypeOK'
    BY <1>1, <2>1 DEF DeliverFsc, CachedScs
  <2> QED BY <1>1, <2>2, WorkersUntouched DEF DeliverFsc
<1>2. ASSUME NEW s \in StorageClass, DeliverSc(s) PROVE IInv'
  <2>1. sc' \in [StorageClass -> Log(ScObject \cup {None})]
    BY <1>2, LogTail DEF DeliverSc
  <2>2. fscQ' \subseteq Cluster
    BY <1>2 DEF DeliverSc, CachedFscs
  <2>3. TypeOK'
    BY <1>2, <2>1, <2>2 DEF DeliverSc
  <2> QED BY <1>2, <2>3, WorkersUntouched DEF DeliverSc
<1>3. ASSUME NEW x \in Secret, DeliverSecret(x) PROVE IInv'
  <2>1. sec' \in [Secret -> Log(SecretData \cup {None})]
    BY <1>3, LogTail DEF DeliverSecret
  <2>2. fscQ' \subseteq Cluster /\ scQ' \subseteq StorageClass
    BY <1>3 DEF DeliverSecret, CachedFscs, secretStorageClassMap
  <2>3. TypeOK'
    BY <1>3, <2>1, <2>2 DEF DeliverSecret
  <2> QED BY <1>3, <2>3, WorkersUntouched DEF DeliverSecret
<1>4. CASE DeliverCm
  <2>1. cm' \in Log(Pools!Content \cup {None}) /\ Live(cm') = Live(cm)
    BY <1>4, LogTail DEF DeliverCm
  <2>2. TypeOK'
    BY <1>4, <2>1 DEF DeliverCm, CachedFscs, CachedScs
  <2> QED BY <1>4, <2>1, <2>2, WorkersUntouched DEF DeliverCm
<1> QED BY <1>1, <1>2, <1>3, <1>4 DEF Deliver

LEMMA UserOpTypes ==
    ASSUME IInv, NEW op, UserOp(op)
    PROVE  ops' \in 0..MaxOps /\ UNCHANGED <<fscQ, scQ, faults>>
BY ConstantsAssumption DEF UserOp, IInv, TypeOK

LEMMA UserPutsFscInv ==
    ASSUME IInv, NEW f \in Cluster, NEW new \in FscObject \cup {None},
           UserPutsFsc(f, new), ops' \in 0..MaxOps, UNCHANGED <<fscQ, scQ, faults>>
    PROVE  IInv'
<1> USE DEF IInv, TypeOK
<1>1. fsc' \in [Cluster -> Log(FscObject \cup {None})]
  BY LogAppend DEF UserPutsFsc
<1>2. /\ fscW' \in FscWorker
      /\ fscW'.pc = fscW.pc /\ fscW'.req = fscW.req /\ fscW'.inst = fscW.inst
      /\ fscW'.data = fscW.data /\ fscW'.cur = fscW.cur
  BY DEF UserPutsFsc, FscWorker
<1>3. TypeOK'
  BY <1>1, <1>2 DEF UserPutsFsc
<1>4. WorkersHold' /\ CopiesLive'
  BY <1>2 DEF UserPutsFsc, WorkersHold, CopiesLive
<1> QED BY <1>3, <1>4

LEMMA UserFscInv ==
    ASSUME IInv, NEW f \in Cluster, CreateFsc(f) \/ DeleteFsc(f) \/ UpdateFsc(f)
    PROVE  IInv'
<1>1. Live(fsc[f]) \in FscObject \cup {None}
  BY LogVersions DEF IInv, TypeOK
<1>2. \A x \in FscSecrets[f] : x \in Secret
  BY ConstantsAssumption
<1>3. CASE CreateFsc(f)
  <2>1. FscOptions(f) \subseteq FscObject \cup {None}
    BY OptionTypes
  <2> QED BY <1>3, <2>1, UserOpTypes, UserPutsFscInv DEF CreateFsc
<1>4. CASE DeleteFsc(f)
  <2>1. (IF Live(fsc[f]).fin THEN [Live(fsc[f]) EXCEPT !.del = TRUE] ELSE None) \in FscObject \cup {None}
    BY <1>1, <1>4 DEF DeleteFsc, FscObject
  <2> QED BY <1>4, <2>1, UserOpTypes, UserPutsFscInv DEF DeleteFsc
<1>5. CASE UpdateFsc(f)
  <2>1. PICK x \in FscSecrets[f] : UserPutsFsc(f, [Live(fsc[f]) EXCEPT !.secret = x])
    BY <1>5 DEF UpdateFsc
  <2>2. [Live(fsc[f]) EXCEPT !.secret = x] \in FscObject
    BY <1>1, <1>2, <1>5 DEF UpdateFsc, FscObject
  <2> QED BY <1>5, <2>1, <2>2, UserOpTypes, UserPutsFscInv DEF UpdateFsc
<1> QED BY <1>3, <1>4, <1>5

LEMMA UserPutsScInv ==
    ASSUME IInv, NEW s \in StorageClass, NEW new \in ScObject \cup {None},
           UserPutsSc(s, new), ops' \in 0..MaxOps, UNCHANGED <<fscQ, scQ, faults>>
    PROVE  IInv'
<1>1. sc' \in [StorageClass -> Log(ScObject \cup {None})]
  BY LogAppend DEF UserPutsSc, IInv, TypeOK
<1>2. TypeOK'
  BY <1>1 DEF UserPutsSc, IInv, TypeOK
<1> QED BY <1>2, WorkersUntouched DEF UserPutsSc

LEMMA UserScInv ==
    ASSUME IInv, NEW s \in StorageClass, CreateSc(s) \/ TerminateSc(s) \/ DeleteSc(s)
    PROVE  IInv'
<1>1. Live(sc[s]) \in ScObject \cup {None}
  BY LogVersions DEF IInv, TypeOK
<1>2. CASE CreateSc(s)
  <2>1. ScOptions(s) \subseteq ScObject \cup {None}
    BY OptionTypes
  <2> QED BY <1>2, <2>1, UserOpTypes, UserPutsScInv DEF CreateSc
<1>3. CASE TerminateSc(s)
  <2>1. [Live(sc[s]) EXCEPT !.del = TRUE] \in ScObject
    BY <1>1, <1>3 DEF TerminateSc, ScObject
  <2> QED BY <1>3, <2>1, UserOpTypes, UserPutsScInv DEF TerminateSc
<1>4. CASE DeleteSc(s)
  BY <1>4, UserOpTypes, UserPutsScInv DEF DeleteSc
<1> QED BY <1>2, <1>3, <1>4

LEMMA UserSecretInv ==
    ASSUME IInv, NEW x \in Secret, SetSecret(x) \/ DeleteSecret(x)
    PROVE  IInv'
<1>1. PICK new \in SecretData \cup {None} : UserPutsSecret(x, new)
  BY ConstantsAssumption DEF SetSecret, DeleteSecret
<1>2. sec' \in [Secret -> Log(SecretData \cup {None})]
  BY <1>1, LogAppend DEF UserPutsSecret, IInv, TypeOK
<1>3. TypeOK'
  BY <1>1, <1>2, UserOpTypes DEF SetSecret, DeleteSecret, UserPutsSecret, IInv, TypeOK
<1> QED BY <1>1, <1>3, WorkersUntouched DEF UserPutsSecret

LEMMA DeleteCmInv == ASSUME IInv, DeleteCm PROVE IInv'
<1> USE DEF IInv, TypeOK
<1>1. cm' \in Log(Pools!Content \cup {None})
  BY LogAppend DEF DeleteCm
<1>2. /\ fscW' \in FscWorker /\ ~fscW'.cur
      /\ fscW'.pc = fscW.pc /\ fscW'.req = fscW.req /\ fscW'.inst = fscW.inst
      /\ fscW'.data = fscW.data
  BY DEF DeleteCm, FscWorker
<1>3. /\ scW' \in ScWorker /\ ~scW'.cur
      /\ scW'.pc = scW.pc /\ scW'.req = scW.req /\ scW'.data = scW.data /\ scW'.todo = scW.todo
  BY DEF DeleteCm, ScWorker
<1>4. TypeOK'
  BY <1>1, <1>2, <1>3, UserOpTypes DEF DeleteCm
<1>5. WorkersHold' /\ CopiesLive'
  BY <1>2, <1>3 DEF WorkersHold, CopiesLive
<1> QED BY <1>4, <1>5

LEMMA RestartInv == ASSUME IInv, Restart PROVE IInv'
<1> USE DEF IInv, TypeOK
<1>1. fsc' \in [Cluster -> Log(FscObject \cup {None})]
  BY LogVersions, LogRestart DEF Restart, RestartWith
<1>2. sc' \in [StorageClass -> Log(ScObject \cup {None})]
  BY LogVersions, LogRestart DEF Restart, RestartWith
<1>3. sec' \in [Secret -> Log(SecretData \cup {None})]
  BY LogVersions, LogRestart DEF Restart, RestartWith
<1>4. cm' \in Log(Pools!Content \cup {None})
  BY LogVersions, LogRestart DEF Restart, RestartWith
<1>5. fscQ' \subseteq Cluster /\ scQ' \subseteq StorageClass /\ ops' \in 0..MaxOps
  BY ConstantsAssumption DEF Restart, RestartWith, LiveFscs, LiveScs
<1>6. fscW' = FscIdle /\ scW' = ScIdle /\ faults' = faults
  BY DEF Restart, RestartWith
<1>7. TypeOK'
  BY <1>1, <1>2, <1>3, <1>4, <1>5, <1>6, IdleWorkers
<1>8. WorkersHold' /\ CopiesLive'
  BY <1>6 DEF WorkersHold, CopiesLive, FscIdle, ScIdle
<1> QED BY <1>7, <1>8

LEMMA FaultInv == ASSUME IInv, Fault PROVE IInv'
<1>1. faults' \in 0..MaxFaults
  BY ConstantsAssumption DEF Fault, IInv, TypeOK
<1>2. CASE fscW.pc # "idle" /\ FscReturn(TRUE) /\ UNCHANGED <<scQ, scW>>
  BY <1>1, <1>2, FscGivesUp DEF Fault, objects
<1>3. CASE scW.pc # "idle" /\ ScReturn(TRUE) /\ UNCHANGED <<fscQ, fscW>>
  BY <1>1, <1>3, ScGivesUp DEF Fault, objects
<1> QED BY <1>2, <1>3 DEF Fault

LEMMA StepInv == IInv /\ [Next]_vars => IInv'
<1> SUFFICES ASSUME IInv, [Next]_vars PROVE IInv'
  OBVIOUS
<1>1. CASE \E f \in Cluster : FscStart(f)
  BY <1>1, FscStartInv
<1>2. CASE FscWork
  BY <1>2, FscUpdateFinalizerInv, FscEnsureSecretInv, GetCreateConfigmapInv, FscDropPoolsInv,
     FscAddEntryInv, FscUpdateStatusInv, FscRemoveEntryInv DEF FscWork
<1>3. CASE \E s \in StorageClass : ScStart(s)
  BY <1>3, ScStartInv
<1>4. CASE ScWork
  BY <1>4, ScMatchInv, ScUpdateInv DEF ScWork
<1>5. CASE Deliver
  BY <1>5, DeliverInv
<1>6. CASE Users
  BY <1>6, UserFscInv, UserScInv, UserSecretInv, DeleteCmInv DEF Users
<1>7. CASE Restart
  BY <1>7, RestartInv
<1>8. CASE Fault
  BY <1>8, FaultInv
<1>9. CASE UNCHANGED vars
  BY <1>9 DEF vars, IInv, TypeOK, WorkersHold, CopiesLive
<1> QED BY <1>1, <1>2, <1>3, <1>4, <1>5, <1>6, <1>7, <1>8, <1>9 DEF Next

LEMMA Invariant == Spec => []IInv
BY InitInv, StepInv, PTL DEF Spec

\* Objects, queues and workers always have their types: no step of a
\* controller applies a field to an object that is not there (a nil
\* dereference in Go), and no entry ever holds the pool "".
THEOREM TypeCorrect == Spec => []TypeOK
<1>1. IInv => TypeOK
  BY DEF IInv
<1> QED BY Invariant, <1>1, PTL

----------------------------------------------------------------------------
(* PoolsConfigMap implements PoolMap.                                      *)

LEMMA InitRefines == Init => Pools!Init
<1> SUFFICES ASSUME Init PROVE Pools!Init
  OBVIOUS
<1>1. CASE cm = <<None>>
  BY <1>1 DEF Pools!Init, Live
<1>2. CASE \E m \in LegacyPools :
             cm = <<[Pools!EmptyMap EXCEPT ![PoolsKey] = [secret |-> None, scs |-> m]]>>
  <2>1. PICK m \in LegacyPools :
          cm = <<[Pools!EmptyMap EXCEPT ![PoolsKey] = [secret |-> None, scs |-> m]]>>
    BY <1>2
  <2>2. [secret |-> None, scs |-> m] \in Pools!Entry
    BY ConstantsAssumption DEF Pools!Entry
  <2> QED BY <2>1, <2>2 DEF Pools!Init, Pools!LegacyMaps, Live
<1> QED BY <1>1, <1>2 DEF Init

\* The Updates of the reconciler are steps of PoolMap.
LEMMA FscRefines ==
    ASSUME IInv, FscWork
    PROVE  Pools!Next \/ Live(cm') = Live(cm)
<1> USE DEF IInv, TypeOK
<1>1. CASE FscUpdateFinalizer \/ FscEnsureSecret \/ FscUpdateStatus
  BY <1>1 DEF FscUpdateFinalizer, FscEnsureSecret, FscUpdateStatus, objects
<1>2. CASE GetCreateConfigmap
  <2>1. CASE UNCHANGED cm
    BY <2>1
  <2>2. CASE Live(cm) = None /\ PutCm(Pools!EmptyMap)
    <3>1. Live(cm') = Pools!EmptyMap
      BY <2>2, PutCmLive, EmptyMapContent
    <3> QED BY <2>2, <3>1 DEF Pools!Next, Pools!Create
  <2> QED BY <1>2, <2>1, <2>2 DEF GetCreateConfigmap
<1>3. CASE FscDropPools
  <2> DEFINE new == [fscW.data EXCEPT ![PoolsKey] = None]
  <2>1. CASE UNCHANGED cm
    BY <2>1
  <2>2. CASE fscW.data[PoolsKey] # None /\ FscPutCm(new)
    <3>1. fscW.data = Live(cm) /\ fscW.data \in Pools!Content
      BY <1>3, <2>2 DEF FscDropPools, FscPutCm, CopiesLive, WorkersHold
    <3>2. new \in Pools!Content
      BY <3>1 DEF Pools!Content
    <3>3. Live(cm') = new
      BY <2>2, <3>2, FscPut
    <3>4. Live(cm) # None
      BY <3>1, NoneAssumption
    <3> QED BY <2>2, <3>1, <3>3, <3>4 DEF Pools!Next, Pools!DropLegacy
  <2> QED BY <1>3, <2>1, <2>2 DEF FscDropPools, FscUpdateCm, FscConflict
<1>4. CASE FscAddEntry
  <2> DEFINE entry == [secret |-> fscW.inst.secret, scs |-> Pools!NoPools]
             new == [fscW.data EXCEPT ![fscW.req] = entry]
  <2>1. CASE UNCHANGED cm
    BY <2>1
  <2>2. CASE fscW.data[fscW.req] = None /\ FscPutCm(new)
    <3>1. /\ fscW.data = Live(cm) /\ fscW.data \in Pools!Content
          /\ fscW.req \in Cluster /\ fscW.inst.secret \in Secret
      BY <1>4, <2>2 DEF FscAddEntry, FscPutCm, CopiesLive, WorkersHold, FscObject
    <3>2. entry \in Pools!Entry
      BY <3>1 DEF Pools!Entry, Pools!NoPools
    <3>3. new \in Pools!Content
      BY <3>1, <3>2 DEF Pools!Content
    <3>4. Live(cm') = new
      BY <2>2, <3>3, FscPut
    <3>5. Live(cm) # None
      BY <3>1, NoneAssumption
    <3>6. Pools!AddCluster(fscW.req)
      BY <2>2, <3>1, <3>4, <3>5 DEF Pools!AddCluster
    <3> QED BY <3>1, <3>6 DEF Pools!Next
  <2> QED BY <1>4, <2>1, <2>2 DEF FscAddEntry, FscUpdateCm, FscConflict
<1>5. CASE FscRemoveEntry
  <2> DEFINE new == [fscW.data EXCEPT ![fscW.req] = None]
  <2>1. CASE UNCHANGED cm
    BY <2>1
  <2>2. CASE FscPutCm(new)
    <3>1. fscW.data = Live(cm) /\ fscW.data \in Pools!Content /\ fscW.req \in Cluster
      BY <1>5, <2>2 DEF FscRemoveEntry, FscPutCm, CopiesLive, WorkersHold
    <3>2. new \in Pools!Content
      BY <3>1 DEF Pools!Content
    <3>3. Live(cm') = new
      BY <2>2, <3>2, FscPut
    <3>4. Live(cm) # None
      BY <3>1, NoneAssumption
    <3>5. CASE fscW.data[fscW.req] = None
      BY <3>1, <3>3, <3>5 DEF Pools!Content
    <3>6. CASE fscW.data[fscW.req] # None
      BY <3>1, <3>3, <3>4, <3>6 DEF Pools!Next, Pools!RemoveCluster
    <3> QED BY <3>5, <3>6
  <2> QED BY <1>5, <2>1, <2>2 DEF FscRemoveEntry, FscConflict
<1> QED BY <1>1, <1>2, <1>3, <1>4, <1>5 DEF FscWork

\* The Updates of the watcher are steps of PoolMap.
LEMMA ScRefines ==
    ASSUME IInv, ScWork
    PROVE  Pools!Next \/ Live(cm') = Live(cm)
<1>1. CASE ScMatch
  BY <1>1 DEF ScMatch, objects
<1>2. ASSUME NEW k \in Pools!Key, ScUpdate(k)
      PROVE  Pools!Next \/ Live(cm') = Live(cm)
  <2>1. CASE UNCHANGED cm
    BY <2>1
  <2>2. CASE ScPool(k) # EmptyPool /\ scW.cur /\ ScPutCm(k)
    <3> DEFINE new == ScChanged(k)
               tables == [scW.data[k].scs EXCEPT ![scW.req] = ScPool(k)]
    <3>1. /\ scW.data = Live(cm) /\ scW.data \in Pools!Content /\ scW.req \in StorageClass
          /\ scW.data[k] \in Pools!Entry
      BY <1>2, <2>2 DEF ScUpdate, InLoop, IInv, CopiesLive, WorkersHold
    <3>2. ScPool(k) \in Pool \cup {None}
      BY <1>2, <2>2, ConstantsAssumption DEF ScPool, IInv, TypeOK, ScWorker, Pools!Key
    <3>3. tables \in [StorageClass -> Pool \cup {None}]
      BY <3>1, <3>2 DEF Pools!Entry
    <3>4. [scW.data[k] EXCEPT !.scs = tables] \in Pools!Entry
      BY <3>1, <3>3 DEF Pools!Entry
    <3>5. new = [scW.data EXCEPT ![k] = [scW.data[k] EXCEPT !.scs = tables]]
      BY DEF ScChanged
    <3>6. new \in Pools!Content
      BY <3>1, <3>4, <3>5 DEF Pools!Content
    <3>7. Live(cm') = new
      BY <2>2, <3>6, PutCmLive DEF ScPutCm, IInv, TypeOK
    <3>8. Live(cm) # None /\ Live(cm)[k] # None
      BY <3>1, NoneAssumption
    <3>9. Live(cm') = [Live(cm) EXCEPT ![k].scs[scW.req] = ScPool(k)]
      BY <3>1, <3>7 DEF ScChanged
    <3> QED BY <1>2, <3>1, <3>2, <3>8, <3>9 DEF Pools!Next, Pools!SetPool
  <2> QED BY <1>2, <2>1, <2>2 DEF ScUpdate, ScConflict
<1> QED BY <1>1, <1>2 DEF ScWork

LEMMA StepRefines ==
    ASSUME IInv, [Next]_vars
    PROVE  [Pools!Next]_(Live(cm))
<1> SUFFICES Pools!Next \/ Live(cm') = Live(cm)
  OBVIOUS
<1>1. CASE \E f \in Cluster : FscStart(f)
  BY <1>1 DEF FscStart, objects
<1>2. CASE FscWork
  BY <1>2, FscRefines
<1>3. CASE \E s \in StorageClass : ScStart(s)
  BY <1>3 DEF ScStart, objects
<1>4. CASE ScWork
  BY <1>4, ScRefines
<1>5. CASE Deliver
  BY <1>5, LogTail DEF IInv, TypeOK, Deliver, DeliverFsc, DeliverSc, DeliverSecret, DeliverCm
<1>6. CASE Users
  <2>1. CASE DeleteCm
    <3>1. Live(cm) # None /\ Live(cm') = None
      BY <2>1, LogAppend DEF DeleteCm, IInv, TypeOK
    <3> QED BY <3>1 DEF Pools!Next, Pools!Delete
  <2>2. CASE ~DeleteCm
    BY <1>6, <2>2 DEF Users, CreateFsc, DeleteFsc, UpdateFsc, UserPutsFsc, CreateSc, TerminateSc,
       DeleteSc, UserPutsSc, SetSecret, DeleteSecret, UserPutsSecret
  <2> QED BY <2>1, <2>2
<1>7. CASE Restart
  <2>1. Live(cm) \in Pools!Content \cup {None}
    BY LogVersions DEF IInv, TypeOK
  <2> QED BY <1>7, <2>1, LogRestart DEF Restart, RestartWith
<1>8. CASE Fault
  BY <1>8 DEF Fault, objects
<1>9. CASE UNCHANGED vars
  BY <1>9 DEF vars
<1> QED BY <1>1, <1>2, <1>3, <1>4, <1>5, <1>6, <1>7, <1>8, <1>9 DEF Next

\* Whole-object Updates from stale caches, by two controllers and across
\* restarts, never lose or resurrect anything: the live ConfigMap changes by
\* one entry, or by one class of one entry, at a time.
THEOREM Refinement == Spec => PoolMapSpec
<1>1. Init => Pools!Init
  BY InitRefines
<1>2. IInv /\ [Next]_vars => [Pools!Next]_(Live(cm))
  BY StepRefines
<1> QED BY <1>1, <1>2, Invariant, PTL DEF Spec, PoolMapSpec, Pools!Spec
=============================================================================
