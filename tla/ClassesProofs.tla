---------------------------- MODULE ClassesProofs ---------------------------
(***************************************************************************)
(* Proofs about the pools of the storage classes in PoolsConfigMap, for any *)
(* clusters, classes, secrets and faults: a class that is gone, and whose   *)
(* deletion has been processed, is in no entry; and, when every change that *)
(* concerns a class is reported to its watcher, a class at rest is recorded *)
(* with the pools that a match against the live objects gives.              *)
(***************************************************************************)
EXTENDS EntriesProofs

----------------------------------------------------------------------------
(* Records in a log of ConfigMaps.                                         *)

\* Version v of the ConfigMap has a pool of class s in the entry of cluster f.
Rec(v, f, s) == Has(v, f) /\ v[f].scs[s] # None

\* The pool of class s that version v records in the entry of cluster f.
PoolOf(v, f, s) == IF Has(v, f) THEN v[f].scs[s] ELSE None

\* An entry with pools is no new one: it is in every version since the cached.
OldKeys(log) ==
    \A f \in Cluster, s \in StorageClass :
        Rec(Live(log), f, s) => \A i \in 1..Len(log) : Has(log[i], f)

\* A write that records pools only where there were some, or in an entry that
\* has reached the cache.
LEMMA OldKeysAppend ==
    ASSUME NEW V, NEW log \in Log(V), NEW v, OldKeys(log),
           \A f \in Cluster, s \in StorageClass :
               Rec(v, f, s) => Rec(Live(log), f, s) \/ (Synced(log) /\ Has(Live(log), f))
    PROVE  OldKeys(Append(log, v))
<1> DEFINE new == Append(log, v)
<1>1. /\ Len(log) \in Nat \ {0} /\ Len(new) = Len(log) + 1
      /\ \A i \in 1..Len(log) : new[i] = log[i]
      /\ new[Len(log) + 1] = v
  BY AppendIs
<1> HIDE DEF new
<1>2. Live(new) = v
  BY <1>1 DEF Live
<1> SUFFICES ASSUME NEW f \in Cluster, NEW s \in StorageClass, Rec(v, f, s), NEW i \in 1..Len(new)
             PROVE  Has(new[i], f)
  BY <1>2 DEF OldKeys, new
<1>3. CASE i = Len(log) + 1
  BY <1>1, <1>3 DEF Rec
<1>4. CASE i \in 1..Len(log)
  <2>1. CASE Rec(Live(log), f, s)
    BY <1>1, <1>4, <2>1 DEF OldKeys
  <2>2. CASE Synced(log) /\ Has(Live(log), f)
    <3>1. i = Len(log)
      BY <1>1, <1>4, <2>2 DEF Synced
    <3> QED BY <1>1, <1>4, <2>2, <3>1 DEF Live
  <2> QED BY <2>1, <2>2
<1> QED BY <1>1, <1>3, <1>4

\* A watch event.
LEMMA OldKeysTail ==
    ASSUME NEW V, NEW log \in Log(V), ~Synced(log), OldKeys(log)
    PROVE  OldKeys(Tail(log))
<1> DEFINE new == Tail(log)
<1>1. /\ Len(log) \in Nat /\ Len(log) > 1 /\ Len(new) = Len(log) - 1
      /\ \A i \in 1..Len(log) - 1 : new[i] = log[i + 1]
  BY TailIs
<1>2. Live(new) = Live(log)
  BY LogTail
<1> HIDE DEF new
<1> SUFFICES ASSUME NEW f \in Cluster, NEW s \in StorageClass, Rec(Live(log), f, s), NEW i \in 1..Len(new)
             PROVE  Has(new[i], f)
  BY <1>2 DEF OldKeys, new
<1>3. i + 1 \in 1..Len(log) /\ new[i] = log[i + 1]
  BY <1>1
<1> QED BY <1>3 DEF OldKeys

----------------------------------------------------------------------------
(* The inductive invariant.                                                *)

\* The watcher's copy is live only while the cache has it: what lets it write
\* pools into none but entries that have reached the cache.
CurSynced == scW.cur => Synced(cm)

\* The copy has every entry with pools: the loop comes to all of them.
HoldsKeys ==
    scW.pc # "idle" =>
        \A f \in Cluster, s \in StorageClass : Rec(Live(cm), f, s) => Has(scW.data, f)

\* A worker that records pools of a class that is gone meanwhile will work on
\* it again.
ScSeen ==
    scW.pc = "loop" /\ scW.want # NoMatch /\ Live(sc[scW.req]) = None /\ Synced(sc[scW.req])
        => scW.req \in scQ

\* The worker takes class s out of the entry of f.
TakesOut(f, s) ==
    /\ scW.req = s
    /\ \/ scW.pc = "match"
       \/ scW.pc = "loop" /\ scW.want = NoMatch /\ f \in scW.todo

\* A pool of a class that is gone has a queued name, an event or the worker
\* after it.
DeadSoon ==
    \A f \in Cluster, s \in StorageClass :
        Live(sc[s]) = None /\ Synced(sc[s]) /\ s \notin scQ /\ Rec(Live(cm), f, s) => TakesOut(f, s)

KInv == IInv /\ CurSynced /\ OldKeys(cm) /\ HoldsKeys

CInv == KInv /\ ScSeen /\ DeadSoon

\* What a step must keep beyond KInv.
DeadKept == ScSeen /\ DeadSoon => ScSeen' /\ DeadSoon'

ScVersion == ScObject \cup {None}

\* Nothing is recorded when the operator first starts.
LEMMA ClassesInit == ASSUME Init PROVE CInv
<1>1. IInv /\ scW = ScIdle
  BY InitInv DEF Init
<1>2. \A f \in Cluster, s \in StorageClass : ~Rec(Live(cm), f, s)
  <2>1. \A f \in Cluster : ~HasEntry(f)
    BY NothingAtStart
  <2> QED BY <2>1 DEF HasEntry, Rec, Has
<1>3. CurSynced /\ HoldsKeys /\ ScSeen
  BY <1>1 DEF CurSynced, HoldsKeys, ScSeen, ScIdle
<1>4. OldKeys(cm) /\ DeadSoon
  BY <1>2 DEF OldKeys, DeadSoon
<1> QED BY <1>1, <1>3, <1>4 DEF CInv, KInv

----------------------------------------------------------------------------
(* Steps that leave the watcher's work alone.                              *)

\* The worker of the watcher is where it was.
SameScWork == /\ scW'.pc = scW.pc /\ scW'.req = scW.req /\ scW'.data = scW.data
              /\ scW'.want = scW.want /\ scW'.todo = scW.todo

\* What such a step does to the ConfigMap: it records no pool, and takes pools
\* only with the entry of the reconciler's cluster or with the whole ConfigMap,
\* the deletion of which queues every class when it arrives.
CmCalm ==
    /\ CurSynced'
    /\ OldKeys(cm')
    /\ Coming(cm) => Coming(cm') \/ CachedScs \subseteq scQ'
    /\ \A f \in Cluster, s \in StorageClass :
         \/ PoolOf(Live(cm'), f, s) = PoolOf(Live(cm), f, s)
         \/ /\ PoolOf(Live(cm'), f, s) = None
            /\ Coming(cm') \/ (fscW.pc = "rmEntry" /\ fscW.req = f)

Calm == /\ scQ \subseteq scQ'
        /\ SameScWork
        /\ CmCalm

\* Such a step records no pool that was not recorded.
LEMMA CalmRec ==
    ASSUME Calm, NEW f \in Cluster, NEW s \in StorageClass, Rec(Live(cm'), f, s)
    PROVE  Rec(Live(cm), f, s)
BY DEF Calm, CmCalm, PoolOf, Rec

\* Such a step keeps the invariant.
LEMMA CalmKeeps == ASSUME KInv, Calm, IInv' PROVE KInv'
<1>1. HoldsKeys'
  BY CalmRec DEF KInv, HoldsKeys, Calm, SameScWork
<1> QED BY <1>1 DEF KInv, Calm, CmCalm

\* So it does the rest of it, when the classes stay as they are.
LEMMA CalmKeepsDead == ASSUME KInv, Calm, UNCHANGED sc PROVE DeadKept
<1>1. ScSeen => ScSeen'
  BY DEF ScSeen, Calm, SameScWork
<1>2. DeadSoon => DeadSoon'
  BY CalmRec DEF DeadSoon, TakesOut, Calm, SameScWork
<1> QED BY <1>1, <1>2 DEF DeadKept

\* A step that leaves the ConfigMap and the watcher's worker alone.
LEMMA SameCalm == ASSUME KInv, UNCHANGED <<cm, scW>>, scQ \subseteq scQ' PROVE Calm
BY DEF Calm, SameScWork, CmCalm, KInv, CurSynced

\* An accepted Update of the reconciler that records no pool.
LEMMA FscPutCalm ==
    ASSUME KInv, NEW new \in Pools!Content, FscPutCm(new), UNCHANGED scQ,
           \A f \in Cluster, s \in StorageClass :
               \/ PoolOf(new, f, s) = PoolOf(Live(cm), f, s)
               \/ PoolOf(new, f, s) = None /\ fscW.pc = "rmEntry" /\ fscW.req = f
    PROVE  Calm
<1>1. cm \in Log(CmVersion) /\ scW \in ScWorker /\ PutCm(new)
  BY DEF KInv, IInv, TypeOK, CmVersion, FscPutCm
<1>2. scW' = [scW EXCEPT !.cur = scW.cur /\ new = Live(cm)]
  BY DEF FscPutCm, StillLive
<1>3. SameScWork /\ (scW'.cur => scW.cur /\ new = Live(cm))
  BY <1>1, <1>2 DEF SameScWork, ScWorker
<1>4. Live(cm') = new
  BY <1>1, PutCmLive DEF CmVersion
<1>5. OldKeys(cm') /\ (Coming(cm) => Coming(cm'))
  <2>1. CASE cm' = cm
    BY <2>1 DEF KInv
  <2>2. CASE cm' = Append(cm, new)
    <3>1. \A f \in Cluster, s \in StorageClass : Rec(new, f, s) => Rec(Live(cm), f, s)
      BY DEF Rec, PoolOf
    <3> QED BY <1>1, <2>2, <3>1, OldKeysAppend, ComingAppend DEF KInv
  <2> QED BY <1>1, <2>1, <2>2 DEF PutCm
<1>6. CurSynced'
  BY <1>1, <1>3 DEF KInv, CurSynced, PutCm
<1> QED BY <1>3, <1>4, <1>5, <1>6 DEF Calm, CmCalm

\* The reconciler's Updates: one key of its copy, to nothing or to an entry
\* without pools.
LEMMA FscKeyCalm ==
    ASSUME KInv, fscW.pc \in {"pools", "entry", "rmEntry"}, NEW k \in Pools!Key,
           NEW e \in Pools!Entry \cup {None}, e # None => e.scs = Pools!NoPools,
           k = PoolsKey \/ fscW.data[k] = None \/ (fscW.pc = "rmEntry" /\ fscW.req = k),
           FscPutCm([fscW.data EXCEPT ![k] = e]), UNCHANGED scQ
    PROVE  Calm
<1> DEFINE new == [fscW.data EXCEPT ![k] = e]
<1>1. fscW.data \in Pools!Content /\ fscW.data = Live(cm)
  BY DEF KInv, IInv, WorkersHold, CopiesLive, FscPutCm
<1>2. new \in Pools!Content
  BY <1>1 DEF Pools!Content
<1>3. ASSUME NEW f \in Cluster, NEW s \in StorageClass
      PROVE  \/ PoolOf(new, f, s) = PoolOf(Live(cm), f, s)
             \/ PoolOf(new, f, s) = None /\ fscW.pc = "rmEntry" /\ fscW.req = f
  <2>1. new[f] = IF f = k THEN e ELSE fscW.data[f]
    BY <1>1 DEF Pools!Content, Pools!Key
  <2>2. Pools!NoPools[s] = None
    BY DEF Pools!NoPools
  <2>3. Live(cm) # None /\ new # None /\ f # PoolsKey
    BY <1>1, <1>2, NoneAssumption, ConstantsAssumption
  <2> HIDE DEF new
  <2>4. f = k => PoolOf(new, f, s) = None
    BY <2>1, <2>2 DEF PoolOf, Has
  <2>5. f # k => PoolOf(new, f, s) = PoolOf(Live(cm), f, s)
    BY <1>1, <2>1, <2>3 DEF PoolOf, Has
  <2>6. fscW.data[f] = None => PoolOf(Live(cm), f, s) = None
    BY <1>1 DEF PoolOf, Has
  <2> QED BY <2>3, <2>4, <2>5, <2>6
<1> HIDE DEF new
<1> QED BY <1>2, <1>3, FscPutCalm DEF new

\* The steps of the reconciler.
LEMMA FscCalm == ASSUME KInv, (\E f \in Cluster : FscStart(f)) \/ FscWork PROVE Calm
<1>0. IInv /\ cm \in Log(CmVersion)
  BY DEF KInv, IInv, TypeOK, CmVersion
<1>1. CASE \E f \in Cluster : FscStart(f)
  BY <1>1, SameCalm DEF FscStart, objects
<1>2. CASE FscUpdateFinalizer \/ FscEnsureSecret \/ FscUpdateStatus
  BY <1>2, SameCalm DEF FscUpdateFinalizer, FscEnsureSecret, FscUpdateStatus, objects
<1>3. CASE GetCreateConfigmap
  <2>1. UNCHANGED <<scQ, scW>>
    BY <1>3 DEF GetCreateConfigmap
  <2>2. CASE UNCHANGED cm
    BY <2>1, <2>2, SameCalm
  <2>3. CASE Live(cm) = None /\ PutCm(Pools!EmptyMap)
    <3>1. ~scW.cur
      BY <1>0, <2>3, NoneAssumption DEF IInv, CopiesLive, WorkersHold
    <3>2. Live(cm') = Pools!EmptyMap /\ \A f \in Cluster : Pools!EmptyMap[f] = None
      BY <1>0, <2>3, PutCmLive, EmptyMapContent DEF CmVersion, Pools!EmptyMap, Pools!Key
    <3>3. \A f \in Cluster, s \in StorageClass :
            /\ ~Rec(Live(cm'), f, s)
            /\ PoolOf(Live(cm'), f, s) = None /\ PoolOf(Live(cm), f, s) = None
      BY <2>3, <3>2 DEF Rec, PoolOf, Has
    <3>4. CurSynced' /\ OldKeys(cm')
      BY <2>1, <3>1, <3>3 DEF CurSynced, OldKeys
    <3>5. Coming(cm) => Coming(cm')
      BY <1>0, <2>3, ComingAppend DEF PutCm
    <3> QED BY <2>1, <3>3, <3>4, <3>5 DEF Calm, SameScWork, CmCalm
  <2> QED BY <1>3, <2>2, <2>3 DEF GetCreateConfigmap
<1>4. CASE FscDropPools
  <2>1. fscW.pc = "pools" /\ UNCHANGED scQ /\ PoolsKey \in Pools!Key
    BY <1>4 DEF FscDropPools, Pools!Key
  <2>2. CASE UNCHANGED <<cm, scW>>
    BY <2>1, <2>2, SameCalm
  <2>3. CASE FscPutCm([fscW.data EXCEPT ![PoolsKey] = None])
    BY <2>1, <2>3, FscKeyCalm
  <2> QED BY <1>4, <2>2, <2>3 DEF FscDropPools, FscUpdateCm, FscConflict
<1>5. CASE FscAddEntry
  <2> DEFINE entry == [secret |-> fscW.inst.secret, scs |-> Pools!NoPools]
  <2>1. /\ fscW.pc = "entry" /\ UNCHANGED scQ /\ fscW.req \in Pools!Key
        /\ fscW.inst.secret \in Secret
    BY <1>0, <1>5 DEF FscAddEntry, IInv, WorkersHold, FscObject, Pools!Key
  <2>2. CASE UNCHANGED <<cm, scW>>
    BY <2>1, <2>2, SameCalm
  <2>3. CASE fscW.data[fscW.req] = None /\ FscPutCm([fscW.data EXCEPT ![fscW.req] = entry])
    <3>1. entry \in Pools!Entry /\ entry.scs = Pools!NoPools
      BY <2>1 DEF Pools!Entry, Pools!NoPools
    <3> HIDE DEF entry
    <3> QED BY <2>1, <2>3, <3>1, FscKeyCalm
  <2> QED BY <1>5, <2>2, <2>3 DEF FscAddEntry, FscUpdateCm, FscConflict
<1>6. CASE FscRemoveEntry
  <2>1. fscW.pc = "rmEntry" /\ UNCHANGED scQ /\ fscW.req \in Pools!Key
    BY <1>0, <1>6 DEF FscRemoveEntry, IInv, WorkersHold, Pools!Key
  <2>2. CASE UNCHANGED <<cm, scW>>
    BY <2>1, <2>2, SameCalm
  <2>3. CASE FscPutCm([fscW.data EXCEPT ![fscW.req] = None])
    BY <2>1, <2>3, FscKeyCalm
  <2> QED BY <1>6, <2>2, <2>3 DEF FscRemoveEntry, FscConflict
<1> QED BY <1>1, <1>2, <1>3, <1>4, <1>5, <1>6 DEF FscWork

\* The steps of others: the reconciler, events, users, faults of the reconciler.
OthersStep ==
    \/ (\E f \in Cluster : FscStart(f)) \/ FscWork
    \/ Deliver \/ Users
    \/ Fault /\ UNCHANGED <<scQ, scW>>
    \/ UNCHANGED vars

\* They leave the watcher's work alone.
LEMMA OthersCalm == ASSUME KInv, OthersStep PROVE Calm
<1>0. IInv /\ cm \in Log(CmVersion) /\ scW \in ScWorker
  BY DEF KInv, IInv, TypeOK, CmVersion
<1>1. CASE UNCHANGED vars
  BY <1>1, SameCalm DEF vars
<1>2. CASE Fault /\ UNCHANGED <<scQ, scW>>
  BY <1>2, SameCalm DEF Fault, objects
<1>3. ASSUME NEW f \in Cluster, CreateFsc(f) \/ DeleteFsc(f) \/ UpdateFsc(f) PROVE Calm
  BY <1>3, SameCalm DEF CreateFsc, DeleteFsc, UpdateFsc, UserPutsFsc, UserOp
<1>4. ASSUME NEW x \in Secret, SetSecret(x) \/ DeleteSecret(x) PROVE Calm
  BY <1>4, SameCalm DEF SetSecret, DeleteSecret, UserPutsSecret, UserOp
<1>5. ASSUME NEW s \in StorageClass, CreateSc(s) \/ TerminateSc(s) \/ DeleteSc(s) PROVE Calm
  BY <1>5, SameCalm DEF CreateSc, TerminateSc, DeleteSc, UserPutsSc, UserOp
<1>6. ASSUME NEW f \in Cluster, DeliverFsc(f) PROVE Calm
  BY <1>6, SameCalm DEF DeliverFsc
<1>7. ASSUME NEW x \in Secret, DeliverSecret(x) PROVE Calm
  BY <1>7, SameCalm DEF DeliverSecret
<1>8. ASSUME NEW s \in StorageClass, DeliverSc(s) PROVE Calm
  BY <1>8, SameCalm DEF DeliverSc
<1>9. CASE DeliverCm
  <2>1. /\ cm' = Tail(cm) /\ ~Synced(cm) /\ UNCHANGED scW /\ scQ \subseteq scQ'
        /\ cm[2] = None => CachedScs \subseteq scQ'
    BY <1>9 DEF DeliverCm
  <2>2. Live(cm') = Live(cm) /\ OldKeys(cm')
    BY <1>0, <2>1, LogTail, OldKeysTail DEF KInv
  <2>3. CurSynced'
    BY <2>1 DEF KInv, CurSynced
  <2>4. Coming(cm) => Coming(cm') \/ CachedScs \subseteq scQ'
    BY <1>0, <2>1, ComingTail
  <2> QED BY <2>1, <2>2, <2>3, <2>4 DEF Calm, SameScWork, CmCalm
<1>10. CASE DeleteCm
  <2>1. cm' = Append(cm, None) /\ UNCHANGED scQ /\ scW' = [scW EXCEPT !.cur = FALSE]
    BY <1>10 DEF DeleteCm, UserOp
  <2>2. Live(cm') = None /\ Coming(cm')
    BY <1>0, <2>1, LogAppend, ComingAppend DEF CmVersion
  <2>3. \A f \in Cluster, s \in StorageClass : ~Rec(Live(cm'), f, s) /\ PoolOf(Live(cm'), f, s) = None
    BY <2>2 DEF Rec, PoolOf, Has
  <2>4. SameScWork /\ ~scW'.cur
    BY <1>0, <2>1 DEF SameScWork, ScWorker
  <2>5. CurSynced' /\ OldKeys(cm')
    BY <2>3, <2>4 DEF CurSynced, OldKeys
  <2> QED BY <2>1, <2>2, <2>3, <2>4, <2>5 DEF Calm, CmCalm
<1> QED BY <1>1, <1>2, <1>3, <1>4, <1>5, <1>6, <1>7, <1>8, <1>9, <1>10, FscCalm
        DEF OthersStep, Deliver, Users

----------------------------------------------------------------------------
(* The steps of the watcher, and those that change a class.                *)

\* An error, or a fault: the class is queued again.
LEMMA ScGivesUpKeeps ==
    ASSUME KInv, IInv', scW.pc # "idle", ScReturn(TRUE), UNCHANGED <<sc, cm>>
    PROVE  KInv' /\ DeadKept
<1>1. scW' = ScIdle /\ scQ' = scQ \cup {scW.req}
  BY DEF ScReturn
<1>2. CurSynced' /\ HoldsKeys' /\ ScSeen'
  BY <1>1 DEF CurSynced, HoldsKeys, ScSeen, ScIdle
<1>3. DeadSoon => DeadSoon'
  BY <1>1 DEF DeadSoon, TakesOut
<1> QED BY <1>2, <1>3 DEF KInv, DeadKept

\* The end of the loop without an error.
LEMMA ScEndKeeps ==
    ASSUME KInv, IInv', scW.pc # "idle", ScReturn(FALSE), UNCHANGED <<sc, cm>>,
           \A f \in Cluster : Rec(Live(cm), f, scW.req) /\ TakesOut(f, scW.req)
                              => Live(sc[scW.req]) # None \/ ~Synced(sc[scW.req]) \/ scW.req \in scQ
    PROVE  KInv' /\ DeadKept
<1>1. scW' = ScIdle /\ scQ' = scQ
  BY DEF ScReturn
<1>2. CurSynced' /\ HoldsKeys' /\ ScSeen'
  BY <1>1 DEF CurSynced, HoldsKeys, ScSeen, ScIdle
<1>3. DeadSoon => DeadSoon'
  BY <1>1 DEF DeadSoon, TakesOut
<1> QED BY <1>2, <1>3 DEF KInv, DeadKept

\* The ConfigMap is read.
LEMMA ScStartKeeps == ASSUME KInv, IInv', NEW s \in StorageClass, ScStart(s) PROVE KInv' /\ DeadKept
<1>1. /\ scW.pc = "idle" /\ s \in scQ /\ Cached(cm) # None /\ scQ' = scQ \ {s}
      /\ UNCHANGED <<sc, cm>>
      /\ scW' = [ScIdle EXCEPT !.pc = "match", !.req = s, !.data = Cached(cm), !.cur = Synced(cm)]
  BY DEF ScStart, objects
<1>2. scW'.pc = "match" /\ scW'.req = s /\ scW'.data = Cached(cm) /\ scW'.cur = Synced(cm)
  BY <1>1 DEF ScIdle
<1>3. CurSynced' /\ ScSeen'
  BY <1>1, <1>2 DEF CurSynced, ScSeen
<1>4. Len(cm) \in Nat \ {0} /\ Cached(cm) = cm[1]
  <2>1. cm \in Log(CmVersion)
    BY DEF KInv, IInv, TypeOK, CmVersion
  <2> QED BY <2>1, LogVersions DEF Log, Cached
<1>5. HoldsKeys'
  <2>1. 1 \in 1..Len(cm)
    BY <1>4
  <2> QED BY <1>1, <1>2, <1>4, <2>1 DEF KInv, OldKeys, HoldsKeys
<1>6. DeadSoon => DeadSoon'
  BY <1>1, <1>2 DEF DeadSoon, TakesOut
<1> QED BY <1>1, <1>3, <1>5, <1>6 DEF KInv, DeadKept

\* The match, up to the loop: a class that is gone goes to every key.
LEMMA ScMatchKeeps == ASSUME KInv, IInv', ScMatch PROVE KInv' /\ DeadKept
<1> DEFINE s == scW.req
           keys == {k \in Pools!Key : scW.data[k] # None}
<1>0. /\ scW.pc = "match" /\ s \in StorageClass /\ scW \in ScWorker /\ UNCHANGED <<sc, cm>>
      /\ sc[s] \in Log(ScVersion)
  BY DEF ScMatch, objects, KInv, IInv, TypeOK, WorkersHold, ScVersion
<1>1. CASE ScReturn(TRUE)
  BY <1>0, <1>1, ScGivesUpKeeps
<1>2. \A f \in Cluster, t \in StorageClass : Rec(Live(cm), f, t) => f \in keys
  BY <1>0 DEF KInv, HoldsKeys, Has, Pools!Key
<1>3. ASSUME NEW want, ScLoop(want), Cached(sc[s]) = None => want = NoMatch PROVE KInv' /\ DeadKept
  <2>1. Live(sc[s]) = None /\ Synced(sc[s]) => want = NoMatch
    BY <1>0, <1>3, SyncedIsLive
  <2>2. CASE keys = {} /\ ScReturn(FALSE)
    BY <1>0, <1>2, <2>2, ScEndKeeps
  <2>3. CASE scW' = [scW EXCEPT !.pc = "loop", !.want = want, !.todo = keys] /\ UNCHANGED scQ
    <3>1. /\ scW'.pc = "loop" /\ scW'.req = scW.req /\ scW'.data = scW.data /\ scW'.cur = scW.cur
          /\ scW'.want = want /\ scW'.todo = keys
      BY <1>0, <2>3 DEF ScWorker
    <3> HIDE DEF keys
    <3>2. CurSynced' /\ HoldsKeys'
      BY <1>0, <3>1 DEF KInv, CurSynced, HoldsKeys
    <3>3. ScSeen'
      BY <1>0, <2>1, <3>1 DEF ScSeen
    <3>4. DeadSoon => DeadSoon'
      BY <1>0, <1>2, <2>1, <2>3, <3>1 DEF DeadSoon, TakesOut
    <3> QED BY <1>0, <3>2, <3>3, <3>4 DEF KInv, DeadKept
  <2> QED BY <1>3, <2>2, <2>3 DEF ScLoop
<1>4. CASE Cached(sc[s]) = None /\ ScLoop(NoMatch)
  BY <1>3, <1>4
<1>5. CASE Cached(sc[s]) # None
  <2>1. ScReturn(TRUE) \/ \E want : ScLoop(want)
    BY <1>5 DEF ScMatch
  <2> QED BY <1>1, <1>3, <1>5, <2>1
<1> QED BY <1>4, <1>5 DEF ScMatch

\* An accepted Update of the watcher: only the pool of its class in one entry.
LEMMA ScPutIs ==
    ASSUME KInv, NEW k \in Pools!Key, ScUpdate(k), ScPool(k) # EmptyPool, scW.cur, ScPutCm(k)
    PROVE  /\ ScChanged(k) \in Pools!Content
           /\ \A f \in Cluster, s \in StorageClass :
                Rec(ScChanged(k), f, s) => /\ Has(Live(cm), f)
                                           /\ IF f = k /\ s = scW.req THEN ScPool(k) # None
                                              ELSE Rec(Live(cm), f, s)
<1> DEFINE new == ScChanged(k)
           entry == [scW.data[k] EXCEPT !.scs[scW.req] = ScPool(k)]
<1>1. /\ scW.data = Live(cm) /\ scW.data \in Pools!Content /\ scW.req \in StorageClass
      /\ scW.data[k] \in Pools!Entry /\ IInv
  BY DEF ScUpdate, InLoop, KInv, IInv, CopiesLive, WorkersHold
<1>2. ScPool(k) \in Pool \cup {None}
  BY <1>1, ConstantsAssumption DEF ScPool, IInv, TypeOK, ScWorker, Pools!Key
<1>3. /\ entry \in Pools!Entry
      /\ \A s \in StorageClass : entry.scs[s] = IF s = scW.req THEN ScPool(k) ELSE scW.data[k].scs[s]
  BY <1>1, <1>2 DEF Pools!Entry
<1>4. new = [scW.data EXCEPT ![k] = entry]
  BY DEF ScChanged
<1> HIDE DEF entry
<1>5. new \in Pools!Content
  BY <1>1, <1>3, <1>4 DEF Pools!Content
<1>6. Live(cm) # None /\ scW.data[k] # None
  BY <1>1, NoneAssumption
<1>7. ASSUME NEW f \in Cluster, NEW s \in StorageClass, Rec(new, f, s)
      PROVE  /\ Has(Live(cm), f)
             /\ IF f = k /\ s = scW.req THEN ScPool(k) # None ELSE Rec(Live(cm), f, s)
  <2>1. new[f] = IF f = k THEN entry ELSE scW.data[f]
    BY <1>1, <1>4 DEF Pools!Content, Pools!Key
  <2> HIDE DEF new
  <2> QED BY <1>1, <1>3, <1>6, <1>7, <2>1 DEF Rec, Has
<1> QED BY <1>5, <1>7

\* One round of the loop.
LEMMA ScUpdateKeeps == ASSUME KInv, IInv', NEW k \in Pools!Key, ScUpdate(k) PROVE KInv' /\ DeadKept
<1>0. /\ scW.pc = "loop" /\ k \in scW.todo /\ UNCHANGED sc /\ scW.req \in StorageClass
      /\ scW \in ScWorker /\ cm \in Log(CmVersion)
  BY DEF ScUpdate, InLoop, KInv, IInv, TypeOK, WorkersHold, CmVersion
<1>n. scW.want = NoMatch => ScPool(k) = None
  BY DEF ScPool, NoMatch, Pools!Key
<1>1. CASE ScPool(k) = EmptyPool /\ ScReturn(FALSE) /\ UNCHANGED cm
  <2>1. scW.want # NoMatch
    BY <1>1, <1>n, SentinelAssumption
  <2> QED BY <1>0, <1>1, <2>1, ScEndKeeps DEF TakesOut
<1>2. CASE ScConflict
  BY <1>0, <1>2, ScGivesUpKeeps DEF ScConflict
<1>3. CASE ScPool(k) # EmptyPool /\ scW.cur /\ ScPutCm(k)
  <2> DEFINE new == ScChanged(k)
  <2>1. new \in Pools!Content
    BY <1>3, ScPutIs
  <2>2. \A f \in Cluster, s \in StorageClass :
          Rec(new, f, s) => /\ Has(Live(cm), f)
                            /\ IF f = k /\ s = scW.req THEN ScPool(k) # None ELSE Rec(Live(cm), f, s)
    BY <1>3, ScPutIs
  <2>3. /\ PutCm(new) /\ Synced(cm)
        /\ IF scW.todo = {k} THEN ScReturn(FALSE)
           ELSE /\ scW' = [scW EXCEPT !.todo = scW.todo \ {k}, !.data = new,
                                      !.cur = scW.cur /\ new = Live(cm)]
                /\ UNCHANGED scQ
    BY <1>3 DEF ScPutCm, StillLive, KInv, CurSynced
  <2> HIDE DEF new
  <2>4. Live(cm') = new
    BY <1>0, <2>1, <2>3, PutCmLive DEF CmVersion
  <2>5. OldKeys(cm')
    <3>1. CASE cm' = cm
      BY <3>1 DEF KInv, DeadKept
    <3>2. CASE cm' = Append(cm, new)
      BY <1>0, <2>2, <2>3, <3>2, OldKeysAppend DEF KInv, DeadKept
    <3> QED BY <2>3, <3>1, <3>2 DEF PutCm
  <2>6. ASSUME ScSeen, DeadSoon, NEW f \in Cluster, NEW s \in StorageClass, Rec(new, f, s),
               Live(sc[s]) = None, Synced(sc[s]), s \notin scQ
        PROVE  s = scW.req /\ scW.want = NoMatch /\ f \in scW.todo \ {k}
    <3>1. s = scW.req => scW.want = NoMatch
      BY <1>0, <2>6 DEF ScSeen
    <3>2. Rec(Live(cm), f, s) /\ ~(f = k /\ s = scW.req)
      BY <1>n, <2>2, <2>6, <3>1
    <3>3. TakesOut(f, s)
      BY <2>6, <3>2 DEF DeadSoon
    <3> QED BY <1>0, <3>2, <3>3 DEF TakesOut
  <2>7. CASE scW.todo = {k}
    <3>1. scW' = ScIdle /\ scQ' = scQ
      BY <2>3, <2>7 DEF ScReturn
    <3>2. CurSynced' /\ HoldsKeys' /\ ScSeen'
      BY <3>1 DEF CurSynced, HoldsKeys, ScSeen, ScIdle
    <3>3. ScSeen /\ DeadSoon => DeadSoon'
      <4> SUFFICES ASSUME ScSeen, DeadSoon PROVE DeadSoon'
        OBVIOUS
      <4> QED BY <1>0, <2>4, <2>6, <2>7, <3>1 DEF DeadSoon
    <3> QED BY <2>5, <3>2, <3>3 DEF KInv, DeadKept
  <2>8. CASE scW.todo # {k}
    <3>1. /\ scW'.pc = "loop" /\ scW'.req = scW.req /\ scW'.want = scW.want /\ scW'.data = new
          /\ scW'.todo = scW.todo \ {k} /\ (scW'.cur => new = Live(cm)) /\ scQ' = scQ
      BY <1>0, <2>3, <2>8 DEF ScWorker
    <3>2. CurSynced'
      BY <2>3, <3>1 DEF CurSynced, PutCm
    <3>3. HoldsKeys'
      BY <2>4, <3>1 DEF HoldsKeys, Rec
    <3>4. ScSeen => ScSeen'
      BY <1>0, <3>1 DEF ScSeen
    <3>5. ScSeen /\ DeadSoon => DeadSoon'
      <4> SUFFICES ASSUME ScSeen, DeadSoon PROVE DeadSoon'
        OBVIOUS
      <4> QED BY <1>0, <2>4, <2>6, <3>1 DEF DeadSoon, TakesOut
    <3> QED BY <2>5, <3>2, <3>3, <3>4, <3>5 DEF KInv, DeadKept
  <2> QED BY <2>7, <2>8
<1> QED BY <1>1, <1>2, <1>3 DEF ScUpdate, ScConflict

\* An event of a class queues it; a write to a class has an event on its way.
LEMMA ClassChangeKeeps ==
    ASSUME KInv, NEW s \in StorageClass, UNCHANGED <<cm, scW>>,
           \A t \in StorageClass \ {s} : sc'[t] = sc[t],
           scQ \subseteq scQ', s \in scQ' \/ ~Synced(sc'[s])
    PROVE  DeadKept
<1>1. scW.pc = "loop" => scW.req \in StorageClass
  BY DEF KInv, IInv, WorkersHold
<1>2. ScSeen => ScSeen'
  BY <1>1 DEF ScSeen
<1>3. DeadSoon => DeadSoon'
  BY DEF DeadSoon, TakesOut
<1> QED BY <1>2, <1>3 DEF DeadKept

\* The steps of the watcher's worker.
WatcherStep ==
    \/ \E s \in StorageClass : ScStart(s)
    \/ ScWork
    \/ Fault /\ scW.pc # "idle" /\ ScReturn(TRUE)

\* They keep the invariant.
LEMMA WatcherKeeps == ASSUME KInv, IInv', WatcherStep PROVE KInv' /\ DeadKept
<1>1. ASSUME NEW s \in StorageClass, ScStart(s) PROVE KInv' /\ DeadKept
  BY <1>1, ScStartKeeps
<1>2. CASE ScMatch
  BY <1>2, ScMatchKeeps
<1>3. ASSUME NEW k \in Pools!Key, ScUpdate(k) PROVE KInv' /\ DeadKept
  BY <1>3, ScUpdateKeeps
<1>4. CASE Fault /\ scW.pc # "idle" /\ ScReturn(TRUE)
  BY <1>4, ScGivesUpKeeps DEF Fault, objects
<1> QED BY <1>1, <1>2, <1>3, <1>4 DEF WatcherStep, ScWork

\* A step is one of others, one of the watcher, or a restart.
LEMMA StepIs == ASSUME [Next]_vars PROVE OthersStep \/ WatcherStep \/ Restart
BY DEF Next, Fault, OthersStep, WatcherStep

\* The copies of the ConfigMap, for every step.
LEMMA KeysStep == ASSUME KInv, [Next]_vars PROVE KInv'
<1>0. IInv' /\ cm \in Log(CmVersion)
  BY StepInv DEF KInv, IInv, TypeOK, CmVersion
<1>1. CASE OthersStep
  BY <1>0, <1>1, OthersCalm, CalmKeeps
<1>2. CASE WatcherStep
  BY <1>0, <1>2, WatcherKeeps
<1>3. CASE Restart
  <2>1. cm' = <<Live(cm)>> /\ scW' = ScIdle
    BY <1>3 DEF Restart, RestartWith
  <2>2. CurSynced' /\ HoldsKeys'
    BY <2>1 DEF CurSynced, HoldsKeys, ScIdle
  <2>3. Len(cm') = 1 /\ Live(cm') = cm'[1]
    BY <2>1 DEF Live
  <2>4. OldKeys(cm')
    BY <2>3 DEF OldKeys, Rec
  <2> QED BY <1>0, <2>2, <2>4 DEF KInv
<1> QED BY <1>1, <1>2, <1>3, StepIs

\* Every step keeps the invariant, but for a restart.
LEMMA ClassesStep == ASSUME "restart" \notin UserOps, CInv, [Next]_vars PROVE CInv'
<1>0. KInv /\ KInv' /\ IInv' /\ sc \in [StorageClass -> Log(ScVersion)]
  BY KeysStep DEF CInv, KInv, IInv, TypeOK, ScVersion
<1>1. SUFFICES DeadKept
  BY <1>0 DEF CInv, DeadKept
<1>2. CASE OthersStep /\ UNCHANGED sc
  BY <1>0, <1>2, OthersCalm, CalmKeepsDead
<1>3. CASE WatcherStep
  BY <1>0, <1>3, WatcherKeeps
<1>4. ASSUME NEW s \in StorageClass, DeliverSc(s) PROVE DeadKept
  BY <1>0, <1>4, ClassChangeKeeps DEF DeliverSc
<1>5. ASSUME NEW s \in StorageClass, CreateSc(s) \/ TerminateSc(s) \/ DeleteSc(s) PROVE DeadKept
  <2>1. PICK v : UserPutsSc(s, v)
    BY <1>5 DEF CreateSc, TerminateSc, DeleteSc
  <2>2. sc'[s] = Append(sc[s], v) /\ \A t \in StorageClass \ {s} : sc'[t] = sc[t]
    BY <1>0, <2>1 DEF UserPutsSc
  <2>3. Len(Append(sc[s], v)) = Len(sc[s]) + 1 /\ Len(sc[s]) \in Nat \ {0}
    BY <1>0, AppendIs
  <2>4. ~Synced(sc'[s])
    BY <2>2, <2>3 DEF Synced
  <2>5. UNCHANGED <<cm, scW, scQ>>
    BY <1>5 DEF CreateSc, TerminateSc, DeleteSc, UserOp, UserPutsSc
  <2> QED BY <1>0, <2>2, <2>4, <2>5, ClassChangeKeeps
<1>6. ASSUME OthersStep
      PROVE  \/ UNCHANGED sc
             \/ \E s \in StorageClass : DeliverSc(s) \/ CreateSc(s) \/ TerminateSc(s) \/ DeleteSc(s)
  <2>1. CASE (\E f \in Cluster : FscStart(f)) \/ FscWork
    BY <2>1 DEF FscStart, FscWork, FscUpdateFinalizer, FscEnsureSecret, GetCreateConfigmap,
                FscDropPools, FscAddEntry, FscUpdateStatus, FscRemoveEntry, objects
  <2>2. CASE Deliver
    BY <2>2 DEF Deliver, DeliverFsc, DeliverSecret, DeliverCm
  <2>3. CASE Users
    BY <2>3 DEF Users, CreateFsc, DeleteFsc, UpdateFsc, UserPutsFsc, SetSecret, DeleteSecret,
                UserPutsSecret, DeleteCm
  <2>4. CASE Fault \/ UNCHANGED vars
    BY <2>4 DEF Fault, objects, vars
  <2> QED BY <1>6, <2>1, <2>2, <2>3, <2>4 DEF OthersStep
<1>7. ~Restart
  BY DEF Restart, RestartWith
<1> QED BY <1>2, <1>3, <1>4, <1>5, <1>6, <1>7, StepIs

\* While the operator runs, a class that is gone and whose deletion has been
\* processed is in no entry, whatever copies the two controllers worked from:
\* the watcher's loop comes to every entry with a pool of the class, and a
\* worker that recorded pools when the class went has it queued again.  (After a
\* restart a class deleted meanwhile is in no queue: see the run
\* "pools_sc_leak".)
THEOREM DeadScIsForgotten ==
    ASSUME "restart" \notin UserOps
    PROVE  Spec => []DeadScForgotten
<1>1. ASSUME CInv PROVE DeadScForgotten
  <2> SUFFICES ASSUME CacheSynced, NEW s \in StorageClass,
                      Live(sc[s]) = None, s \notin scQ, scW.req # s
               PROVE  Recorded(s) = NoMatch
    BY DEF DeadScForgotten
  <2>1. \A f \in Cluster : ~Rec(Live(cm), f, s)
    BY <1>1 DEF CInv, DeadSoon, TakesOut, CacheSynced
  <2>2. \A f \in Cluster : Recorded(s)[f] = None
    BY <2>1 DEF Recorded, Rec, Has
  <2> QED BY <2>2 DEF Recorded, NoMatch
<1>2. Init => CInv
  BY ClassesInit
<1>3. CInv /\ [Next]_vars => CInv'
  BY ClassesStep
<1> QED BY <1>1, <1>2, <1>3, PTL DEF Spec

----------------------------------------------------------------------------
(* What a match depends on.                                                *)

\* A class with a pool for everything it may be matched to.
PoolGiven(p) == IF p.byMgmtId = None THEN p.pool # EmptyPool
                ELSE \A i \in MgmtId : extractPoolName(p, i) # EmptyPool

\* The clusters that have an id of a topology secret are in the list.
LEMMA IdsListed ==
    ASSUME NEW clusters \in ClusterList, NEW secrets \in SecretList, NEW data \in SecretData,
           data.config # None, \A i \in MgmtId : data.config[i] # NoAddr,
           NEW byAddr \in MapClustersByMgmtAddress(clusters, secrets),
           NEW f \in Cluster, clusters[f] = None
    PROVE  IdsOf(f, data, byAddr) = {}
<1> SUFFICES ASSUME NEW i \in MgmtId, data.config[i] # None, byAddr[data.config[i]] = f PROVE FALSE
  BY DEF IdsOf
<1>1. data.config[i] \in Addr
  BY DEF SecretData
<1>2. f \in WithAddress(data.config[i], clusters, secrets)
  BY <1>1, SentinelAssumption DEF MapClustersByMgmtAddress
<1> QED BY <1>2 DEF WithAddress, Listed

\* A match has no pool for a cluster that is not in the list, and the pool ""
\* for none if the class has a pool for everything.
LEMMA MatchIs ==
    ASSUME NEW p \in Params, NEW clusters \in ClusterList, NEW secrets \in SecretList,
           NEW m \in getFlashSystemClusterByStorageClass(p, clusters, secrets), m # Error,
           NEW f \in Cluster
    PROVE  /\ clusters[f] = None => m[f] = None
           /\ PoolGiven(p) => m[f] # EmptyPool
<1> DEFINE data == secrets[ScSecret(p)]
<1>1. data \in SecretData /\ ScSecret(p) \in Secret
  BY DEF getFlashSystemClusterByStorageClass, ScSecret, Params, SecretList
<1>2. CASE p.byMgmtId = None
  <2>1. m \in getFscByRegularStorageClass(p, data, clusters, secrets)
    BY <1>1, <1>2 DEF getFlashSystemClusterByStorageClass
  <2>2. \/ m = NoMatch
        \/ \E g \in WithAddress(data.addr, clusters, secrets) : m = [NoMatch EXCEPT ![g] = p.pool]
    BY <2>1 DEF getFscByRegularStorageClass
  <2>3. NoMatch[f] = None /\ \A g \in Cluster : [NoMatch EXCEPT ![g] = p.pool][f] = IF f = g THEN p.pool ELSE None
    BY DEF NoMatch
  <2>4. \A g \in WithAddress(data.addr, clusters, secrets) : g \in Cluster /\ clusters[g] # None
    BY DEF WithAddress, Listed
  <2> HIDE DEF data
  <2> QED BY <1>2, <2>2, <2>3, <2>4, SentinelAssumption DEF PoolGiven
<1>3. CASE p.byMgmtId # None
  <2>1. m \in getFscByTopologyStorageClass(p, data, clusters, secrets)
    BY <1>1, <1>3, SentinelAssumption DEF getFlashSystemClusterByStorageClass
  <2> HIDE DEF data
  <2>2. data.config # None /\ \A i \in MgmtId : data.config[i] # NoAddr
    BY <2>1 DEF getFscByTopologyStorageClass
  <2>3. PICK byAddr \in MapClustersByMgmtAddress(clusters, secrets) :
          m[f] \in IF IdsOf(f, data, byAddr) = {} THEN {None}
                   ELSE {extractPoolName(p, i) : i \in IdsOf(f, data, byAddr)}
    <3> DEFINE PoolsOf(g, b) == IF IdsOf(g, data, b) = {} THEN {None}
                                ELSE {extractPoolName(p, i) : i \in IdsOf(g, data, b)}
               Maps(b) == {n \in [Cluster -> Pool \cup {EmptyPool, None}] :
                             \A g \in Cluster : n[g] \in PoolsOf(g, b)}
               Missing(b) == \E g \in Cluster : \E i \in IdsOf(g, data, b) : p.byMgmtId[i] = None
    <3>1. getFscByTopologyStorageClass(p, data, clusters, secrets)
            \in {{Error}, UNION {IF Missing(b) THEN {Error} ELSE Maps(b) :
                                  b \in MapClustersByMgmtAddress(clusters, secrets)}}
      BY Zenon DEF getFscByTopologyStorageClass
    <3>2. \A b, n : n \in Maps(b) => n[f] \in PoolsOf(f, b)
      OBVIOUS
    <3> HIDE DEF Maps, Missing
    <3>3. PICK b \in MapClustersByMgmtAddress(clusters, secrets) : m \in Maps(b)
      BY <2>1, <3>1
    <3>4. m[f] \in PoolsOf(f, b)
      BY <3>2, <3>3
    <3> QED BY <3>4
  <2>4. clusters[f] = None => m[f] = None
    BY <1>1, <2>2, <2>3, IdsListed
  <2>5. IdsOf(f, data, byAddr) \subseteq MgmtId
    BY DEF IdsOf
  <2>6. PoolGiven(p) => m[f] # EmptyPool
    BY <1>3, <2>3, <2>5, SentinelAssumption DEF PoolGiven
  <2> QED BY <2>4, <2>6
<1> QED BY <1>2, <1>3

\* A match reads only the secrets of the class and of the clusters in the list.
LEMMA MatchReads ==
    ASSUME NEW p \in Params, NEW clusters \in ClusterList,
           NEW old \in SecretList, NEW new \in SecretList,
           ScSecret(p) # None => new[ScSecret(p)] = old[ScSecret(p)],
           \A f \in Cluster : clusters[f] # None => new[clusters[f]] = old[clusters[f]]
    PROVE  getFlashSystemClusterByStorageClass(p, clusters, new)
               = getFlashSystemClusterByStorageClass(p, clusters, old)
<1>1. Unreadable(clusters, new) = Unreadable(clusters, old)
  BY DEF Unreadable, Listed
<1>2. \A a : WithAddress(a, clusters, new) = WithAddress(a, clusters, old)
  BY <1>1 DEF WithAddress, Listed
<1>3. MapClustersByMgmtAddress(clusters, new) = MapClustersByMgmtAddress(clusters, old)
  BY <1>2 DEF MapClustersByMgmtAddress
<1>4. \A data : getFscByRegularStorageClass(p, data, clusters, new)
                    = getFscByRegularStorageClass(p, data, clusters, old)
  BY <1>1, <1>2 DEF getFscByRegularStorageClass
<1>5. \A data : getFscByTopologyStorageClass(p, data, clusters, new)
                    = getFscByTopologyStorageClass(p, data, clusters, old)
  BY <1>1, <1>3 DEF getFscByTopologyStorageClass
<1> QED BY <1>4, <1>5 DEF getFlashSystemClusterByStorageClass

----------------------------------------------------------------------------
(* What the watcher hears of.                                              *)

\* The contents secret x may have, None if there may be no such secret.
SecretContents(x) ==
    SecretDatas[x] \cup {n \in {None} : x \in MayMiss \/ "deleteSecret" \in UserOps}

\* The changes of the objects that concern a class are ones the watcher's
\* handlers and predicates let through: names of clusters are not reused, no
\* spec changes its secret, the clusters' secrets have the operator's prefix,
\* SecretMgmtAddrPredicate lets every change of a secret through, and no class
\* lacks a pool.
ChangesReported ==
    /\ ~NameReuse
    /\ "updateFsc" \notin UserOps
    /\ \A f \in Cluster : FscSecrets[f] \subseteq FscSecretName
    /\ \A x \in Secret : \A old \in SecretContents(x) : \A new \in SecretContents(x) :
         old # new => SecretMgmtAddrPredicate(old, new)
    /\ \A s \in StorageClass : \A p \in ScParams[s] : PoolGiven(p)

\* All versions of a cluster on their way name one secret.
OneSecret(log) ==
    \A i \in 1..Len(log) : log[i] # None =>
        /\ log[i].secret \in FscSecretName
        /\ \A j \in 1..Len(log) : log[j] # None => log[j].secret = log[i].secret

\* Every event brings a change.
Changes(log) == \A i \in 1..Len(log) - 1 : log[i] # log[i + 1]

\* A class that can be recorded.
Recordable == {o \in ScVersion : o # None => PoolGiven(o.params)}

\* A finalizer is added to a copy that is what its flag says.
HeldLive == fscW.pc = "finalizer" /\ fscW.instCur => fscW.inst = Live(fsc[fscW.req])

\* Every version of a secret is one of its contents, and a change.
ContentsKnown == \A x \in Secret : sec[x] \in Log(SecretContents(x)) /\ Changes(sec[x])

OInv == /\ RInv
        /\ sc \in [StorageClass -> Log(Recordable)]
        /\ ContentsKnown
        /\ \A f \in Cluster : OneSecret(fsc[f])
        /\ HeldLive

\* A write that keeps the secret, or creates the cluster when nothing is on its
\* way.
LEMMA OneSecretAppend ==
    ASSUME NEW V, NEW log \in Log(V), NEW v, OneSecret(log),
           v # None => /\ v.secret \in FscSecretName
                       /\ IF Live(log) # None THEN v.secret = Live(log).secret ELSE Synced(log)
    PROVE  OneSecret(Append(log, v))
<1> DEFINE new == Append(log, v)
<1>1. /\ Len(log) \in Nat \ {0} /\ Len(new) = Len(log) + 1
      /\ \A i \in 1..Len(log) : new[i] = log[i]
      /\ new[Len(log) + 1] = v
  BY AppendIs
<1> HIDE DEF new
<1>2. ASSUME NEW i \in 1..Len(log), log[i] # None, v # None PROVE log[i].secret = v.secret
  <2>1. Len(log) \in 1..Len(log)
    BY <1>1
  <2>2. CASE Live(log) # None
    BY <1>2, <2>1, <2>2 DEF OneSecret, Live
  <2>3. CASE Live(log) = None
    <3>1. Len(log) = 1
      BY <1>2, <2>3 DEF Synced
    <3>2. i = Len(log)
      BY <3>1
    <3> QED BY <1>2, <2>3, <3>2 DEF Live
  <2> QED BY <2>2, <2>3
<1>3. ASSUME NEW i \in 1..Len(new), new[i] # None
      PROVE  /\ new[i].secret \in FscSecretName
             /\ \A j \in 1..Len(new) : new[j] # None => new[j].secret = new[i].secret
  <2>1. \A j \in 1..Len(new) : j \in 1..Len(log) \/ j = Len(log) + 1
    BY <1>1
  <2>2. CASE i \in 1..Len(log)
    BY <1>1, <1>2, <1>3, <2>1, <2>2 DEF OneSecret
  <2>3. CASE i = Len(log) + 1
    BY <1>1, <1>2, <1>3, <2>1, <2>3
  <2> QED BY <2>1, <2>2, <2>3
<1> QED BY <1>3 DEF OneSecret, new

\* A watch event; the versions before and after it name the same secret.
LEMMA OneSecretTail ==
    ASSUME NEW V, NEW log \in Log(V), ~Synced(log), OneSecret(log)
    PROVE  /\ OneSecret(Tail(log))
           /\ Cached(log) # None /\ log[2] # None => log[2].secret = Cached(log).secret
<1> DEFINE new == Tail(log)
<1>1. /\ Len(log) \in Nat /\ Len(log) > 1 /\ Len(new) = Len(log) - 1
      /\ \A i \in 1..Len(log) - 1 : new[i] = log[i + 1]
      /\ log[1] = Cached(log)
  BY TailIs
<1> HIDE DEF new
<1>2. ASSUME NEW i \in 1..Len(new), new[i] # None
      PROVE  /\ new[i].secret \in FscSecretName
             /\ \A j \in 1..Len(new) : new[j] # None => new[j].secret = new[i].secret
  <2>1. \A j \in 1..Len(new) : j + 1 \in 1..Len(log) /\ new[j] = log[j + 1]
    BY <1>1
  <2> QED BY <1>2, <2>1 DEF OneSecret
<1>3. 1 \in 1..Len(log) /\ 2 \in 1..Len(log)
  BY <1>1
<1>4. Cached(log) # None /\ log[2] # None => log[2].secret = Cached(log).secret
  BY <1>1, <1>3 DEF OneSecret
<1> QED BY <1>2, <1>4 DEF OneSecret, new

\* A log of one version.
LEMMA OneVersion ==
    ASSUME NEW log, Len(log) = 1
    PROVE  /\ Changes(log)
           /\ log[1] = None \/ log[1].secret \in FscSecretName => OneSecret(log)
<1>1. \A i \in 1..Len(log) : i = 1
  OBVIOUS
<1>2. Changes(log)
  BY DEF Changes
<1> QED BY <1>1, <1>2 DEF OneSecret

\* A write of something else.
LEMMA ChangesAppend ==
    ASSUME NEW V, NEW log \in Log(V), NEW v, Changes(log), v # Live(log)
    PROVE  Changes(Append(log, v))
<1> DEFINE new == Append(log, v)
<1>1. /\ Len(log) \in Nat \ {0} /\ Len(new) = Len(log) + 1
      /\ \A i \in 1..Len(log) : new[i] = log[i]
      /\ new[Len(log) + 1] = v
  BY AppendIs
<1> HIDE DEF new
<1>2. ASSUME NEW i \in 1..Len(new) - 1 PROVE new[i] # new[i + 1]
  <2>1. CASE i = Len(log)
    BY <1>1, <2>1 DEF Live
  <2>2. CASE i # Len(log)
    <3>1. i \in 1..Len(log) - 1 /\ i \in 1..Len(log) /\ i + 1 \in 1..Len(log)
      BY <1>1, <2>2
    <3> QED BY <1>1, <3>1 DEF Changes
  <2> QED BY <2>1, <2>2
<1> QED BY <1>2 DEF Changes, new

\* A watch event.
LEMMA ChangesTail ==
    ASSUME NEW V, NEW log \in Log(V), ~Synced(log), Changes(log)
    PROVE  Changes(Tail(log)) /\ Cached(log) # log[2]
<1> DEFINE new == Tail(log)
<1>1. /\ Len(log) \in Nat /\ Len(log) > 1 /\ Len(new) = Len(log) - 1
      /\ \A i \in 1..Len(log) - 1 : new[i] = log[i + 1]
      /\ log[1] = Cached(log)
  BY TailIs
<1> HIDE DEF new
<1>2. ASSUME NEW i \in 1..Len(new) - 1 PROVE new[i] # new[i + 1]
  <2>1. i \in 1..Len(log) - 1 /\ i + 1 \in 1..Len(log) - 1
    BY <1>1
  <2> QED BY <1>1, <2>1 DEF Changes
<1>3. 1 \in 1..Len(log) - 1
  BY <1>1
<1>4. log[1] # log[1 + 1]
  BY <1>3 DEF Changes
<1> QED BY <1>1, <1>2, <1>4 DEF Changes, new

\* The classes, clusters and secrets at the start.
LEMMA ObjectsInit == ASSUME ChangesReported, Init PROVE OInv
<1>1. RInv /\ TypeOK
  BY NamesInit DEF RInv, BInv, IInv
<1>2. ASSUME NEW s \in StorageClass PROVE sc[s] \in Log(Recordable)
  <2>1. PICK o : sc[s] = <<o>>
    BY DEF Init, Choices
  <2>2. o \in ScOptions(s)
    <3>1. Live(sc[s]) \in ScOptions(s)
      BY DEF Init, Choices
    <3> QED BY <2>1, <3>1 DEF Live
  <2>3. o \in ScVersion
    BY <2>2, OptionTypes DEF ScVersion
  <2>4. o # None => PoolGiven(o.params)
    BY <2>2 DEF ScOptions, ChangesReported
  <2> QED BY <2>1, <2>3, <2>4, LogRestart DEF Recordable
<1>3. ASSUME NEW x \in Secret PROVE sec[x] \in Log(SecretContents(x)) /\ Changes(sec[x])
  <2>1. PICK o : sec[x] = <<o>>
    BY DEF Init, Choices
  <2>2. o \in SecretOptions(x) /\ (o = None => x \in MayMiss)
    <3>1. Live(sec[x]) \in SecretOptions(x) /\ (Live(sec[x]) = None => x \in MayMiss)
      BY DEF Init, Choices
    <3> QED BY <2>1, <3>1 DEF Live
  <2>3. o \in SecretContents(x) /\ Len(sec[x]) = 1
    BY <2>1, <2>2 DEF SecretOptions, SecretContents
  <2> QED BY <2>1, <2>3, LogRestart, OneVersion
<1>4. ASSUME NEW f \in Cluster PROVE OneSecret(fsc[f])
  <2>1. PICK o : fsc[f] = <<o>>
    BY DEF Init, Choices
  <2>2. o \in FscOptions(f)
    <3>1. Live(fsc[f]) \in FscOptions(f)
      BY DEF Init, Choices
    <3> QED BY <2>1, <3>1 DEF Live
  <2>3. o = None \/ o.secret \in FscSecretName
    BY <2>2 DEF FscOptions, ChangesReported
  <2>4. Len(fsc[f]) = 1 /\ fsc[f][1] = o
    BY <2>1
  <2> QED BY <2>3, <2>4, OneVersion
<1>5. sc \in [StorageClass -> Log(Recordable)]
  BY <1>1, <1>2 DEF TypeOK
<1>6. HeldLive
  BY DEF HeldLive, Init, FscIdle
<1> QED BY <1>1, <1>3, <1>4, <1>5, <1>6 DEF OInv, ContentsKnown

\* Which steps write or hear of which objects.
LEMMA Touches ==
    ASSUME [Next]_vars
    PROVE  /\ \/ UNCHANGED fsc \/ Finalizes \/ Restart
              \/ \E f \in Cluster : DeliverFsc(f) \/ CreateFsc(f) \/ DeleteFsc(f) \/ UpdateFsc(f)
           /\ \/ UNCHANGED sc \/ Restart
              \/ \E s \in StorageClass : DeliverSc(s) \/ CreateSc(s) \/ TerminateSc(s) \/ DeleteSc(s)
           /\ \/ UNCHANGED sec \/ Restart
              \/ \E x \in Secret : DeliverSecret(x) \/ SetSecret(x) \/ DeleteSecret(x)
<1>1. CASE (\E f \in Cluster : FscStart(f)) \/ FscWork
  BY <1>1 DEF FscStart, FscWork, FscUpdateFinalizer, FscEnsureSecret, GetCreateConfigmap,
              FscDropPools, FscAddEntry, FscUpdateStatus, FscRemoveEntry, objects, Finalizes
<1>2. CASE (\E s \in StorageClass : ScStart(s)) \/ ScWork
  BY <1>2 DEF ScStart, ScWork, ScMatch, ScUpdate, InLoop, objects
<1>3. CASE Deliver
  BY <1>3 DEF Deliver, DeliverFsc, DeliverSc, DeliverSecret, DeliverCm
<1>4. CASE Users
  BY <1>4 DEF Users, CreateFsc, DeleteFsc, UpdateFsc, UserPutsFsc, CreateSc, TerminateSc, DeleteSc,
              UserPutsSc, SetSecret, DeleteSecret, UserPutsSecret, DeleteCm
<1>5. CASE Fault \/ UNCHANGED vars
  BY <1>5 DEF Fault, objects, vars
<1> QED BY <1>1, <1>2, <1>3, <1>4, <1>5 DEF Next

\* The copy a finalizer is added to, for every step.
LEMMA HeldStep == ASSUME IInv, HeldLive, [Next]_vars PROVE HeldLive'
<1>0. /\ fscW \in FscWorker /\ fsc \in [Cluster -> Log(FscObject \cup {None})]
      /\ fscW.pc # "idle" => fscW.req \in Cluster
  BY DEF IInv, TypeOK, WorkersHold
<1>1. ASSUME fscW'.pc # "finalizer" PROVE HeldLive'
  BY <1>1 DEF HeldLive
<1>2. ASSUME fscW'.pc = fscW.pc, fscW'.req = fscW.req, fscW'.inst = fscW.inst,
             fscW'.instCur = fscW.instCur, \A f \in Cluster : Live(fsc'[f]) = Live(fsc[f])
      PROVE  HeldLive'
  BY <1>0, <1>2 DEF HeldLive
<1>3. ASSUME NEW f \in Cluster, FscStart(f) PROVE HeldLive'
  <2>1. fscW'.req = f /\ fscW'.inst = Cached(fsc[f]) /\ fscW'.instCur = Synced(fsc[f]) /\ UNCHANGED fsc
    BY <1>3 DEF FscStart, FscIdle, objects
  <2>2. Synced(fsc[f]) => Cached(fsc[f]) = Live(fsc[f])
    BY <1>0, SyncedIsLive
  <2> QED BY <2>1, <2>2 DEF HeldLive
<1>4. CASE FscWork
  <2>1. ASSUME NEW r, FscReturn(r) PROVE fscW'.pc # "finalizer"
    BY <2>1 DEF FscReturn, FscIdle
  <2>2. ASSUME NEW to \in {"getCm", "entry", "status"}, FscGoto(to) PROVE fscW'.pc # "finalizer"
    BY <1>0, <2>2 DEF FscGoto, FscWorker
  <2>3. CASE FscUpdateFinalizer
    <3>1. CASE \E v : fscW' = [fscW EXCEPT !.pc = "secret", !.inst = v]
      BY <1>0, <1>1, <3>1 DEF FscWorker
    <3>2. CASE fscW' = [fscW EXCEPT !.pc = "rmGetCm", !.instCur = FALSE]
      BY <1>0, <1>1, <3>2 DEF FscWorker
    <3> QED BY <1>1, <2>1, <2>3, <3>1, <3>2 DEF FscUpdateFinalizer
  <2>4. CASE FscEnsureSecret \/ FscUpdateStatus \/ FscRemoveEntry
    BY <1>1, <2>1, <2>2, <2>4 DEF FscEnsureSecret, FscUpdateStatus, FscRemoveEntry, FscConflict
  <2>5. CASE GetCreateConfigmap
    BY <1>0, <1>1, <2>1, <2>5 DEF GetCreateConfigmap, FscWorker
  <2>6. ASSUME NEW new, NEW to \in {"entry", "status"}, FscUpdateCm(new, to) PROVE fscW'.pc # "finalizer"
    BY <1>0, <2>1, <2>6 DEF FscUpdateCm, FscConflict, FscWorker
  <2>7. CASE FscDropPools
    BY <1>1, <2>2, <2>6, <2>7 DEF FscDropPools
  <2>8. CASE FscAddEntry
    BY <1>1, <2>2, <2>6, <2>8 DEF FscAddEntry
  <2> QED BY <1>4, <2>3, <2>4, <2>5, <2>7, <2>8 DEF FscWork
<1>5. CASE (\E s \in StorageClass : ScStart(s)) \/ ScMatch
  BY <1>2, <1>5 DEF ScStart, ScMatch, objects
<1>6. ASSUME NEW k \in Pools!Key, ScUpdate(k) PROVE HeldLive'
  <2>1. UNCHANGED fsc /\ (UNCHANGED fscW \/ \E c : fscW' = [fscW EXCEPT !.cur = c])
    BY <1>6 DEF ScUpdate, InLoop, ScPutCm, ScConflict
  <2>2. fscW'.pc = fscW.pc /\ fscW'.req = fscW.req /\ fscW'.inst = fscW.inst /\ fscW'.instCur = fscW.instCur
    BY <1>0, <2>1 DEF FscWorker
  <2> QED BY <1>2, <2>1, <2>2
<1>7. ASSUME NEW f \in Cluster, DeliverFsc(f) PROVE HeldLive'
  <2>1. ~Synced(fsc[f]) /\ Delivers(fsc', fsc, f) /\ UNCHANGED fscW
    BY <1>7 DEF DeliverFsc, Delivers
  <2>2. \A g \in Cluster : Live(fsc'[g]) = Live(fsc[g])
    BY <1>0, <2>1, TailFamily
  <2> QED BY <1>2, <2>1, <2>2
<1>8. ASSUME NEW s \in StorageClass, DeliverSc(s) PROVE HeldLive'
  BY <1>2, <1>8 DEF DeliverSc
<1>9. ASSUME NEW x \in Secret, DeliverSecret(x) PROVE HeldLive'
  BY <1>2, <1>9 DEF DeliverSecret
<1>10. CASE DeliverCm
  BY <1>2, <1>10 DEF DeliverCm
<1>11. ASSUME NEW f \in Cluster, NEW v, UserPutsFsc(f, v) PROVE HeldLive'
  <2>1. /\ fscW'.pc = fscW.pc /\ fscW'.req = fscW.req /\ fscW'.inst = fscW.inst
        /\ fscW'.instCur = (fscW.instCur /\ fscW.req # f)
    BY <1>0, <1>11 DEF UserPutsFsc, FscWorker
  <2>2. \A g \in Cluster \ {f} : fsc'[g] = fsc[g]
    BY <1>0, <1>11 DEF UserPutsFsc
  <2> QED BY <1>0, <2>1, <2>2 DEF HeldLive
<1>12. CASE Users
  <2>1. ASSUME NEW s \in StorageClass, CreateSc(s) \/ TerminateSc(s) \/ DeleteSc(s) PROVE HeldLive'
    BY <1>2, <2>1 DEF CreateSc, TerminateSc, DeleteSc, UserPutsSc
  <2>2. ASSUME NEW x \in Secret, SetSecret(x) \/ DeleteSecret(x) PROVE HeldLive'
    BY <1>2, <2>2 DEF SetSecret, DeleteSecret, UserPutsSecret
  <2>3. CASE DeleteCm
    <3>1. UNCHANGED fsc /\ fscW' = [fscW EXCEPT !.cur = FALSE]
      BY <2>3 DEF DeleteCm
    <3>2. fscW'.pc = fscW.pc /\ fscW'.req = fscW.req /\ fscW'.inst = fscW.inst /\ fscW'.instCur = fscW.instCur
      BY <1>0, <3>1 DEF FscWorker
    <3> QED BY <1>2, <3>1, <3>2
  <2>4. ASSUME NEW f \in Cluster, CreateFsc(f) \/ DeleteFsc(f) \/ UpdateFsc(f) PROVE HeldLive'
    BY <1>11, <2>4 DEF CreateFsc, DeleteFsc, UpdateFsc
  <2> QED BY <1>12, <2>1, <2>2, <2>3, <2>4 DEF Users
<1>13. CASE Restart
  BY <1>1, <1>13 DEF Restart, RestartWith, FscIdle
<1>14. CASE Fault
  <2>1. CASE FscReturn(TRUE)
    BY <1>1, <2>1 DEF FscReturn, FscIdle
  <2>2. CASE UNCHANGED <<fsc, fscW>>
    BY <1>2, <2>2
  <2> QED BY <1>14, <2>1, <2>2 DEF Fault, objects
<1>15. CASE UNCHANGED vars
  BY <1>2, <1>15 DEF vars
<1> QED BY <1>3, <1>4, <1>5, <1>6, <1>7, <1>8, <1>9, <1>10, <1>12, <1>13, <1>14, <1>15
        DEF Next, ScWork, Deliver

\* The logs of the clusters, for every step.
LEMMA OneSecretStep ==
    ASSUME ChangesReported, RInv, HeldLive, \A f \in Cluster : OneSecret(fsc[f]), [Next]_vars
    PROVE  \A f \in Cluster : OneSecret(fsc'[f])
<1>0. /\ fsc \in [Cluster -> Log(Marked)] /\ \A f \in Cluster : Live(fsc[f]) \in FscObject \cup {None}
      /\ IInv /\ fscW \in FscWorker
  <2>1. fsc \in [Cluster -> Log(Marked)] /\ TypeOK /\ IInv
    BY DEF RInv, BInv, IInv
  <2> QED BY <2>1, LogVersions DEF TypeOK
<1>l. \A f \in Cluster : Live(fsc[f]) # None => Live(fsc[f]).secret \in FscSecretName
  <2>1. \A f \in Cluster : Len(fsc[f]) \in 1..Len(fsc[f])
    BY <1>0, LogVersions
  <2> QED BY <2>1 DEF OneSecret, Live
<1>1. ASSUME NEW f \in Cluster, NEW v, fsc' = [fsc EXCEPT ![f] = Append(fsc[f], v)],
             v # None => /\ v.secret \in FscSecretName
                         /\ IF Live(fsc[f]) # None THEN v.secret = Live(fsc[f]).secret ELSE Synced(fsc[f])
      PROVE  \A g \in Cluster : OneSecret(fsc'[g])
  <2>1. fsc'[f] = Append(fsc[f], v) /\ \A g \in Cluster \ {f} : fsc'[g] = fsc[g]
    BY <1>0, <1>1
  <2>2. OneSecret(Append(fsc[f], v))
    BY <1>0, <1>1, OneSecretAppend
  <2> QED BY <2>1, <2>2
<1>2. CASE Finalizes
  <2>1. /\ fscW.pc = "finalizer" /\ fscW.instCur /\ fscW.req \in Cluster /\ fscW.inst \in FscObject
        /\ fscW.inst = Live(fsc[fscW.req])
    BY <1>0, <1>2 DEF Finalizes, FscUpdateFinalizer, IInv, WorkersHold, HeldLive
  <2>2. CASE fsc' = [fsc EXCEPT ![fscW.req] = Append(fsc[fscW.req], None)]
    BY <1>1, <2>1, <2>2
  <2>3. CASE fsc' = [fsc EXCEPT ![fscW.req] = Append(fsc[fscW.req], [fscW.inst EXCEPT !.fin = TRUE])]
    <3> DEFINE v == [fscW.inst EXCEPT !.fin = TRUE]
    <3>1. v.secret = fscW.inst.secret /\ fscW.inst # None
      BY <2>1, NoneAssumption DEF FscObject
    <3> HIDE DEF v
    <3> QED BY <1>1, <1>l, <2>1, <2>3, <3>1 DEF v
  <2> QED BY <1>2, <2>1, <2>2, <2>3 DEF Finalizes, FscUpdateFinalizer
<1>3. CASE Restart
  <2>1. Rereads(fsc', fsc, Cluster)
    BY <1>3 DEF Restart, RestartWith, Rereads
  <2>2. \A g \in Cluster : Len(fsc'[g]) = 1 /\ fsc'[g][1] = Live(fsc[g])
    BY <1>0, <2>1, RestartFamily
  <2> QED BY <1>l, <2>2, OneVersion
<1>4. ASSUME NEW f \in Cluster, DeliverFsc(f) PROVE \A g \in Cluster : OneSecret(fsc'[g])
  <2>1. ~Synced(fsc[f]) /\ Delivers(fsc', fsc, f)
    BY <1>4 DEF DeliverFsc, Delivers
  <2>2. fsc'[f] = Tail(fsc[f])
    BY <1>0, <2>1 DEF Delivers
  <2>3. \A g \in Cluster \ {f} : fsc'[g] = fsc[g]
    BY <1>0, <2>1, TailFamily
  <2>4. OneSecret(Tail(fsc[f]))
    BY <1>0, <2>1, OneSecretTail
  <2> QED BY <2>2, <2>3, <2>4
<1>5. ASSUME NEW f \in Cluster, CreateFsc(f) PROVE \A g \in Cluster : OneSecret(fsc'[g])
  <2>1. PICK v \in FscOptions(f) \ {None} : UserPutsFsc(f, v)
    BY <1>5 DEF CreateFsc
  <2>2. v.secret \in FscSecretName
    BY <2>1 DEF FscOptions, ChangesReported
  <2>3. Live(fsc[f]) = None /\ Synced(fsc[f])
    BY <1>5 DEF CreateFsc, Forgotten, ChangesReported
  <2> QED BY <1>1, <2>1, <2>2, <2>3 DEF UserPutsFsc
<1>6. ASSUME NEW f \in Cluster, DeleteFsc(f) PROVE \A g \in Cluster : OneSecret(fsc'[g])
  <2> DEFINE o == Live(fsc[f])
  <2>1. o \in FscObject /\ o # None /\ o.secret \in FscSecretName
    BY <1>0, <1>6, <1>l DEF DeleteFsc
  <2>2. PICK v : UserPutsFsc(f, v) /\ v = IF o.fin THEN [o EXCEPT !.del = TRUE] ELSE None
    BY <1>6 DEF DeleteFsc
  <2> HIDE DEF o
  <2>3. v # None => v.secret = o.secret
    BY <2>1, <2>2 DEF FscObject
  <2> QED BY <1>1, <2>1, <2>2, <2>3 DEF UserPutsFsc, o
<1>7. ASSUME NEW f \in Cluster PROVE ~UpdateFsc(f)
  BY DEF UpdateFsc, UserOp, ChangesReported
<1>8. CASE UNCHANGED fsc
  BY <1>8
<1> QED BY <1>2, <1>3, <1>4, <1>5, <1>6, <1>7, <1>8, Touches

\* The logs of the classes.
LEMMA RecordableStep ==
    ASSUME ChangesReported, IInv, sc \in [StorageClass -> Log(Recordable)], [Next]_vars
    PROVE  sc' \in [StorageClass -> Log(Recordable)]
<1>1. ASSUME NEW s \in StorageClass, NEW v \in Recordable, UserPutsSc(s, v)
      PROVE  sc' \in [StorageClass -> Log(Recordable)]
  <2>1. Puts(sc', sc, s, v)
    BY <1>1 DEF UserPutsSc, Puts
  <2> QED BY <2>1, PutFamily
<1>2. ASSUME NEW s \in StorageClass, DeliverSc(s) PROVE sc' \in [StorageClass -> Log(Recordable)]
  <2>1. ~Synced(sc[s]) /\ Delivers(sc', sc, s)
    BY <1>2 DEF DeliverSc, Delivers
  <2> QED BY <2>1, TailFamily
<1>3. CASE Restart
  <2>1. Rereads(sc', sc, StorageClass)
    BY <1>3 DEF Restart, RestartWith, Rereads
  <2> QED BY <2>1, RestartFamily
<1>4. ASSUME NEW s \in StorageClass, CreateSc(s) PROVE sc' \in [StorageClass -> Log(Recordable)]
  <2>1. PICK v \in ScOptions(s) \ {None} : UserPutsSc(s, v)
    BY <1>4 DEF CreateSc
  <2>2. v \in ScVersion
    BY OptionTypes DEF ScVersion
  <2>3. PoolGiven(v.params)
    BY <2>1 DEF ScOptions, ChangesReported
  <2> QED BY <1>1, <2>1, <2>2, <2>3 DEF Recordable
<1>5. ASSUME NEW s \in StorageClass, TerminateSc(s) PROVE sc' \in [StorageClass -> Log(Recordable)]
  <2> DEFINE o == Live(sc[s])
             v == [o EXCEPT !.del = TRUE]
  <2>1. o \in Recordable /\ o # None /\ UserPutsSc(s, v)
    BY <1>5, LogVersions DEF TerminateSc
  <2> HIDE DEF o
  <2>2. o \in ScObject /\ PoolGiven(o.params)
    BY <2>1 DEF Recordable, ScVersion
  <2>3. v \in ScObject /\ v.params = o.params
    BY <2>2 DEF ScObject
  <2> HIDE DEF v
  <2>4. v \in Recordable
    BY <2>2, <2>3 DEF Recordable, ScVersion
  <2> QED BY <1>1, <2>1, <2>4
<1>6. ASSUME NEW s \in StorageClass, DeleteSc(s) PROVE sc' \in [StorageClass -> Log(Recordable)]
  <2>1. None \in Recordable
    BY DEF Recordable, ScVersion
  <2> QED BY <1>1, <1>6, <2>1 DEF DeleteSc
<1>7. CASE UNCHANGED sc
  BY <1>7
<1> QED BY <1>2, <1>3, <1>4, <1>5, <1>6, <1>7, Touches

\* The logs of the secrets.
LEMMA ContentsStep ==
    ASSUME IInv, ContentsKnown, [Next]_vars
    PROVE  ContentsKnown'
<1>0. sec \in [Secret -> Log(SecretData \cup {None})]
  BY DEF IInv, TypeOK
<1>1. ASSUME NEW x \in Secret, NEW v \in SecretContents(x), UserPutsSecret(x, v) PROVE ContentsKnown'
  <2>1. v # Live(sec[x]) /\ sec'[x] = Append(sec[x], v) /\ \A y \in Secret \ {x} : sec'[y] = sec[y]
    BY <1>0, <1>1 DEF UserPutsSecret
  <2>2. sec[x] \in Log(SecretContents(x)) /\ Changes(sec[x])
    BY DEF ContentsKnown
  <2>3. Append(sec[x], v) \in Log(SecretContents(x))
    BY <2>2, LogAppend
  <2>4. Changes(Append(sec[x], v))
    BY <2>1, <2>2, ChangesAppend
  <2> QED BY <2>1, <2>3, <2>4 DEF ContentsKnown
<1>2. ASSUME NEW x \in Secret, DeliverSecret(x) PROVE ContentsKnown'
  <2>1. ~Synced(sec[x]) /\ sec'[x] = Tail(sec[x]) /\ \A y \in Secret \ {x} : sec'[y] = sec[y]
    BY <1>0, <1>2 DEF DeliverSecret
  <2>2. sec[x] \in Log(SecretContents(x)) /\ Changes(sec[x])
    BY DEF ContentsKnown
  <2>3. Tail(sec[x]) \in Log(SecretContents(x))
    BY <2>1, <2>2, LogTail
  <2>4. Changes(Tail(sec[x]))
    BY <2>1, <2>2, ChangesTail
  <2> QED BY <2>1, <2>3, <2>4 DEF ContentsKnown
<1>3. CASE Restart
  <2>1. \A x \in Secret : sec'[x] = <<Live(sec[x])>>
    BY <1>3 DEF Restart, RestartWith
  <2>2. \A x \in Secret : Live(sec[x]) \in SecretContents(x)
    BY LogVersions DEF ContentsKnown
  <2>3. \A x \in Secret : sec'[x] \in Log(SecretContents(x)) /\ Len(sec'[x]) = 1
    BY <2>1, <2>2, LogRestart
  <2> QED BY <2>3, OneVersion DEF ContentsKnown
<1>4. ASSUME NEW x \in Secret, SetSecret(x) \/ DeleteSecret(x) PROVE ContentsKnown'
  <2>1. \E v \in SecretContents(x) : UserPutsSecret(x, v)
    BY <1>4 DEF SetSecret, DeleteSecret, UserOp, SecretContents
  <2> QED BY <1>1, <2>1
<1>5. CASE UNCHANGED sec
  BY <1>5 DEF ContentsKnown
<1> QED BY <1>2, <1>3, <1>4, <1>5, Touches

\* Every step keeps what is known of the objects.
LEMMA ObjectsStep == ASSUME ChangesReported, OInv, [Next]_vars PROVE OInv'
<1>1. IInv /\ ContentsKnown
  BY DEF OInv, RInv, BInv
<1>2. RInv'
  BY NamesStep DEF OInv, ChangesReported
<1>3. sc' \in [StorageClass -> Log(Recordable)]
  BY <1>1, RecordableStep DEF OInv
<1>4. ContentsKnown'
  BY <1>1, ContentsStep
<1>5. \A f \in Cluster : OneSecret(fsc'[f])
  BY OneSecretStep DEF OInv
<1>6. HeldLive'
  BY <1>1, HeldStep DEF OInv
<1> QED BY <1>2, <1>3, <1>4, <1>5, <1>6 DEF OInv

----------------------------------------------------------------------------
(* Every change of what a class is matched against queues the class.       *)

\* What the watcher lists.
CachedClusters == [f \in Cluster |-> IF Cached(fsc[f]) = None THEN None ELSE Cached(fsc[f]).secret]
CachedSecrets == [x \in Secret |-> Cached(sec[x])]

\* What it may record for class s of the cache.
Matches(s) ==
    IF Cached(sc[s]).del THEN {NoMatch}
    ELSE getFlashSystemClusterByStorageClass(Cached(sc[s]).params, CachedClusters, CachedSecrets) \ {Error}

\* A cluster the watcher still lists is gone: its entry may be gone too.
Leaving(f) == Cached(fsc[f]) # None /\ Live(fsc[f]) = None

\* A step that changes what class s is matched against queues s.
CacheCalm ==
    \A s \in StorageClass :
        \/ s \in scQ'
        \/ Cached(sc'[s]) = None
        \/ /\ Cached(sc'[s]) = Cached(sc[s])
           /\ Matches(s)' = Matches(s)
           /\ \A f \in Cluster : Leaving(f) => Leaving(f)'

\* What the watcher lists are lists.
LEMMA CacheTypes ==
    ASSUME OInv
    PROVE  /\ CachedClusters \in ClusterList /\ CachedSecrets \in SecretList
           /\ \A f \in Cluster : CachedClusters[f] # None => CachedClusters[f] \in FscSecretName
           /\ \A s \in StorageClass : Cached(sc[s]) # None => /\ Cached(sc[s]).params \in Params
                                                              /\ PoolGiven(Cached(sc[s]).params)
<1>1. TypeOK
  BY DEF OInv, RInv, BInv, IInv
<1>2. \A f \in Cluster : Cached(fsc[f]) \in FscObject \cup {None}
  BY <1>1, LogVersions DEF TypeOK
<1>3. CachedClusters \in ClusterList
  BY <1>2 DEF CachedClusters, ClusterList, FscObject
<1>4. CachedSecrets \in SecretList
  BY <1>1, LogVersions DEF TypeOK, CachedSecrets, SecretList
<1>5. ASSUME NEW f \in Cluster, CachedClusters[f] # None PROVE CachedClusters[f] \in FscSecretName
  <2>1. fsc[f] \in Log(FscObject \cup {None})
    BY <1>1 DEF TypeOK
  <2>2. 1 \in 1..Len(fsc[f]) /\ Cached(fsc[f]) = fsc[f][1]
    BY <2>1, LogVersions DEF Log, Cached
  <2>3. Cached(fsc[f]) # None /\ CachedClusters[f] = Cached(fsc[f]).secret
    BY <1>5 DEF CachedClusters
  <2> QED BY <2>2, <2>3 DEF OInv, OneSecret
<1>6. ASSUME NEW s \in StorageClass, Cached(sc[s]) # None
      PROVE  Cached(sc[s]).params \in Params /\ PoolGiven(Cached(sc[s]).params)
  <2>1. Cached(sc[s]) \in Recordable
    BY LogVersions DEF OInv
  <2> QED BY <1>6, <2>1 DEF Recordable, ScVersion, ScObject
<1> QED BY <1>3, <1>4, <1>5, <1>6

\* A step that leaves the cache alone, or what is read of it.
LEMMA SameCache ==
    ASSUME UNCHANGED CachedClusters, UNCHANGED CachedSecrets,
           \A s \in StorageClass : s \in scQ' \/ Cached(sc'[s]) = Cached(sc[s]),
           \A f \in Cluster : Leaving(f) => Leaving(f)'
    PROVE  CacheCalm
BY DEF CacheCalm, Matches

FscVersion == FscObject \cup {None}

\* The events and the deletions of clusters, and their creation.
LEMMA FscHeard ==
    ASSUME ChangesReported, OInv, NEW f \in Cluster,
           DeliverFsc(f) \/ CreateFsc(f) \/ DeleteFsc(f)
    PROVE  CacheCalm
<1>0. fsc \in [Cluster -> Log(Marked)] /\ fsc \in [Cluster -> Log(FscVersion)]
  BY DEF OInv, RInv, BInv, IInv, TypeOK, FscVersion
<1>1. ASSUME NEW v \in FscVersion, UserPutsFsc(f, v), ~Leaving(f) PROVE CacheCalm
  <2>1. Puts(fsc', fsc, f, v) /\ UNCHANGED <<sc, sec>>
    BY <1>1 DEF UserPutsFsc, Puts
  <2>2. \A g \in Cluster : Cached(fsc'[g]) = Cached(fsc[g])
    BY <1>0, <2>1, PutFamily
  <2>3. \A g \in Cluster \ {f} : fsc'[g] = fsc[g]
    BY <1>0, <2>1, PutFamily
  <2>4. UNCHANGED CachedClusters
    BY <2>2 DEF CachedClusters
  <2>5. UNCHANGED CachedSecrets
    BY <2>1 DEF CachedSecrets
  <2>6. \A g \in Cluster : Leaving(g) => Leaving(g)'
    BY <1>1, <2>3 DEF Leaving
  <2> QED BY <2>1, <2>4, <2>5, <2>6, SameCache
<1>2. CASE CreateFsc(f)
  <2>1. PICK v \in FscOptions(f) \ {None} : UserPutsFsc(f, v)
    BY <1>2 DEF CreateFsc
  <2>2. v \in FscVersion
    BY OptionTypes DEF FscVersion
  <2>3. Live(fsc[f]) = None /\ Synced(fsc[f])
    BY <1>2 DEF CreateFsc, Forgotten, ChangesReported
  <2>4. ~Leaving(f)
    BY <1>0, <2>3, SyncedIsLive DEF Leaving
  <2> QED BY <1>1, <2>1, <2>2, <2>4
<1>3. CASE DeleteFsc(f)
  <2> DEFINE o == Live(fsc[f])
  <2>1. o \in FscObject /\ ~Leaving(f)
    BY <1>0, <1>3, LogVersions DEF DeleteFsc, Leaving, FscVersion
  <2>2. PICK v : UserPutsFsc(f, v) /\ v = IF o.fin THEN [o EXCEPT !.del = TRUE] ELSE None
    BY <1>3 DEF DeleteFsc
  <2> HIDE DEF o
  <2>3. v \in FscVersion
    BY <2>1, <2>2 DEF FscVersion, FscObject
  <2> QED BY <1>1, <2>1, <2>2, <2>3
<1>4. CASE DeliverFsc(f)
  <2>1. /\ ~Synced(fsc[f]) /\ Delivers(fsc', fsc, f) /\ UNCHANGED <<sc, sec>>
        /\ None \in {Cached(fsc[f]), fsc[f][2]} => CachedScs \subseteq scQ'
    BY <1>4 DEF DeliverFsc, Delivers
  <2>2. CASE CachedScs \subseteq scQ'
    BY <2>1, <2>2 DEF CacheCalm, CachedScs
  <2>3. CASE Cached(fsc[f]) # None /\ fsc[f][2] # None
    <3>1. Cached(fsc'[f]) = fsc[f][2]
      BY <1>0, <2>1, TailFamily
    <3>2. \A g \in Cluster \ {f} : fsc'[g] = fsc[g]
      BY <1>0, <2>1, TailFamily
    <3>3. \A g \in Cluster : Live(fsc'[g]) = Live(fsc[g])
      BY <1>0, <2>1, TailFamily
    <3>4. fsc[f][2].secret = Cached(fsc[f]).secret
      BY <1>0, <2>1, <2>3, OneSecretTail DEF OInv
    <3>5. UNCHANGED CachedClusters
      BY <2>3, <3>1, <3>2, <3>4 DEF CachedClusters
    <3>6. UNCHANGED CachedSecrets
      BY <2>1 DEF CachedSecrets
    <3>7. \A g \in Cluster : Leaving(g) => Leaving(g)'
      BY <2>3, <3>1, <3>2, <3>3 DEF Leaving
    <3> QED BY <2>1, <3>5, <3>6, <3>7, SameCache
  <2> QED BY <2>1, <2>2, <2>3
<1> QED BY <1>2, <1>3, <1>4

\* The events of secrets: the predicate lets the change through, and the
\* handler lists every class that has been matched against the secret.
LEMMA SecretHeard ==
    ASSUME ChangesReported, OInv, OInv', NEW x \in Secret, DeliverSecret(x)
    PROVE  CacheCalm
<1> DEFINE classes == [s \in StorageClass |-> IF Cached(sc[s]) = None THEN None ELSE Cached(sc[s]).params]
<1>1. /\ ~Synced(sec[x]) /\ sec'[x] = Tail(sec[x]) /\ \A y \in Secret \ {x} : sec'[y] = sec[y]
      /\ UNCHANGED <<fsc, sc>>
  BY DEF DeliverSecret, OInv, RInv, BInv, IInv, TypeOK
<1>2. sec[x] \in Log(SecretContents(x)) /\ Changes(sec[x])
  BY DEF OInv, ContentsKnown
<1>3. Cached(sec[x]) \in SecretContents(x) /\ sec[x][2] \in SecretContents(x) /\ Cached(sec[x]) # sec[x][2]
  BY <1>1, <1>2, LogVersions, LogTail, ChangesTail
<1>4. SecretMgmtAddrPredicate(Cached(sec[x]), sec[x][2])
  BY <1>3 DEF ChangesReported
<1>5. secretStorageClassMap(x, classes) \subseteq scQ'
  BY <1>4 DEF DeliverSecret
<1>6. UNCHANGED CachedClusters /\ \A f \in Cluster : Leaving(f) => Leaving(f)'
  BY <1>1 DEF CachedClusters, Leaving
<1>7. \A y \in Secret \ {x} : CachedSecrets'[y] = CachedSecrets[y]
  BY <1>1 DEF CachedSecrets
<1>8. ASSUME NEW s \in StorageClass, Cached(sc[s]) # None, s \notin scQ' PROVE Matches(s)' = Matches(s)
  <2> DEFINE p == Cached(sc[s]).params
  <2>1. classes[s] = p /\ p \in Params
    BY <1>8, CacheTypes
  <2>2. p # None => x \notin FscSecretName /\ ScSecret(p) # x
    BY <1>5, <1>8, <2>1 DEF secretStorageClassMap
  <2>3. p # None
    BY <2>1, NoneAssumption
  <2>4. CachedClusters \in ClusterList /\ CachedSecrets \in SecretList
    BY CacheTypes
  <2>s. CachedSecrets' \in SecretList
    <3>1. sec' \in [Secret -> Log(SecretData \cup {None})]
      BY DEF OInv, RInv, BInv, IInv, TypeOK
    <3> QED BY <3>1, LogVersions DEF CachedSecrets, SecretList
  <2>5. \A f \in Cluster : CachedClusters[f] # None => CachedClusters[f] \in Secret \ {x}
    BY <2>2, <2>3, CacheTypes, SentinelAssumption
  <2>6. ScSecret(p) # None => ScSecret(p) \in Secret \ {x}
    BY <2>1, <2>2, <2>3 DEF ScSecret, Params
  <2> HIDE DEF p
  <2>7. getFlashSystemClusterByStorageClass(p, CachedClusters, CachedSecrets')
          = getFlashSystemClusterByStorageClass(p, CachedClusters, CachedSecrets)
    BY <1>7, <2>1, <2>4, <2>s, <2>5, <2>6, MatchReads
  <2> QED BY <1>1, <1>6, <2>7 DEF Matches, p
<1> HIDE DEF classes
<1> QED BY <1>1, <1>6, <1>8 DEF CacheCalm

\* Every step but a restart.
LEMMA StepHeard == ASSUME ChangesReported, OInv, OInv', [Next]_vars PROVE CacheCalm \/ Restart
<1>0. /\ fsc \in [Cluster -> Log(FscVersion)] /\ sc \in [StorageClass -> Log(ScVersion)]
      /\ sec \in [Secret -> Log(SecretData \cup {None})] /\ BInv
  BY DEF OInv, RInv, BInv, IInv, TypeOK, FscVersion, ScVersion
<1>1. CASE UNCHANGED <<fsc, sc, sec>>
  <2>1. UNCHANGED CachedClusters /\ UNCHANGED CachedSecrets
    BY <1>1 DEF CachedClusters, CachedSecrets
  <2>2. \A f \in Cluster : Leaving(f) => Leaving(f)'
    BY <1>1 DEF Leaving
  <2> QED BY <1>1, <2>1, <2>2, SameCache
<1>2. ASSUME NEW f \in Cluster, DeliverFsc(f) \/ CreateFsc(f) \/ DeleteFsc(f) \/ UpdateFsc(f) PROVE CacheCalm
  <2>1. ~UpdateFsc(f)
    BY DEF UpdateFsc, UserOp, ChangesReported
  <2> QED BY <1>2, <2>1, FscHeard
<1>3. CASE Finalizes
  <2>1. PICK v \in Marked : FinalizerPuts(v)
    BY <1>0, <1>3, FinalizerKinds
  <2>2. fscW.req \in Cluster /\ Live(fsc[fscW.req]) # None /\ Puts(fsc', fsc, fscW.req, v)
    BY <1>0, <1>3, <2>1, FinalizerKinds DEF FinalizerPuts
  <2>3. UNCHANGED <<sc, sec>>
    BY <1>3 DEF Finalizes, FscUpdateFinalizer
  <2>4. fsc \in [Cluster -> Log(Marked)]
    BY <1>0 DEF BInv
  <2>5. \A g \in Cluster : Cached(fsc'[g]) = Cached(fsc[g])
    BY <2>1, <2>2, <2>4, PutFamily
  <2>6. \A g \in Cluster \ {fscW.req} : fsc'[g] = fsc[g]
    BY <2>1, <2>2, <2>4, PutFamily
  <2>7. UNCHANGED CachedClusters /\ UNCHANGED CachedSecrets
    BY <2>3, <2>5 DEF CachedClusters, CachedSecrets
  <2>8. \A f \in Cluster : Leaving(f) => Leaving(f)'
    BY <2>2, <2>6 DEF Leaving
  <2> QED BY <2>3, <2>7, <2>8, SameCache
<1>4. ASSUME NEW s \in StorageClass, DeliverSc(s) \/ CreateSc(s) \/ TerminateSc(s) \/ DeleteSc(s)
      PROVE  CacheCalm
  <2>1. UNCHANGED <<fsc, sec>>
    BY <1>4 DEF DeliverSc, CreateSc, TerminateSc, DeleteSc, UserPutsSc
  <2>2. UNCHANGED CachedClusters /\ UNCHANGED CachedSecrets
    BY <2>1 DEF CachedClusters, CachedSecrets
  <2>3. \A f \in Cluster : Leaving(f) => Leaving(f)'
    BY <2>1 DEF Leaving
  <2>4. CASE DeliverSc(s)
    <3>1. s \in scQ' /\ \A t \in StorageClass \ {s} : sc'[t] = sc[t]
      BY <1>0, <2>4 DEF DeliverSc
    <3> QED BY <2>2, <2>3, <3>1, SameCache
  <2>5. ASSUME NEW v, UserPutsSc(s, v) PROVE CacheCalm
    <3>1. sc'[s] = Append(sc[s], v) /\ \A t \in StorageClass \ {s} : sc'[t] = sc[t]
      BY <1>0, <2>5 DEF UserPutsSc
    <3>2. Cached(Append(sc[s], v)) = Cached(sc[s])
      BY <1>0, AppendHead
    <3> QED BY <2>2, <2>3, <3>1, <3>2, SameCache
  <2> QED BY <1>4, <2>4, <2>5 DEF CreateSc, TerminateSc, DeleteSc
<1>5. ASSUME NEW x \in Secret, DeliverSecret(x) \/ SetSecret(x) \/ DeleteSecret(x) PROVE CacheCalm
  <2>1. ASSUME NEW v, UserPutsSecret(x, v) PROVE CacheCalm
    <3>1. /\ sec'[x] = Append(sec[x], v) /\ \A y \in Secret \ {x} : sec'[y] = sec[y]
          /\ UNCHANGED <<fsc, sc>>
      BY <1>0, <2>1 DEF UserPutsSecret
    <3>2. Cached(Append(sec[x], v)) = Cached(sec[x])
      BY <1>0, AppendHead
    <3>3. UNCHANGED CachedSecrets
      BY <3>1, <3>2 DEF CachedSecrets
    <3>4. UNCHANGED CachedClusters /\ \A f \in Cluster : Leaving(f) => Leaving(f)'
      BY <3>1 DEF CachedClusters, Leaving
    <3> QED BY <3>1, <3>3, <3>4, SameCache
  <2> QED BY <1>5, <2>1, SecretHeard DEF SetSecret, DeleteSecret
<1> QED BY <1>1, <1>2, <1>3, <1>4, <1>5, Touches

----------------------------------------------------------------------------
(* A class at rest is recorded as it is matched.                           *)

InWork(s) == scW.pc # "idle" /\ scW.req = s

\* The pools of a class that is neither queued nor in work are a match of it
\* against the cache, but for the entries of clusters that are gone; or the
\* deletion of the ConfigMap is on its way and queues the class.
RecMatched ==
    \A s \in StorageClass :
        Cached(sc[s]) # None /\ s \notin scQ /\ ~InWork(s) =>
            \/ Coming(cm)
            \/ \E m \in Matches(s) :
                 \A f \in Cluster : Leaving(f) \/ PoolOf(Live(cm), f, s) = m[f]

\* What the loop records is such a match, or the class will be worked on again.
WorkMatched ==
    scW.pc = "loop" /\ scW.req \notin scQ /\ Cached(sc[scW.req]) # None => scW.want \in Matches(scW.req)

\* The copy has the pools of the keys the loop has come to, or does not come to.
LoopDone ==
    scW.pc = "loop" =>
        \A f \in Cluster : /\ scW.want[f] # EmptyPool
                           /\ f \in scW.todo \/ PoolOf(scW.data, f, scW.req) = scW.want[f]

SInv == RecMatched /\ WorkMatched /\ LoopDone

MInv == OInv /\ KInv /\ SInv

\* A match against the cache.
LEMMA MatchesAre ==
    ASSUME OInv, NEW s \in StorageClass, Cached(sc[s]) # None, NEW m \in Matches(s), NEW f \in Cluster
    PROVE  /\ Cached(fsc[f]) = None => m[f] = None
           /\ m[f] # EmptyPool
<1>1. CASE Cached(sc[s]).del
  BY <1>1, SentinelAssumption DEF Matches, NoMatch
<1>2. CASE ~Cached(sc[s]).del
  <2>1. /\ m \in getFlashSystemClusterByStorageClass(Cached(sc[s]).params, CachedClusters, CachedSecrets)
        /\ m # Error
    BY <1>2 DEF Matches
  <2>2. /\ CachedClusters \in ClusterList /\ CachedSecrets \in SecretList
        /\ Cached(sc[s]).params \in Params /\ PoolGiven(Cached(sc[s]).params)
    BY CacheTypes
  <2>3. /\ CachedClusters[f] = None => m[f] = None
        /\ m[f] # EmptyPool
    BY <2>1, <2>2, MatchIs
  <2>4. Cached(fsc[f]) = None => CachedClusters[f] = None
    BY DEF CachedClusters
  <2> QED BY <2>3, <2>4
<1> QED BY <1>1, <1>2

\* At the start every class is queued.
LEMMA MatchedInit == ASSUME ChangesReported, Init PROVE MInv
<1>1. OInv /\ KInv
  BY ObjectsInit, ClassesInit DEF CInv
<1>2. RecMatched
  BY DEF RecMatched, Init, CachedScs
<1>3. WorkMatched /\ LoopDone
  BY DEF WorkMatched, LoopDone, Init, ScIdle
<1> QED BY <1>1, <1>2, <1>3 DEF MInv, SInv

\* The steps of others: what changes the match of a class queues it, and the
\* reconciler takes pools only from the entries of clusters that are gone.
LEMMA OthersMatched == ASSUME MInv, Calm, CacheCalm PROVE SInv'
<1>0. /\ OInv /\ KInv /\ RecMatched /\ WorkMatched /\ LoopDone /\ RemovesDead
      /\ scW.pc # "idle" => scW.req \in StorageClass
  BY DEF MInv, SInv, OInv, RInv, KInv, IInv, WorkersHold
<1>1. SameScWork /\ scQ \subseteq scQ' /\ CmCalm
  BY DEF Calm
<1>2. LoopDone'
  BY <1>0, <1>1 DEF LoopDone, SameScWork
<1>3. WorkMatched'
  <2> SUFFICES ASSUME scW.pc = "loop", scW.req \notin scQ', Cached(sc'[scW.req]) # None
               PROVE  scW.want \in Matches(scW.req)'
    BY <1>1 DEF WorkMatched, SameScWork, Matches
  <2> DEFINE s == scW.req
  <2>1. s \in StorageClass /\ s \notin scQ
    BY <1>0, <1>1
  <2>2. Cached(sc'[s]) = Cached(sc[s]) /\ Matches(s)' = Matches(s)
    BY <1>1, <2>1 DEF CacheCalm, SameScWork, Matches
  <2> QED BY <1>0, <2>1, <2>2 DEF WorkMatched
<1>4. RecMatched'
  <2> SUFFICES ASSUME NEW s \in StorageClass, Cached(sc'[s]) # None, s \notin scQ', ~InWork(s)',
                      ~Coming(cm')
               PROVE  \E m \in Matches(s)' :
                        \A f \in Cluster : Leaving(f)' \/ PoolOf(Live(cm'), f, s) = m[f]
    BY DEF RecMatched
  <2>1. /\ Cached(sc'[s]) = Cached(sc[s]) /\ Matches(s)' = Matches(s)
        /\ \A f \in Cluster : Leaving(f) => Leaving(f)'
    BY DEF CacheCalm
  <2>2. Cached(sc[s]) # None /\ s \notin scQ /\ ~InWork(s)
    BY <1>1, <2>1 DEF SameScWork, InWork
  <2>3. ~Coming(cm)
    BY <1>1, <2>2 DEF CmCalm, CachedScs
  <2>4. PICK m \in Matches(s) : \A f \in Cluster : Leaving(f) \/ PoolOf(Live(cm), f, s) = m[f]
    BY <1>0, <2>2, <2>3 DEF RecMatched
  <2>5. ASSUME NEW f \in Cluster, ~Leaving(f) PROVE PoolOf(Live(cm'), f, s) = m[f]
    <3>1. CASE PoolOf(Live(cm'), f, s) = PoolOf(Live(cm), f, s)
      BY <2>4, <2>5, <3>1
    <3>2. CASE PoolOf(Live(cm'), f, s) = None /\ fscW.pc = "rmEntry" /\ fscW.req = f
      <4>1. Live(fsc[f]) = None
        BY <1>0, <3>2 DEF RemovesDead, Removing
      <4>2. Cached(fsc[f]) = None
        BY <2>5, <4>1 DEF Leaving
      <4> QED BY <1>0, <2>2, <2>4, <3>2, <4>2, MatchesAre
    <3> QED BY <1>1, <3>1, <3>2 DEF CmCalm
  <2> QED BY <2>1, <2>4, <2>5
<1> QED BY <1>2, <1>3, <1>4 DEF SInv

\* A step of the watcher that leaves the ConfigMap alone: only its class
\* changes hands.
LEMMA WatcherMatched ==
    ASSUME MInv, UNCHANGED <<fsc, sc, sec, cm>>, NEW r \in StorageClass,
           \A s \in StorageClass \ {r} : s \notin scQ' /\ ~InWork(s)' => s \notin scQ /\ ~InWork(s),
           \/ r \in scQ' \/ InWork(r)'
           \/ Cached(sc[r]) = None
           \/ \E m \in Matches(r) : \A f \in Cluster : PoolOf(Live(cm), f, r) = m[f]
    PROVE  RecMatched'
<1>1. \A s \in StorageClass : Matches(s)' = Matches(s)
  BY DEF Matches, CachedClusters, CachedSecrets
<1>2. \A f \in Cluster : Leaving(f)' <=> Leaving(f)
  BY DEF Leaving
<1>3. ASSUME NEW s \in StorageClass, Cached(sc[s]) # None, s \notin scQ', ~InWork(s)'
      PROVE  \/ Coming(cm)
             \/ \E m \in Matches(s) : \A f \in Cluster : Leaving(f) \/ PoolOf(Live(cm), f, s) = m[f]
  <2>1. CASE s = r
    BY <1>3, <2>1
  <2>2. CASE s # r
    BY <1>3, <2>2 DEF MInv, SInv, RecMatched
  <2> QED BY <2>1, <2>2
<1> QED BY <1>1, <1>2, <1>3 DEF RecMatched

\* The ConfigMap is read.
LEMMA ScStartMatched == ASSUME MInv, NEW s \in StorageClass, ScStart(s) PROVE SInv'
<1>1. /\ scW.pc = "idle" /\ scQ' = scQ \ {s} /\ UNCHANGED <<fsc, sc, sec, cm>>
      /\ scW'.pc = "match" /\ scW'.req = s
  BY DEF ScStart, ScIdle, objects
<1>2. RecMatched'
  BY <1>1, WatcherMatched DEF InWork
<1>3. WorkMatched' /\ LoopDone'
  BY <1>1 DEF WorkMatched, LoopDone
<1> QED BY <1>2, <1>3 DEF SInv

\* An error, or a fault: the class is queued again.
LEMMA ScGivesUpMatched ==
    ASSUME MInv, scW.pc # "idle", ScReturn(TRUE), UNCHANGED <<fsc, sc, sec, cm>>
    PROVE  SInv'
<1>1. scW'.pc = "idle" /\ scQ' = scQ \cup {scW.req} /\ scW.req \in StorageClass
  BY DEF ScReturn, ScIdle, MInv, KInv, IInv, WorkersHold
<1>2. RecMatched'
  BY <1>1, WatcherMatched DEF InWork
<1>3. WorkMatched' /\ LoopDone'
  BY <1>1 DEF WorkMatched, LoopDone
<1> QED BY <1>2, <1>3 DEF SInv

\* The match, up to the loop.
LEMMA ScMatchMatched == ASSUME MInv, ScMatch PROVE SInv'
<1> DEFINE s == scW.req
           keys == {k \in Pools!Key : scW.data[k] # None}
<1>0. /\ scW.pc = "match" /\ s \in StorageClass /\ scW \in ScWorker /\ UNCHANGED <<fsc, sc, sec, cm>>
      /\ OInv /\ KInv /\ scW.data \in Pools!Content
  BY DEF ScMatch, objects, MInv, KInv, IInv, TypeOK, WorkersHold
<1>1. CASE ScReturn(TRUE)
  BY <1>0, <1>1, ScGivesUpMatched
<1>2. \A t \in StorageClass : Matches(t)' = Matches(t)
  BY <1>0 DEF Matches, CachedClusters, CachedSecrets
<1>3. ASSUME NEW want, ScLoop(want),
             Cached(sc[s]) # None => want \in Matches(s),
             \A f \in Cluster : want[f] # EmptyPool /\ (scW.data[f] = None => want[f] = None)
      PROVE  SInv'
  <2>1. CASE keys = {} /\ ScReturn(FALSE)
    <3>1. scW'.pc = "idle" /\ scQ' = scQ
      BY <2>1 DEF ScReturn, ScIdle
    <3>2. \A f \in Cluster : scW.data[f] = None
      BY <2>1 DEF Pools!Key
    <3>3. \A f \in Cluster : PoolOf(Live(cm), f, s) = None
      BY <1>0, <3>2 DEF KInv, HoldsKeys, Rec, Has, PoolOf
    <3>4. RecMatched'
      BY <1>0, <1>3, <3>1, <3>2, <3>3, WatcherMatched DEF InWork
    <3>5. WorkMatched' /\ LoopDone'
      BY <3>1 DEF WorkMatched, LoopDone
    <3> QED BY <3>4, <3>5 DEF SInv
  <2>2. CASE scW' = [scW EXCEPT !.pc = "loop", !.want = want, !.todo = keys] /\ UNCHANGED scQ
    <3>1. /\ scW'.pc = "loop" /\ scW'.req = s /\ scW'.data = scW.data
          /\ scW'.want = want /\ scW'.todo = keys
      BY <1>0, <2>2 DEF ScWorker
    <3>2. RecMatched'
      BY <1>0, <2>2, <3>1, WatcherMatched DEF InWork
    <3>3. WorkMatched'
      BY <1>0, <1>2, <1>3, <3>1 DEF WorkMatched, Matches
    <3>4. \A f \in Cluster : f \notin keys => scW.data[f] = None
      BY DEF Pools!Key
    <3> HIDE DEF keys
    <3>5. LoopDone'
      BY <1>3, <3>1, <3>4 DEF LoopDone, PoolOf, Has
    <3> QED BY <3>2, <3>3, <3>5 DEF SInv
  <2> QED BY <1>3, <2>1, <2>2 DEF ScLoop
<1>4. \A f \in Cluster : NoMatch[f] = None /\ NoMatch[f] # EmptyPool
  BY SentinelAssumption DEF NoMatch
<1>5. CASE Cached(sc[s]) = None /\ ScLoop(NoMatch)
  BY <1>3, <1>4, <1>5
<1>6. CASE Cached(sc[s]) # None
  <2>1. MatchIn(Cached, s)
          = getFlashSystemClusterByStorageClass(Cached(sc[s]).params, CachedClusters, CachedSecrets)
    BY DEF MatchIn, CachedClusters, CachedSecrets
  <2>2. PICK m \in MatchIn(Cached, s) :
          IF m = Error \/ (\E f \in Cluster : m[f] # None /\ scW.data[f] = None)
          THEN ScReturn(TRUE) ELSE ScLoop(IF Cached(sc[s]).del THEN NoMatch ELSE m)
    BY <1>6 DEF ScMatch
  <2>3. CASE m # Error /\ \A f \in Cluster : scW.data[f] = None => m[f] = None
    <3>1. PICK want : want = (IF Cached(sc[s]).del THEN NoMatch ELSE m) /\ ScLoop(want)
      BY <2>2, <2>3
    <3>2. want \in Matches(s)
      BY <2>1, <2>2, <2>3, <3>1 DEF Matches
    <3>3. \A f \in Cluster : want[f] # EmptyPool
      BY <1>0, <1>6, <3>2, MatchesAre
    <3> QED BY <1>3, <1>4, <2>3, <3>1, <3>2, <3>3
  <2> QED BY <1>1, <2>2, <2>3
<1> QED BY <1>5, <1>6 DEF ScMatch

\* An accepted Update of the watcher, pool by pool.
LEMMA ScPutPools ==
    ASSUME KInv, NEW k \in Pools!Key, ScUpdate(k), ScPool(k) # EmptyPool, scW.cur, ScPutCm(k)
    PROVE  \A f \in Cluster, s \in StorageClass :
             PoolOf(ScChanged(k), f, s) = IF f = k /\ s = scW.req THEN ScPool(k)
                                          ELSE PoolOf(Live(cm), f, s)
<1> DEFINE new == ScChanged(k)
           entry == [scW.data[k] EXCEPT !.scs[scW.req] = ScPool(k)]
<1>1. /\ scW.data = Live(cm) /\ scW.data \in Pools!Content /\ scW.req \in StorageClass
      /\ scW.data[k] \in Pools!Entry /\ IInv
  BY DEF ScUpdate, InLoop, KInv, IInv, CopiesLive, WorkersHold
<1>2. ScPool(k) \in Pool \cup {None}
  BY <1>1, ConstantsAssumption DEF ScPool, IInv, TypeOK, ScWorker, Pools!Key
<1>3. /\ entry \in Pools!Entry
      /\ \A s \in StorageClass : entry.scs[s] = IF s = scW.req THEN ScPool(k) ELSE scW.data[k].scs[s]
  BY <1>1, <1>2 DEF Pools!Entry
<1>4. new = [scW.data EXCEPT ![k] = entry]
  BY DEF ScChanged
<1> HIDE DEF entry
<1>5. new \in Pools!Content
  BY <1>1, <1>3, <1>4 DEF Pools!Content
<1>6. new # None /\ Live(cm) # None /\ scW.data[k] # None /\ entry # None
  BY <1>1, <1>3, <1>5, NoneAssumption
<1>7. ASSUME NEW f \in Cluster, NEW s \in StorageClass
      PROVE  PoolOf(new, f, s) = IF f = k /\ s = scW.req THEN ScPool(k) ELSE PoolOf(Live(cm), f, s)
  <2>1. new[f] = IF f = k THEN entry ELSE scW.data[f]
    BY <1>1, <1>4 DEF Pools!Content, Pools!Key
  <2> HIDE DEF new
  <2> QED BY <1>1, <1>3, <1>6, <2>1 DEF PoolOf, Has
<1> QED BY <1>7

\* One round of the loop: the last one, when accepted, leaves the pools of the
\* class as they were matched.
LEMMA ScUpdateMatched == ASSUME MInv, NEW k \in Pools!Key, ScUpdate(k) PROVE SInv'
<1> DEFINE s == scW.req
<1>0. /\ scW.pc = "loop" /\ k \in scW.todo /\ UNCHANGED <<fsc, sc, sec>> /\ s \in StorageClass
      /\ scW \in ScWorker /\ cm \in Log(CmVersion) /\ KInv /\ WorkMatched /\ LoopDone
      /\ scW.cur => scW.data = Live(cm)
  BY DEF ScUpdate, InLoop, MInv, SInv, KInv, IInv, TypeOK, WorkersHold, CopiesLive, CmVersion
<1>m. \A t \in StorageClass : Matches(t)' = Matches(t)
  BY <1>0 DEF Matches, CachedClusters, CachedSecrets
<1>n. ScPool(k) # EmptyPool /\ (k \in Cluster => ScPool(k) = scW.want[k])
  BY <1>0, SentinelAssumption, ConstantsAssumption DEF LoopDone, ScPool, Pools!Key
<1>1. CASE ScConflict
  BY <1>0, <1>1, ScGivesUpMatched DEF ScConflict
<1>2. CASE ScPool(k) # EmptyPool /\ scW.cur /\ ScPutCm(k)
  <2> DEFINE new == ScChanged(k)
  <2>1. new \in Pools!Content
    BY <1>0, <1>2, ScPutIs
  <2>2. \A f \in Cluster, t \in StorageClass :
          PoolOf(new, f, t) = IF f = k /\ t = s THEN ScPool(k) ELSE PoolOf(Live(cm), f, t)
    BY <1>0, <1>2, ScPutPools
  <2>3. /\ PutCm(new)
        /\ IF scW.todo = {k} THEN ScReturn(FALSE)
           ELSE /\ scW' = [scW EXCEPT !.todo = scW.todo \ {k}, !.data = new,
                                      !.cur = scW.cur /\ new = Live(cm)]
                /\ UNCHANGED scQ
    BY <1>2 DEF ScPutCm, StillLive
  <2> HIDE DEF new
  <2>4. Live(cm') = new /\ (Coming(cm) => Coming(cm'))
    BY <1>0, <2>1, <2>3, PutCmLive, ComingAppend DEF CmVersion, PutCm
  <2>5. \A f \in Cluster : f \in scW.todo \ {k} \/ PoolOf(new, f, s) = scW.want[f]
    BY <1>0, <1>2, <1>n, <2>2 DEF LoopDone
  <2>6. ASSUME NEW t \in StorageClass, t # s, Cached(sc'[t]) # None, t \notin scQ, ~Coming(cm')
        PROVE  \E m \in Matches(t)' :
                 \A f \in Cluster : Leaving(f)' \/ PoolOf(Live(cm'), f, t) = m[f]
    <3>1. PICK m \in Matches(t) : \A f \in Cluster : Leaving(f) \/ PoolOf(Live(cm), f, t) = m[f]
      BY <1>0, <2>4, <2>6 DEF MInv, SInv, RecMatched, InWork
    <3>2. \A f \in Cluster : PoolOf(Live(cm'), f, t) = PoolOf(Live(cm), f, t)
      BY <2>2, <2>4, <2>6
    <3>3. \A f \in Cluster : Leaving(f)' <=> Leaving(f)
      BY <1>0 DEF Leaving
    <3> QED BY <1>m, <3>1, <3>2, <3>3
  <2>7. CASE scW.todo = {k}
    <3>1. scW'.pc = "idle" /\ scQ' = scQ
      BY <2>3, <2>7 DEF ScReturn, ScIdle
    <3>2. \A f \in Cluster : PoolOf(Live(cm'), f, s) = scW.want[f]
      BY <2>4, <2>5, <2>7
    <3>3. ASSUME Cached(sc'[s]) # None, s \notin scQ PROVE scW.want \in Matches(s)
      BY <1>0, <3>3 DEF WorkMatched
    <3>4. RecMatched'
      <4> SUFFICES ASSUME NEW t \in StorageClass, Cached(sc'[t]) # None, t \notin scQ, ~Coming(cm')
                   PROVE  \E m \in Matches(t)' :
                            \A f \in Cluster : Leaving(f)' \/ PoolOf(Live(cm'), f, t) = m[f]
        BY <3>1 DEF RecMatched
      <4>1. CASE t = s
        BY <1>0, <1>m, <3>2, <3>3, <4>1
      <4>2. CASE t # s
        BY <2>6, <4>2
      <4> QED BY <4>1, <4>2
    <3>5. WorkMatched' /\ LoopDone'
      BY <3>1 DEF WorkMatched, LoopDone
    <3> QED BY <3>4, <3>5 DEF SInv
  <2>8. CASE scW.todo # {k}
    <3>1. /\ scW'.pc = "loop" /\ scW'.req = s /\ scW'.want = scW.want /\ scW'.data = new
          /\ scW'.todo = scW.todo \ {k} /\ scQ' = scQ
      BY <1>0, <2>3, <2>8 DEF ScWorker
    <3>2. RecMatched'
      <4> SUFFICES ASSUME NEW t \in StorageClass, Cached(sc'[t]) # None, t \notin scQ, t # s, ~Coming(cm')
                   PROVE  \E m \in Matches(t)' :
                            \A f \in Cluster : Leaving(f)' \/ PoolOf(Live(cm'), f, t) = m[f]
        BY <3>1 DEF RecMatched, InWork
      <4> QED BY <2>6
    <3>3. WorkMatched'
      BY <1>0, <1>m, <3>1 DEF WorkMatched, Matches
    <3>4. LoopDone'
      BY <1>0, <2>5, <3>1 DEF LoopDone
    <3> QED BY <3>2, <3>3, <3>4 DEF SInv
  <2> QED BY <2>7, <2>8
<1> QED BY <1>1, <1>2, <1>n DEF ScUpdate, ScConflict

\* Every step keeps the invariant.
LEMMA MatchedStep == ASSUME ChangesReported, MInv, [Next]_vars PROVE MInv'
<1>0. OInv /\ OInv' /\ KInv /\ KInv'
  BY ObjectsStep, KeysStep DEF MInv
<1>1. SUFFICES SInv'
  BY <1>0 DEF MInv
<1>2. CASE Restart
  <2>1. /\ Rereads(sc', sc, StorageClass) /\ scQ' = LiveScs /\ scW' = ScIdle
    BY <1>2 DEF Restart, RestartWith, Rereads
  <2>2. sc \in [StorageClass -> Log(Recordable)]
    BY <1>0 DEF OInv
  <2>3. \A s \in StorageClass : Cached(sc'[s]) = Live(sc[s])
    BY <2>1, <2>2, RestartFamily
  <2>4. RecMatched'
    BY <2>1, <2>3 DEF RecMatched, LiveScs
  <2>5. WorkMatched' /\ LoopDone'
    BY <2>1 DEF WorkMatched, LoopDone, ScIdle
  <2> QED BY <2>4, <2>5 DEF SInv
<1>3. CASE OthersStep /\ ~Restart
  BY <1>0, <1>3, OthersCalm, StepHeard, OthersMatched
<1>4. CASE WatcherStep
  <2>1. CASE Fault /\ scW.pc # "idle" /\ ScReturn(TRUE)
    BY <2>1, ScGivesUpMatched DEF Fault, objects
  <2> QED BY <1>4, <2>1, ScStartMatched, ScMatchMatched, ScUpdateMatched DEF WatcherStep, ScWork
<1> QED BY <1>2, <1>3, <1>4, StepIs

\* Through restarts, faults and deletions of the ConfigMap: when no event is on
\* its way, the pools of a class that neither waits nor is in work are recorded
\* as the live classes, clusters and secrets say.  It holds for every match,
\* regular or topology, and whatever copies the two controllers wrote from, as
\* long as every change that concerns the class is one the watcher's handlers
\* and predicates let through.
THEOREM LiveScIsRecorded == ASSUME ChangesReported PROVE Spec => []LiveScRecorded
<1>1. ASSUME MInv PROVE LiveScRecorded
  <2> SUFFICES ASSUME CacheSynced, NEW s \in StorageClass, Live(sc[s]) # None, s \notin scQ, scW.req # s
               PROVE  Recorded(s) \in Wanted(s)
    BY DEF LiveScRecorded
  <2>1. TypeOK
    BY <1>1 DEF MInv, KInv, IInv
  <2>2. \A f \in Cluster : Cached(fsc[f]) = Live(fsc[f])
    BY <2>1, SyncedIsLive DEF CacheSynced, TypeOK
  <2>3. Cached(sc[s]) = Live(sc[s])
    BY <2>1, SyncedIsLive DEF CacheSynced, TypeOK
  <2>4. \A x \in Secret : Cached(sec[x]) = Live(sec[x])
    BY <2>1, SyncedIsLive DEF CacheSynced, TypeOK
  <2>5. ~Coming(cm)
    BY DEF CacheSynced, Coming, Synced
  <2>6. PICK m \in Matches(s) : \A f \in Cluster : Leaving(f) \/ PoolOf(Live(cm), f, s) = m[f]
    BY <1>1, <2>3, <2>5 DEF MInv, SInv, RecMatched, InWork
  <2>7. \A f \in Cluster : PoolOf(Live(cm), f, s) = m[f]
    BY <2>2, <2>6 DEF Leaving
  <2>8. Matches(s) = Wanted(s)
    <3>1. CachedClusters = [f \in Cluster |-> IF Live(fsc[f]) = None THEN None ELSE Live(fsc[f]).secret]
      BY <2>2 DEF CachedClusters
    <3>2. CachedSecrets = [x \in Secret |-> Live(sec[x])]
      BY <2>4 DEF CachedSecrets
    <3>3. MatchIn(Live, s)
            = getFlashSystemClusterByStorageClass(Live(sc[s]).params, CachedClusters, CachedSecrets)
      BY <3>1, <3>2 DEF MatchIn
    <3> QED BY <2>3, <3>3 DEF Matches, Wanted
  <2>9. m = Recorded(s)
    <3>1. m \in [Cluster -> Pool \cup {EmptyPool, None}]
      <4>1. NoMatch \in [Cluster -> Pool \cup {EmptyPool, None}]
        BY DEF NoMatch
      <4>2. /\ CachedClusters \in ClusterList /\ CachedSecrets \in SecretList
            /\ Cached(sc[s]).params \in Params
        BY <1>1, <2>3, CacheTypes DEF MInv
      <4> QED BY <2>6, <4>1, <4>2, MatchOutcomes DEF Matches, Outcome
    <3>2. \A f \in Cluster : Recorded(s)[f] = PoolOf(Live(cm), f, s)
      BY DEF Recorded, PoolOf, Has
    <3>3. Recorded(s) = [f \in Cluster |-> Recorded(s)[f]]
      BY DEF Recorded
    <3> QED BY <2>7, <3>1, <3>2, <3>3
  <2> QED BY <2>6, <2>8, <2>9
<1>2. Init => MInv
  BY MatchedInit
<1>3. MInv /\ [Next]_vars => MInv'
  BY MatchedStep
<1> QED BY <1>1, <1>2, <1>3, PTL DEF Spec
=============================================================================
