---------------------------- MODULE EntriesProofs ---------------------------
(***************************************************************************)
(* Proofs about the entries of the clusters in PoolsConfigMap, for any      *)
(* clusters, classes, secrets and faults: a cluster at rest has its entry,  *)
(* only a cluster that is gone loses it, and then it does.                 *)
(***************************************************************************)
EXTENDS PoolsProofs

----------------------------------------------------------------------------
(* Entries in a log of ConfigMaps.                                         *)

\* Version v of the ConfigMap has an entry of cluster f.
Has(v, f) == v # None /\ v[f] # None

\* A deletion of the ConfigMap is on its way to the cache.
Coming(log) == \E j \in 2..Len(log) : log[j] = None

\* What a version has of cluster f, the live one has too, unless the ConfigMap
\* was deleted in between.
Stays(log, f) ==
    \A i \in 1..Len(log) : Has(log[i], f) =>
        Has(Live(log), f) \/ \E j \in i + 1..Len(log) : log[j] = None

CmVersion == Pools!Content \cup {None}

\* A write to the ConfigMap that keeps the entry of f, or deletes the ConfigMap.
LEMMA StaysAppend ==
    ASSUME NEW V, NEW log \in Log(V), NEW f, NEW v,
           Stays(log, f), Has(Live(log), f) => v = None \/ Has(v, f)
    PROVE  Stays(Append(log, v), f)
<1> DEFINE new == Append(log, v)
<1>1. /\ Len(log) \in Nat \ {0} /\ Len(new) = Len(log) + 1
      /\ \A i \in 1..Len(log) : new[i] = log[i]
      /\ new[Len(log) + 1] = v
  BY AppendIs
<1> HIDE DEF new
<1>2. Live(new) = v
  BY <1>1 DEF Live
<1> SUFFICES ASSUME NEW i \in 1..Len(new), Has(new[i], f), ~Has(v, f)
             PROVE  \E j \in i + 1..Len(new) : new[j] = None
  BY <1>2 DEF Stays, new
<1>3. i \in 1..Len(log) /\ Has(log[i], f)
  BY <1>1
<1>4. CASE Has(Live(log), f)
  <2>1. Len(log) + 1 \in i + 1..Len(new) /\ new[Len(log) + 1] = None
    BY <1>1, <1>3, <1>4
  <2> QED BY <2>1
<1>5. ASSUME NEW j \in i + 1..Len(log), log[j] = None PROVE \E k \in i + 1..Len(new) : new[k] = None
  <2>1. j \in i + 1..Len(new) /\ new[j] = None
    BY <1>1, <1>3, <1>5
  <2> QED BY <2>1
<1> QED BY <1>3, <1>4, <1>5 DEF Stays

\* A watch event.
LEMMA StaysTail ==
    ASSUME NEW V, NEW log \in Log(V), NEW f, ~Synced(log), Stays(log, f)
    PROVE  Stays(Tail(log), f)
<1> DEFINE new == Tail(log)
<1>1. /\ Len(log) \in Nat /\ Len(log) > 1 /\ Len(new) = Len(log) - 1
      /\ \A i \in 1..Len(log) - 1 : new[i] = log[i + 1]
  BY TailIs
<1>2. Live(new) = Live(log)
  BY LogTail
<1> HIDE DEF new
<1> SUFFICES ASSUME NEW i \in 1..Len(new), Has(new[i], f), ~Has(Live(log), f)
             PROVE  \E j \in i + 1..Len(new) : new[j] = None
  BY <1>2 DEF Stays, new
<1>3. i + 1 \in 1..Len(log) /\ Has(log[i + 1], f)
  BY <1>1
<1>4. PICK j \in (i + 1) + 1..Len(log) : log[j] = None
  BY <1>3 DEF Stays
<1>5. j - 1 \in i + 1..Len(new) /\ j - 1 \in 1..Len(log) - 1 /\ (j - 1) + 1 = j
  BY <1>1
<1>6. new[j - 1] = None
  BY <1>1, <1>4, <1>5
<1> QED BY <1>5, <1>6

\* A deletion stays on its way until it arrives.
LEMMA ComingAppend ==
    ASSUME NEW V, NEW log \in Log(V), NEW v, Coming(log) \/ v = None
    PROVE  Coming(Append(log, v))
<1> DEFINE new == Append(log, v)
<1>1. /\ Len(log) \in Nat \ {0} /\ Len(new) = Len(log) + 1
      /\ \A i \in 1..Len(log) : new[i] = log[i]
      /\ new[Len(log) + 1] = v
  BY AppendIs
<1> HIDE DEF new
<1>2. CASE v = None
  <2>1. Len(log) + 1 \in 2..Len(new)
    BY <1>1
  <2> QED BY <1>1, <1>2, <2>1 DEF Coming, new
<1>3. ASSUME NEW j \in 2..Len(log), log[j] = None PROVE Coming(new)
  <2>1. j \in 2..Len(new) /\ j \in 1..Len(log)
    BY <1>1
  <2> QED BY <1>1, <1>3, <2>1 DEF Coming
<1> QED BY <1>2, <1>3 DEF Coming, new

\* Another event arrives before it.
LEMMA ComingTail ==
    ASSUME NEW V, NEW log \in Log(V), ~Synced(log), Coming(log), log[2] # None
    PROVE  Coming(Tail(log))
<1> DEFINE new == Tail(log)
<1>1. /\ Len(log) \in Nat /\ Len(log) > 1 /\ Len(new) = Len(log) - 1
      /\ \A i \in 1..Len(log) - 1 : new[i] = log[i + 1]
  BY TailIs
<1> HIDE DEF new
<1>2. PICK j \in 2..Len(log) : log[j] = None
  BY DEF Coming
<1>3. j - 1 \in 2..Len(new) /\ j - 1 \in 1..Len(log) - 1 /\ (j - 1) + 1 = j
  BY <1>1, <1>2
<1>4. new[j - 1] = None
  BY <1>1, <1>2, <1>3
<1> QED BY <1>3, <1>4 DEF Coming, new

\* A cached entry is live, or the deletion of its ConfigMap is on its way.
LEMMA CachedEntry ==
    ASSUME NEW V, NEW log \in Log(V), NEW f, Stays(log, f), Has(Cached(log), f)
    PROVE  Has(Live(log), f) \/ Coming(log)
<1>1. log \in Seq(V) /\ Len(log) \in Nat \ {0}
  BY LogVersions DEF Log
<1>2. 1 \in 1..Len(log) /\ Cached(log) = log[1] /\ 1 + 1 = 2
  BY <1>1 DEF Cached
<1> QED BY <1>2 DEF Stays, Coming

\* An accepted Update that keeps the entry of f.
LEMMA PutKeeps ==
    ASSUME cm \in Log(CmVersion), NEW new \in Pools!Content, PutCm(new), NEW f,
           Has(Live(cm), f) => Has(new, f)
    PROVE  (Stays(cm, f) => Stays(cm', f)) /\ (Coming(cm) => Coming(cm'))
<1>1. CASE cm' = cm
  BY <1>1
<1>2. CASE cm' = Append(cm, new)
  BY <1>2, StaysAppend, ComingAppend
<1> QED BY <1>1, <1>2 DEF PutCm

----------------------------------------------------------------------------
(* Steps that leave the clusters and the reconciler's worker alone.        *)

\* The worker of the reconciler is where it was.
SameWork == /\ fscW'.pc = fscW.pc /\ fscW'.req = fscW.req
            /\ fscW'.instCur = fscW.instCur /\ fscW'.data = fscW.data

\* What such a step does to the ConfigMap: entries come and go only with the
\* whole of it, and a deletion that arrives queues every cluster in the cache.
CmQuiet ==
    \A f \in Cluster :
        /\ Stays(cm, f) => Stays(cm', f)
        /\ HasEntry(f) \/ Coming(cm) => HasEntry(f)' \/ Coming(cm') \/ CachedFscs \subseteq fscQ'
        /\ HasEntry(f)' => HasEntry(f)
        /\ HasEntry(f) => HasEntry(f)' \/ Live(cm') = None

Quiet == /\ UNCHANGED fsc
         /\ SameWork
         /\ fscQ \subseteq fscQ' /\ fscQ' \subseteq fscQ \cup CachedFscs
         /\ CmQuiet

\* A step that leaves the ConfigMap alone.
LEMMA CmSame == ASSUME UNCHANGED cm PROVE CmQuiet
BY DEF CmQuiet, HasEntry

\* The steps of the watcher.
LEMMA ScQuiet == ASSUME IInv, (\E s \in StorageClass : ScStart(s)) \/ ScWork PROVE Quiet
<1>1. CASE (\E s \in StorageClass : ScStart(s)) \/ ScMatch
  BY <1>1, CmSame DEF ScStart, ScMatch, objects, Quiet, SameWork
<1>2. ASSUME NEW k \in Pools!Key, ScUpdate(k) PROVE Quiet
  <2>1. UNCHANGED <<fsc, fscQ>>
    BY <1>2 DEF ScUpdate, InLoop
  <2>2. CASE UNCHANGED <<cm, fscW>>
    BY <2>1, <2>2, CmSame DEF Quiet, SameWork
  <2>3. CASE ScPool(k) # EmptyPool /\ scW.cur /\ ScPutCm(k)
    <3> DEFINE new == ScChanged(k)
               entry == [scW.data[k] EXCEPT !.scs[scW.req] = ScPool(k)]
    <3>1. /\ scW.data = Live(cm) /\ scW.data \in Pools!Content /\ scW.req \in StorageClass
          /\ scW.data[k] \in Pools!Entry /\ cm \in Log(CmVersion)
      BY <1>2, <2>3 DEF ScUpdate, InLoop, IInv, TypeOK, CopiesLive, WorkersHold, CmVersion
    <3>2. ScPool(k) \in Pool \cup {None}
      BY <1>2, <2>3, ConstantsAssumption DEF ScPool, IInv, TypeOK, ScWorker, Pools!Key
    <3>3. entry \in Pools!Entry
      BY <3>1, <3>2 DEF Pools!Entry
    <3>4. new = [scW.data EXCEPT ![k] = entry]
      BY DEF ScChanged
    <3> HIDE DEF entry
    <3>5. new \in Pools!Content
      BY <3>1, <3>3, <3>4 DEF Pools!Content
    <3>6. ASSUME NEW f \in Cluster PROVE Has(Live(cm), f) <=> Has(new, f)
      <4>1. f \in Pools!Key /\ Live(cm) # None /\ new # None
        BY <3>1, <3>5, NoneAssumption DEF Pools!Key
      <4>2. CASE f = k
        BY <3>1, <3>3, <3>4, <4>1, <4>2, NoneAssumption DEF Has, Pools!Content
      <4>3. CASE f # k
        BY <3>1, <3>4, <4>1, <4>3 DEF Has, Pools!Content
      <4> QED BY <4>2, <4>3
    <3> HIDE DEF new
    <3>7. PutCm(new) /\ fscW' = [fscW EXCEPT !.cur = StillLive(@, new)]
      BY <2>3 DEF ScPutCm, new
    <3>8. Live(cm') = new
      BY <3>1, <3>5, <3>7, PutCmLive DEF CmVersion
    <3>9. CmQuiet
      BY <3>1, <3>5, <3>6, <3>7, <3>8, PutKeeps DEF CmQuiet, HasEntry, Has
    <3>10. SameWork
      BY <3>7 DEF SameWork, IInv, TypeOK, FscWorker
    <3> QED BY <2>1, <3>9, <3>10 DEF Quiet
  <2> QED BY <1>2, <2>2, <2>3 DEF ScUpdate, ScConflict
<1> QED BY <1>1, <1>2 DEF ScWork

\* The other steps: events of other objects, users' writes of other objects.
OtherStep == \/ \E s \in StorageClass : DeliverSc(s) \/ CreateSc(s) \/ TerminateSc(s) \/ DeleteSc(s)
             \/ \E x \in Secret : DeliverSecret(x) \/ SetSecret(x) \/ DeleteSecret(x)
             \/ DeliverCm \/ DeleteCm
             \/ UNCHANGED vars

\* They leave the clusters and the worker alone.
LEMMA OtherQuiet == ASSUME IInv, OtherStep PROVE Quiet
<1>1. cm \in Log(CmVersion) /\ fscW \in FscWorker
  BY DEF IInv, TypeOK, CmVersion
<1>2. CASE UNCHANGED vars
  BY <1>2, CmSame DEF vars, Quiet, SameWork
<1>3. ASSUME NEW s \in StorageClass, CreateSc(s) \/ TerminateSc(s) \/ DeleteSc(s) PROVE Quiet
  BY <1>3, CmSame DEF CreateSc, TerminateSc, DeleteSc, UserPutsSc, UserOp, Quiet, SameWork
<1>4. ASSUME NEW x \in Secret, SetSecret(x) \/ DeleteSecret(x) PROVE Quiet
  BY <1>4, CmSame DEF SetSecret, DeleteSecret, UserPutsSecret, UserOp, Quiet, SameWork
<1>5. ASSUME NEW s \in StorageClass, DeliverSc(s) PROVE Quiet
  BY <1>5, CmSame DEF DeliverSc, Quiet, SameWork
<1>6. ASSUME NEW x \in Secret, DeliverSecret(x) PROVE Quiet
  BY <1>6, CmSame DEF DeliverSecret, Quiet, SameWork
<1>7. CASE DeliverCm
  <2>1. cm' = Tail(cm) /\ ~Synced(cm) /\ (cm[2] = None => CachedFscs \subseteq fscQ')
    BY <1>7 DEF DeliverCm
  <2>2. Live(cm') = Live(cm)
    BY <1>1, <2>1, LogTail
  <2>3. \A f \in Cluster : HasEntry(f)' <=> HasEntry(f)
    BY <2>2 DEF HasEntry
  <2>4. \A f \in Cluster : Stays(cm, f) => Stays(cm', f)
    BY <1>1, <2>1, StaysTail
  <2>5. Coming(cm) => Coming(cm') \/ CachedFscs \subseteq fscQ'
    BY <1>1, <2>1, ComingTail
  <2>6. CmQuiet
    BY <2>3, <2>4, <2>5 DEF CmQuiet
  <2> QED BY <1>7, <2>6 DEF DeliverCm, Quiet, SameWork
<1>8. CASE DeleteCm
  <2>1. cm' = Append(cm, None) /\ UNCHANGED <<fsc, fscQ>> /\ fscW' = [fscW EXCEPT !.cur = FALSE]
    BY <1>8 DEF DeleteCm, UserOp
  <2>2. Live(cm') = None /\ Coming(cm')
    BY <1>1, <2>1, LogAppend, ComingAppend DEF CmVersion
  <2>3. \A f \in Cluster : Stays(cm, f) => Stays(cm', f)
    BY <1>1, <2>1, StaysAppend
  <2>4. CmQuiet
    BY <2>2, <2>3 DEF CmQuiet, HasEntry
  <2>5. SameWork
    BY <1>1, <2>1 DEF SameWork, FscWorker
  <2> QED BY <2>1, <2>4, <2>5 DEF Quiet
<1> QED BY <1>2, <1>3, <1>4, <1>5, <1>6, <1>7, <1>8 DEF OtherStep

----------------------------------------------------------------------------
(* The steps of the reconciler's worker, by what they do to the entries.   *)

\* The worker is past Get and adds the entry of f, or fails and queues f.
WillAdd(f) == /\ fscW.req = f
              /\ \/ fscW.pc \in {"finalizer", "secret", "getCm"}
                 \/ fscW.pc \in {"pools", "entry"} /\ fscW.data[f] = None

Removing == fscW.pc \in {"rmGetCm", "rmEntry"}

\* An error: the cluster is queued again.
GivesUp == /\ fscW.pc # "idle"
           /\ FscReturn(TRUE)
           /\ UNCHANGED <<fsc, cm>>

\* The end of a reconcile that found, or added, the entry.
Stops == /\ fscW.pc = "status"
         /\ FscReturn(FALSE)
         /\ UNCHANGED <<fsc, cm>>

\* The next step with the same cluster; an entry that comes is that cluster's.
GoesOn ==
    /\ UNCHANGED <<fsc, fscQ>>
    /\ fscW.pc # "idle" /\ fscW'.pc # "idle"
    /\ fscW'.req = fscW.req /\ fscW'.instCur = fscW.instCur
    /\ Removing' <=> Removing
    /\ \A f \in Cluster :
         /\ Stays(cm, f) => Stays(cm', f)
         /\ Coming(cm) => Coming(cm')
         /\ HasEntry(f) => HasEntry(f)'
         /\ HasEntry(f)' => HasEntry(f) \/ (f = fscW.req /\ ~Removing)
         /\ Stays(cm, f) /\ WillAdd(f) => WillAdd(f)' \/ HasEntry(f)' \/ Coming(cm')

\* The entry of the cluster is removed.
Removes ==
    /\ UNCHANGED fsc
    /\ fscW.pc = "rmEntry" /\ fscW' = FscIdle
    /\ fscQ \subseteq fscQ' /\ fscQ' \subseteq fscQ \cup {fscW.req}
    /\ \A f \in Cluster :
         IF f = fscW.req THEN ~HasEntry(f)'
         ELSE /\ Stays(cm, f) => Stays(cm', f)
              /\ Coming(cm) => Coming(cm')
              /\ HasEntry(f)' <=> HasEntry(f)

\* A step of the worker that leaves the ConfigMap alone.
LEMMA GotoGoesOn ==
    ASSUME IInv, NEW to \in {"getCm", "entry", "status"}, FscGoto(to), UNCHANGED <<fsc, cm>>,
           fscW.pc \in {"secret", "pools", "entry"},
           \A f \in Cluster : WillAdd(f) => to = "getCm" \/ (to = "entry" /\ fscW.data[f] = None)
    PROVE  GoesOn
<1>1. /\ fscW'.pc = to /\ fscW'.req = fscW.req /\ fscW'.instCur = fscW.instCur
      /\ fscW'.data = fscW.data /\ UNCHANGED fscQ
  BY DEF FscGoto, IInv, TypeOK, FscWorker
<1>2. \A f \in Cluster : WillAdd(f) => WillAdd(f)'
  BY <1>1 DEF WillAdd
<1> QED BY <1>1, <1>2 DEF GoesOn, HasEntry, Removing

\* A read of the ConfigMap, or its creation.
LEMMA GetCreateKinds == ASSUME IInv, GetCreateConfigmap PROVE GivesUp \/ GoesOn
<1> DEFINE to == IF fscW.pc = "getCm" THEN "pools" ELSE "rmEntry"
<1>1. cm \in Log(CmVersion) /\ fscW \in FscWorker /\ fscW.pc \in {"getCm", "rmGetCm"} /\ UNCHANGED fsc
  BY DEF IInv, TypeOK, CmVersion, GetCreateConfigmap
<1>2. CASE FscReturn(TRUE) /\ UNCHANGED cm
  BY <1>1, <1>2 DEF GivesUp
<1>3. ASSUME NEW data, NEW cur,
             fscW' = [fscW EXCEPT !.pc = to, !.data = data, !.cur = cur], UNCHANGED fscQ,
             \A f \in Cluster : /\ Stays(cm, f) => Stays(cm', f)
                                /\ Coming(cm) => Coming(cm')
                                /\ HasEntry(f)' <=> HasEntry(f)
                                /\ Stays(cm, f) /\ data[f] # None => HasEntry(f) \/ Coming(cm)
      PROVE  GoesOn
  <2>1. /\ fscW'.pc = to /\ fscW'.req = fscW.req /\ fscW'.instCur = fscW.instCur
        /\ fscW'.data = data
    BY <1>1, <1>3 DEF FscWorker
  <2>2. \A f \in Cluster : Stays(cm, f) /\ WillAdd(f) => WillAdd(f)' \/ HasEntry(f)' \/ Coming(cm')
    BY <1>1, <1>3, <2>1 DEF WillAdd
  <2>3. fscW.pc # "idle" /\ fscW'.pc # "idle" /\ (Removing' <=> Removing)
    BY <1>1, <2>1 DEF Removing
  <2> HIDE DEF to
  <2> QED BY <1>1, <1>3, <2>1, <2>2, <2>3 DEF GoesOn
<1>4. CASE /\ Cached(cm) # None /\ UNCHANGED <<cm, fscQ>>
           /\ fscW' = [fscW EXCEPT !.pc = to, !.data = Cached(cm), !.cur = Synced(cm)]
  <2>1. \A f \in Cluster : Stays(cm, f) /\ Cached(cm)[f] # None => HasEntry(f) \/ Coming(cm)
    BY <1>1, <1>4, CachedEntry DEF Has, HasEntry
  <2>2. \A f \in Cluster : HasEntry(f)' <=> HasEntry(f)
    BY <1>4 DEF HasEntry
  <2> HIDE DEF to
  <2> QED BY <1>3, <1>4, <2>1, <2>2
<1>5. CASE /\ Live(cm) = None /\ PutCm(Pools!EmptyMap) /\ UNCHANGED fscQ
           /\ fscW' = [fscW EXCEPT !.pc = to, !.data = Pools!EmptyMap, !.cur = TRUE]
  <2>1. Live(cm') = Pools!EmptyMap /\ \A f \in Cluster : Pools!EmptyMap[f] = None
    BY <1>1, <1>5, PutCmLive, EmptyMapContent DEF CmVersion, Pools!EmptyMap, Pools!Key
  <2>2. \A f \in Cluster : ~HasEntry(f) /\ ~HasEntry(f)'
    BY <1>5, <2>1 DEF HasEntry
  <2>3. \A f \in Cluster : (Stays(cm, f) => Stays(cm', f)) /\ (Coming(cm) => Coming(cm'))
    BY <1>1, <1>5, EmptyMapContent, PutKeeps DEF Has
  <2> HIDE DEF to
  <2> QED BY <1>3, <1>5, <2>1, <2>2, <2>3
<1> QED BY <1>1, <1>2, <1>4, <1>5 DEF GetCreateConfigmap

\* An accepted Update before the status: of the legacy key or the entry.
LEMMA PutGoesOn ==
    ASSUME IInv, fscW.pc \in {"pools", "entry"}, NEW to \in {"entry", "status"},
           NEW k \in Pools!Key, NEW e \in Pools!Entry \cup {None},
           (k = PoolsKey /\ to = "entry") \/ (k = fscW.req /\ to = "status" /\ e # None),
           FscPutCm([fscW.data EXCEPT ![k] = e]), UNCHANGED <<fsc, fscQ>>,
           fscW' = [fscW EXCEPT !.pc = to, !.data = [fscW.data EXCEPT ![k] = e]]
    PROVE  GoesOn
<1> DEFINE new == [fscW.data EXCEPT ![k] = e]
<1>1. /\ cm \in Log(CmVersion) /\ fscW \in FscWorker /\ fscW.data \in Pools!Content
      /\ fscW.data = Live(cm) /\ fscW.req \in Cluster
  BY DEF IInv, TypeOK, CmVersion, WorkersHold, CopiesLive, FscPutCm
<1>2. new \in Pools!Content
  BY <1>1 DEF Pools!Content
<1>3. new # None /\ Live(cm) # None
  BY <1>1, <1>2, NoneAssumption
<1>4. ASSUME NEW f \in Cluster
      PROVE  /\ Has(Live(cm), f) => Has(new, f)
             /\ Has(new, f) => Has(Live(cm), f) \/ f = fscW.req
             /\ f = fscW.req /\ to = "status" => Has(new, f)
             /\ to = "entry" => new[f] = fscW.data[f]
  <2>1. f \in Pools!Key /\ f # PoolsKey
    BY ConstantsAssumption DEF Pools!Key
  <2>2. new[f] = IF f = k THEN e ELSE fscW.data[f]
    BY <1>1, <2>1 DEF Pools!Content
  <2> HIDE DEF new
  <2> QED BY <1>1, <1>3, <2>1, <2>2 DEF Has
<1>5. fscW' = [fscW EXCEPT !.pc = to, !.data = new] /\ PutCm(new)
  BY DEF FscPutCm
<1> HIDE DEF new
<1>6. Live(cm') = new
  BY <1>1, <1>2, <1>5, PutCmLive DEF CmVersion
<1>7. \A f \in Cluster : (Stays(cm, f) => Stays(cm', f)) /\ (Coming(cm) => Coming(cm'))
  BY <1>1, <1>2, <1>4, <1>5, PutKeeps
<1>8. \A f \in Cluster : (HasEntry(f) <=> Has(Live(cm), f)) /\ (HasEntry(f)' <=> Has(new, f))
  BY <1>6 DEF HasEntry, Has
<1>9. /\ fscW'.pc = to /\ fscW'.req = fscW.req /\ fscW'.instCur = fscW.instCur
      /\ fscW'.data = new
  BY <1>1, <1>5 DEF FscWorker
<1>10. \A f \in Cluster : WillAdd(f) => WillAdd(f)' \/ HasEntry(f)'
  BY <1>4, <1>8, <1>9 DEF WillAdd
<1>11. fscW.pc # "idle" /\ fscW'.pc # "idle" /\ ~Removing /\ ~Removing'
  BY <1>9 DEF Removing
<1> QED BY <1>4, <1>7, <1>8, <1>9, <1>10, <1>11 DEF GoesOn

\* The legacy key is dropped.
LEMMA DropPoolsKinds == ASSUME IInv, FscDropPools PROVE GivesUp \/ GoesOn
<1>1. fscW.pc = "pools" /\ UNCHANGED fsc /\ PoolsKey \in Pools!Key
  BY DEF FscDropPools, Pools!Key
<1>2. CASE FscGoto("entry") /\ UNCHANGED cm
  BY <1>1, <1>2, GotoGoesOn DEF WillAdd
<1>3. CASE FscUpdateCm([fscW.data EXCEPT ![PoolsKey] = None], "entry")
  <2>1. CASE FscConflict
    BY <1>1, <2>1 DEF FscConflict, GivesUp
  <2>2. CASE /\ FscPutCm([fscW.data EXCEPT ![PoolsKey] = None]) /\ UNCHANGED fscQ
             /\ fscW' = [fscW EXCEPT !.pc = "entry", !.data = [fscW.data EXCEPT ![PoolsKey] = None]]
    BY <1>1, <2>2, PutGoesOn
  <2> QED BY <1>3, <2>1, <2>2 DEF FscUpdateCm
<1> QED BY <1>2, <1>3 DEF FscDropPools

\* The entry is added.
LEMMA AddEntryKinds == ASSUME IInv, FscAddEntry PROVE GivesUp \/ GoesOn
<1> DEFINE entry == [secret |-> fscW.inst.secret, scs |-> Pools!NoPools]
<1>1. /\ fscW.pc = "entry" /\ UNCHANGED fsc /\ fscW.req \in Cluster /\ fscW.req \in Pools!Key
      /\ fscW.inst.secret \in Secret
  BY DEF FscAddEntry, IInv, WorkersHold, FscObject, Pools!Key
<1>2. CASE fscW.data[fscW.req] # None /\ FscGoto("status") /\ UNCHANGED cm
  BY <1>1, <1>2, GotoGoesOn DEF WillAdd
<1>3. CASE FscUpdateCm([fscW.data EXCEPT ![fscW.req] = entry], "status")
  <2>1. CASE FscConflict
    BY <1>1, <2>1 DEF FscConflict, GivesUp
  <2>2. CASE /\ FscPutCm([fscW.data EXCEPT ![fscW.req] = entry]) /\ UNCHANGED fscQ
             /\ fscW' = [fscW EXCEPT !.pc = "status", !.data = [fscW.data EXCEPT ![fscW.req] = entry]]
    <3>1. entry \in Pools!Entry
      BY <1>1 DEF Pools!Entry, Pools!NoPools
    <3>2. entry # None
      BY <3>1, NoneAssumption
    <3> HIDE DEF entry
    <3> QED BY <1>1, <2>2, <3>1, <3>2, PutGoesOn
  <2> QED BY <1>3, <2>1, <2>2 DEF FscUpdateCm
<1> QED BY <1>2, <1>3 DEF FscAddEntry

\* The entry is removed.
LEMMA RemoveKinds == ASSUME IInv, FscRemoveEntry PROVE GivesUp \/ Removes
<1> DEFINE new == [fscW.data EXCEPT ![fscW.req] = None]
<1>1. /\ fscW.pc = "rmEntry" /\ UNCHANGED fsc /\ fscW.req \in Cluster
      /\ fscW.data \in Pools!Content /\ cm \in Log(CmVersion)
  BY DEF FscRemoveEntry, IInv, TypeOK, CmVersion, WorkersHold
<1>2. CASE FscConflict
  BY <1>1, <1>2 DEF FscConflict, GivesUp
<1>3. CASE FscPutCm(new) /\ FscReturn(fscW.inst # None)
  <2>1. PutCm(new) /\ fscW.data = Live(cm)
    BY <1>3 DEF FscPutCm, IInv, CopiesLive
  <2>2. new \in Pools!Content
    BY <1>1 DEF Pools!Content
  <2>3. new # None /\ Live(cm) # None
    BY <1>1, <2>1, <2>2, NoneAssumption
  <2>4. ASSUME NEW f \in Cluster
        PROVE  /\ f # fscW.req => (Has(new, f) <=> Has(Live(cm), f))
               /\ f = fscW.req => ~Has(new, f)
    <3>1. new[f] = IF f = fscW.req THEN None ELSE fscW.data[f]
      BY <1>1 DEF Pools!Content, Pools!Key
    <3> HIDE DEF new
    <3> QED BY <2>1, <2>3, <3>1 DEF Has
  <2> HIDE DEF new
  <2>5. Live(cm') = new
    BY <1>1, <2>1, <2>2, PutCmLive DEF CmVersion
  <2>6. ASSUME NEW f \in Cluster, f # fscW.req
        PROVE  (Stays(cm, f) => Stays(cm', f)) /\ (Coming(cm) => Coming(cm'))
    BY <1>1, <2>1, <2>2, <2>4, <2>6, PutKeeps
  <2>7. \A f \in Cluster : (HasEntry(f) <=> Has(Live(cm), f)) /\ (HasEntry(f)' <=> Has(new, f))
    BY <2>5 DEF HasEntry, Has
  <2>8. fscW' = FscIdle /\ fscQ \subseteq fscQ' /\ fscQ' \subseteq fscQ \cup {fscW.req}
    BY <1>3 DEF FscReturn
  <2> QED BY <1>1, <2>4, <2>6, <2>7, <2>8 DEF Removes
<1> QED BY <1>2, <1>3 DEF FscRemoveEntry

\* The Update of the finalizer is accepted.
Finalizes == FscUpdateFinalizer /\ fscW.instCur

\* Every step of the worker is of one of these kinds.
LEMMA WorkKinds ==
    ASSUME IInv, FscWork
    PROVE  GivesUp \/ Stops \/ GoesOn \/ Removes \/ Finalizes
<1>1. CASE FscUpdateFinalizer
  BY <1>1 DEF FscUpdateFinalizer, Finalizes, GivesUp
<1>2. CASE FscEnsureSecret
  <2>1. CASE FscReturn(TRUE)
    BY <1>2, <2>1 DEF FscEnsureSecret, GivesUp, objects
  <2>2. CASE FscGoto("getCm")
    <3>1. fscW.pc = "secret" /\ UNCHANGED <<fsc, cm>>
      BY <1>2 DEF FscEnsureSecret, objects
    <3> QED BY <2>2, <3>1, GotoGoesOn
  <2> QED BY <1>2, <2>1, <2>2 DEF FscEnsureSecret
<1>3. CASE FscUpdateStatus
  <2>1. fscW.instCur \in BOOLEAN
    BY DEF IInv, TypeOK, FscWorker
  <2>2. FscReturn(TRUE) \/ FscReturn(FALSE)
    BY <1>3, <2>1 DEF FscUpdateStatus
  <2> QED BY <1>3, <2>2 DEF FscUpdateStatus, GivesUp, Stops, objects
<1> QED BY <1>1, <1>2, <1>3, GetCreateKinds, DropPoolsKinds, AddEntryKinds, RemoveKinds DEF FscWork

----------------------------------------------------------------------------
(* The logs of the clusters, and the copy the worker holds.                *)

\* No cluster that is marked as deleted is without a finalizer.
Marked == {o \in FscObject \cup {None} : o # None => (o.del => o.fin)}

\* A cluster whose live version the worker holds is there.
CopyThere ==
    fscW.pc \notin {"idle", "rmGetCm", "rmEntry"} /\ fscW.instCur => Live(fsc[fscW.req]) # None

BInv == IInv /\ fsc \in [Cluster -> Log(Marked)] /\ CopyThere

\* A write by a user; a cluster is created only where there is none.
UserPuts(f, v) ==
    /\ Puts(fsc', fsc, f, v)
    /\ UNCHANGED <<cm, fscQ>>
    /\ fscW'.pc = fscW.pc /\ fscW'.req = fscW.req /\ fscW'.data = fscW.data
    /\ fscW'.instCur = (fscW.instCur /\ fscW.req # f)
    /\ v # None /\ Live(fsc[f]) = None => NameReuse \/ Forgotten(f)

\* The users' steps on clusters are such writes.
LEMMA UserFscKinds ==
    ASSUME BInv, NEW f \in Cluster, CreateFsc(f) \/ DeleteFsc(f) \/ UpdateFsc(f)
    PROVE  \E v \in Marked : UserPuts(f, v)
<1>1. Live(fsc[f]) \in Marked /\ fscW \in FscWorker
  BY LogVersions DEF BInv, IInv, TypeOK
<1>2. ASSUME NEW v \in Marked, UserPutsFsc(f, v), UNCHANGED fscQ,
             v # None /\ Live(fsc[f]) = None => NameReuse \/ Forgotten(f)
      PROVE  UserPuts(f, v)
  <2>1. /\ fscW'.pc = fscW.pc /\ fscW'.req = fscW.req /\ fscW'.data = fscW.data
        /\ fscW'.instCur = (fscW.instCur /\ fscW.req # f)
    BY <1>1, <1>2 DEF UserPutsFsc, FscWorker
  <2> QED BY <1>2, <2>1 DEF UserPutsFsc, UserPuts, Puts
<1>3. CASE CreateFsc(f)
  <2>1. PICK v \in FscOptions(f) \ {None} : UserPutsFsc(f, v)
    BY <1>3 DEF CreateFsc
  <2>2. v \in Marked
    <3>1. v \in FscObject \cup {None}
      BY OptionTypes
    <3>2. ~v.del
      BY DEF FscOptions
    <3> QED BY <3>1, <3>2 DEF Marked
  <2> QED BY <1>2, <1>3, <2>1, <2>2 DEF CreateFsc, UserOp
<1>4. CASE DeleteFsc(f)
  <2> DEFINE o == Live(fsc[f])
             v == IF o.fin THEN [o EXCEPT !.del = TRUE] ELSE None
  <2>1. o \in FscObject /\ UserPutsFsc(f, v) /\ UNCHANGED fscQ /\ o # None
    BY <1>1, <1>4 DEF DeleteFsc, UserOp, Marked
  <2> HIDE DEF o
  <2>2. v \in Marked
    <3>1. CASE o.fin
      <4>1. v = [o EXCEPT !.del = TRUE]
        BY <3>1
      <4>2. v \in FscObject /\ v.fin
        BY <2>1, <3>1, <4>1 DEF FscObject
      <4> QED BY <4>2 DEF Marked
    <3>2. CASE ~o.fin
      BY <3>2 DEF Marked
    <3> QED BY <3>1, <3>2
  <2> HIDE DEF v
  <2> QED BY <1>2, <2>1, <2>2 DEF o
<1>5. CASE UpdateFsc(f)
  <2> DEFINE o == Live(fsc[f])
  <2>1. o \in FscObject /\ UNCHANGED fscQ /\ o # None /\ (o.del => o.fin)
    BY <1>1, <1>5 DEF UpdateFsc, UserOp, Marked
  <2>2. PICK x \in FscSecrets[f] : UserPutsFsc(f, [o EXCEPT !.secret = x])
    BY <1>5 DEF UpdateFsc
  <2>3. x \in Secret
    BY ConstantsAssumption
  <2> DEFINE v == [o EXCEPT !.secret = x]
  <2> HIDE DEF o
  <2>4. v \in FscObject /\ v.del = o.del /\ v.fin = o.fin
    BY <2>1, <2>3 DEF FscObject
  <2>5. UserPutsFsc(f, v)
    BY <2>2
  <2> HIDE DEF v
  <2>6. v \in Marked
    BY <2>1, <2>4 DEF Marked
  <2> QED BY <1>2, <2>1, <2>5, <2>6 DEF o
<1> QED BY <1>3, <1>4, <1>5

\* What an accepted Update of the finalizer does.
FinalizerPuts(v) ==
    /\ Puts(fsc', fsc, fscW.req, v)
    /\ UNCHANGED <<cm, fscQ>>
    /\ fscW'.req = fscW.req
    /\ IF v = None THEN fscW'.pc = "rmGetCm" /\ ~fscW'.instCur
       ELSE fscW'.pc = "secret" /\ fscW'.instCur = fscW.instCur

\* Only of a cluster that is there.
LEMMA FinalizerKinds ==
    ASSUME BInv, Finalizes
    PROVE  /\ fscW.pc = "finalizer" /\ fscW.req \in Cluster /\ Live(fsc[fscW.req]) # None
           /\ \E v \in Marked : FinalizerPuts(v)
<1>1. /\ fscW.pc = "finalizer" /\ fscW.instCur /\ fscW.req \in Cluster /\ fscW.inst \in FscObject
      /\ fscW \in FscWorker
  BY DEF Finalizes, FscUpdateFinalizer, BInv, IInv, TypeOK, WorkersHold
<1>2. Live(fsc[fscW.req]) # None
  BY <1>1 DEF BInv, CopyThere
<1>3. CASE fscW.inst.del
  <2>1. /\ fsc' = [fsc EXCEPT ![fscW.req] = Append(fsc[fscW.req], None)]
        /\ fscW' = [fscW EXCEPT !.pc = "rmGetCm", !.instCur = FALSE]
        /\ UNCHANGED <<cm, fscQ>>
    BY <1>1, <1>3 DEF Finalizes, FscUpdateFinalizer
  <2>2. fscW'.req = fscW.req /\ fscW'.pc = "rmGetCm" /\ ~fscW'.instCur
    BY <1>1, <2>1 DEF FscWorker
  <2>3. FinalizerPuts(None)
    BY <2>1, <2>2 DEF FinalizerPuts, Puts
  <2> QED BY <1>1, <1>2, <2>3 DEF Marked
<1>4. CASE ~fscW.inst.del
  <2> DEFINE v == [fscW.inst EXCEPT !.fin = TRUE]
  <2>1. v \in FscObject /\ v.fin
    BY <1>1 DEF FscObject
  <2>2. /\ fsc' = [fsc EXCEPT ![fscW.req] = Append(fsc[fscW.req], v)]
        /\ fscW' = [fscW EXCEPT !.pc = "secret", !.inst = v]
        /\ UNCHANGED <<cm, fscQ>>
    BY <1>1, <1>4 DEF Finalizes, FscUpdateFinalizer
  <2> HIDE DEF v
  <2>3. fscW'.req = fscW.req /\ fscW'.pc = "secret" /\ fscW'.instCur = fscW.instCur
    BY <1>1, <2>2 DEF FscWorker
  <2>4. v \in Marked /\ v # None
    BY <2>1, NoneAssumption DEF Marked
  <2>5. FinalizerPuts(v)
    BY <2>2, <2>3, <2>4 DEF FinalizerPuts, Puts
  <2> QED BY <1>1, <1>2, <2>4, <2>5
<1> QED BY <1>3, <1>4

\* Get of cluster f: what is in the cache decides between adding and removing.
Starts(f) ==
    /\ UNCHANGED <<fsc, cm>>
    /\ fscW.pc = "idle" /\ f \in fscQ
    /\ fscQ' = fscQ \ {f}
    /\ fscW'.req = f /\ fscW'.instCur = Synced(fsc[f])
    /\ IF Cached(fsc[f]) = None THEN fscW'.pc = "rmGetCm" ELSE fscW'.pc \in {"finalizer", "secret"}

\* No cluster is marked and without a finalizer, so a Get has these two outcomes.
LEMMA StartKinds == ASSUME BInv, NEW f \in Cluster, FscStart(f) PROVE Starts(f)
<1> DEFINE inst == Cached(fsc[f])
<1>1. inst \in Marked
  BY LogVersions DEF BInv
<1>2. inst # None => (inst.del => inst.fin) /\ inst.del \in BOOLEAN /\ inst.fin \in BOOLEAN
  BY <1>1 DEF Marked, FscObject
<1>3. fscW' = [FscIdle EXCEPT !.req = f, !.inst = inst, !.instCur = Synced(fsc[f]),
                              !.pc = IF inst = None THEN "rmGetCm"
                                     ELSE IF inst.del = inst.fin THEN "finalizer"
                                     ELSE IF inst.del THEN "rmGetCm" ELSE "secret"]
  BY DEF FscStart
<1> HIDE DEF inst
<1>4. /\ fscW'.req = f /\ fscW'.instCur = Synced(fsc[f])
      /\ fscW'.pc = IF inst = None THEN "rmGetCm"
                    ELSE IF inst.del = inst.fin THEN "finalizer"
                    ELSE IF inst.del THEN "rmGetCm" ELSE "secret"
  BY <1>3 DEF FscIdle
<1>5. IF inst = None THEN fscW'.pc = "rmGetCm" ELSE fscW'.pc \in {"finalizer", "secret"}
  BY <1>2, <1>4
<1> QED BY <1>4, <1>5 DEF FscStart, Starts, objects, inst

\* The events of the clusters.
Hears(f) ==
    /\ ~Synced(fsc[f])
    /\ Delivers(fsc', fsc, f)
    /\ fscQ' = fscQ \cup {f}
    /\ UNCHANGED <<cm, fscW>>

\* A restart: only the clusters that are there are queued.
Rereading ==
    /\ Rereads(fsc', fsc, Cluster)
    /\ cm' = <<Live(cm)>>
    /\ fscQ' = LiveFscs
    /\ fscW' = FscIdle
    /\ "restart" \in UserOps

\* Every step is one of these kinds.
LEMMA StepKinds ==
    ASSUME BInv, [Next]_vars
    PROVE  \/ \E f \in Cluster : Starts(f)
           \/ GivesUp \/ Stops \/ GoesOn \/ Removes \/ Finalizes
           \/ Quiet
           \/ \E f \in Cluster : Hears(f)
           \/ \E f \in Cluster, v \in Marked : UserPuts(f, v)
           \/ Rereading
<1>0. IInv
  BY DEF BInv
<1>1. CASE \E f \in Cluster : FscStart(f)
  BY <1>1, StartKinds
<1>2. CASE FscWork
  BY <1>0, <1>2, WorkKinds
<1>3. CASE (\E s \in StorageClass : ScStart(s)) \/ ScWork
  BY <1>0, <1>3, ScQuiet
<1>4. CASE Deliver
  <2>1. ASSUME NEW f \in Cluster, DeliverFsc(f) PROVE Hears(f)
    BY <2>1 DEF DeliverFsc, Hears, Delivers
  <2> QED BY <1>0, <1>4, <2>1, OtherQuiet DEF Deliver, OtherStep
<1>5. CASE Users
  BY <1>0, <1>5, UserFscKinds, OtherQuiet DEF Users, OtherStep
<1>6. CASE Restart
  BY <1>6 DEF Restart, RestartWith, Rereading, Rereads
<1>7. CASE Fault
  BY <1>7, CmSame DEF Fault, objects, GivesUp, Quiet, SameWork
<1>8. CASE UNCHANGED vars
  BY <1>0, <1>8, OtherQuiet DEF OtherStep
<1> QED BY <1>1, <1>2, <1>3, <1>4, <1>5, <1>6, <1>7, <1>8 DEF Next

\* It holds at the start.
LEMMA BaseInit == ASSUME Init PROVE BInv
<1>1. IInv
  BY InitInv
<1>2. ASSUME NEW f \in Cluster PROVE fsc[f] \in Log(Marked)
  <2>1. fsc \in [Cluster -> {<<o>> : o \in UNION {FscOptions(n) : n \in Cluster}}]
    BY DEF Init, Choices
  <2>2. PICK o \in UNION {FscOptions(n) : n \in Cluster} : fsc[f] = <<o>>
    BY <2>1
  <2>3. PICK n \in Cluster : o \in FscOptions(n)
    BY <2>2
  <2>4. o \in FscObject \cup {None} /\ (o # None => ~o.del)
    BY <2>3, OptionTypes DEF FscOptions
  <2>5. o \in Marked
    BY <2>4 DEF Marked
  <2> QED BY <2>2, <2>5, LogRestart
<1>3. fsc \in [Cluster -> Log(Marked)]
  <2>1. fsc \in [Cluster -> Log(FscObject \cup {None})]
    BY <1>1 DEF IInv, TypeOK
  <2> QED BY <1>2, <2>1
<1>4. CopyThere
  BY DEF CopyThere, Init, FscIdle
<1> QED BY <1>1, <1>3, <1>4 DEF BInv

\* Every step keeps it.
LEMMA BaseStep == ASSUME BInv, [Next]_vars PROVE BInv'
<1> USE DEF BInv
<1>1. IInv'
  BY StepInv
<1>2. SUFFICES fsc' \in [Cluster -> Log(Marked)] /\ CopyThere'
  BY <1>1
<1>3. ASSUME UNCHANGED fsc, fscW'.pc \in {"idle", "rmGetCm"} PROVE fsc' \in [Cluster -> Log(Marked)] /\ CopyThere'
  BY <1>3 DEF CopyThere
<1>4. ASSUME NEW f \in Cluster, Starts(f) PROVE fsc' \in [Cluster -> Log(Marked)] /\ CopyThere'
  <2>1. CASE Cached(fsc[f]) = None
    BY <1>3, <1>4, <2>1 DEF Starts
  <2>2. CASE Cached(fsc[f]) # None
    <3>1. Synced(fsc[f]) => Live(fsc[f]) # None
      BY <2>2, SyncedIsLive
    <3> QED BY <1>4, <3>1 DEF Starts, CopyThere
  <2> QED BY <2>1, <2>2
<1>5. CASE GivesUp \/ Stops \/ Removes
  BY <1>3, <1>5 DEF GivesUp, Stops, Removes, FscReturn, FscIdle
<1>6. CASE GoesOn
  BY <1>6 DEF GoesOn, CopyThere, Removing
<1>7. CASE Finalizes
  <2>1. PICK v \in Marked : FinalizerPuts(v)
    BY <1>7, FinalizerKinds
  <2>2. fscW.req \in Cluster /\ fscW'.req = fscW.req
    BY <1>7, <2>1, FinalizerKinds DEF FinalizerPuts
  <2>3. fsc' \in [Cluster -> Log(Marked)] /\ Live(fsc'[fscW.req]) = v
    BY <2>1, <2>2, PutFamily DEF FinalizerPuts
  <2> QED BY <2>1, <2>2, <2>3 DEF FinalizerPuts, CopyThere
<1>8. CASE Quiet
  BY <1>8 DEF Quiet, SameWork, CopyThere
<1>9. ASSUME NEW f \in Cluster, Hears(f) PROVE fsc' \in [Cluster -> Log(Marked)] /\ CopyThere'
  <2>1. fsc' \in [Cluster -> Log(Marked)] /\ \A g \in Cluster : Live(fsc'[g]) = Live(fsc[g])
    BY <1>9, TailFamily DEF Hears
  <2>2. fscW.pc # "idle" => fscW.req \in Cluster
    BY DEF IInv, WorkersHold
  <2> QED BY <1>9, <2>1, <2>2 DEF Hears, CopyThere
<1>10. ASSUME NEW f \in Cluster, NEW v \in Marked, UserPuts(f, v)
       PROVE  fsc' \in [Cluster -> Log(Marked)] /\ CopyThere'
  <2>1. fsc' \in [Cluster -> Log(Marked)] /\ \A g \in Cluster \ {f} : fsc'[g] = fsc[g]
    BY <1>10, PutFamily DEF UserPuts
  <2>2. fscW.pc # "idle" => fscW.req \in Cluster
    BY DEF IInv, WorkersHold
  <2> QED BY <1>10, <2>1, <2>2 DEF UserPuts, CopyThere
<1>11. CASE Rereading
  <2>1. fsc' \in [Cluster -> Log(Marked)]
    BY <1>11, RestartFamily DEF Rereading
  <2> QED BY <1>11, <2>1 DEF Rereading, CopyThere, FscIdle
<1> QED BY <1>4, <1>5, <1>6, <1>7, <1>8, <1>9, <1>10, <1>11, StepKinds

----------------------------------------------------------------------------
(* A name is not used again before the operator has forgotten it.          *)

\* No cluster comes back behind a deletion that has not arrived.
NoReturn(log) == \A i \in 2..Len(log) : log[i] = None => Live(log) = None

\* What the operator does not know of is not queued and not in work.
NewIsUnknown ==
    \A f \in Cluster : Cached(fsc[f]) = None /\ Live(fsc[f]) # None => f \notin fscQ /\ fscW.req # f

\* Only the entry of a cluster that is gone is removed.
RemovesDead == Removing => Live(fsc[fscW.req]) = None

RInv == /\ BInv
        /\ \A f \in Cluster : NoReturn(fsc[f])
        /\ NewIsUnknown
        /\ RemovesDead

\* A write that creates nothing where events are on their way.
LEMMA NoReturnAppend ==
    ASSUME NEW V, NEW log \in Log(V), NEW v, NoReturn(log),
           v # None /\ Live(log) = None => Synced(log)
    PROVE  NoReturn(Append(log, v))
<1> DEFINE new == Append(log, v)
<1>1. /\ Len(log) \in Nat \ {0} /\ Len(new) = Len(log) + 1
      /\ \A i \in 1..Len(log) : new[i] = log[i]
      /\ new[Len(log) + 1] = v
  BY AppendIs
<1> HIDE DEF new
<1>2. Live(new) = v
  BY <1>1 DEF Live
<1> SUFFICES ASSUME NEW i \in 2..Len(new), new[i] = None, v # None PROVE FALSE
  BY <1>2 DEF NoReturn, new
<1>3. i \in 2..Len(log) /\ log[i] = None
  BY <1>1
<1>4. Live(log) = None
  BY <1>3 DEF NoReturn
<1>5. Len(log) = 1
  BY <1>4 DEF Synced
<1> QED BY <1>3, <1>5

\* A watch event.
LEMMA NoReturnTail ==
    ASSUME NEW V, NEW log \in Log(V), ~Synced(log), NoReturn(log)
    PROVE  NoReturn(Tail(log)) /\ (log[2] = None => Live(log) = None)
<1> DEFINE new == Tail(log)
<1>1. /\ Len(log) \in Nat /\ Len(log) > 1 /\ Len(new) = Len(log) - 1
      /\ \A i \in 1..Len(log) - 1 : new[i] = log[i + 1]
  BY TailIs
<1>2. Live(new) = Live(log)
  BY LogTail
<1> HIDE DEF new
<1>3. ASSUME NEW i \in 2..Len(new), new[i] = None PROVE Live(log) = None
  <2>1. i \in 1..Len(log) - 1 /\ i + 1 \in 2..Len(log)
    BY <1>1
  <2>2. log[i + 1] = None
    BY <1>1, <1>3, <2>1
  <2> QED BY <2>1, <2>2 DEF NoReturn
<1>4. 2 \in 2..Len(log)
  BY <1>1
<1> QED BY <1>2, <1>3, <1>4 DEF NoReturn, new

\* A log of one version.
LEMMA NoReturnOne == ASSUME NEW log, Len(log) = 1 PROVE NoReturn(log)
BY DEF NoReturn

\* It holds at the start.
LEMMA NamesInit == ASSUME Init PROVE RInv
<1>1. BInv
  BY BaseInit
<1>2. ASSUME NEW f \in Cluster PROVE Len(fsc[f]) = 1 /\ Cached(fsc[f]) = Live(fsc[f])
  <2>1. PICK o : fsc[f] = <<o>>
    BY DEF Init, Choices
  <2> QED BY <2>1 DEF Cached, Live
<1>3. RemovesDead
  BY DEF RemovesDead, Removing, Init, FscIdle
<1> QED BY <1>1, <1>2, <1>3, NoReturnOne DEF RInv, NewIsUnknown

\* Every step keeps it, when names are not reused.
LEMMA NamesStep == ASSUME ~NameReuse, RInv, [Next]_vars PROVE RInv'
<1>0. BInv /\ BInv' /\ fsc \in [Cluster -> Log(Marked)]
  BY BaseStep DEF RInv, BInv
<1>w. fscW.pc # "idle" => fscW.req \in Cluster
  BY <1>0 DEF BInv, IInv, WorkersHold
<1> DEFINE Kept == (\A f \in Cluster : NoReturn(fsc'[f])) /\ NewIsUnknown' /\ RemovesDead'
<1>1. SUFFICES Kept
  BY <1>0 DEF RInv
<1>2. ASSUME NEW f \in Cluster, Starts(f) PROVE Kept
  <2>1. \A g \in Cluster : NoReturn(fsc'[g])
    BY <1>2 DEF Starts, RInv
  <2>2. NewIsUnknown'
    BY <1>2 DEF Starts, RInv, NewIsUnknown
  <2>3. RemovesDead'
    BY <1>2 DEF Starts, RInv, NewIsUnknown, RemovesDead, Removing
  <2> QED BY <2>1, <2>2, <2>3
<1>3. CASE GivesUp \/ Stops \/ Removes
  <2>1. /\ UNCHANGED fsc /\ fscW.pc # "idle" /\ fscQ' \subseteq fscQ \cup {fscW.req}
        /\ fscW'.req = None /\ fscW'.pc = "idle"
    BY <1>3 DEF GivesUp, Stops, Removes, FscReturn, FscIdle
  <2>2. NewIsUnknown'
    BY <2>1, SentinelAssumption DEF RInv, NewIsUnknown
  <2> QED BY <2>1, <2>2 DEF RInv, RemovesDead, Removing
<1>4. CASE GoesOn
  BY <1>4 DEF GoesOn, RInv, NewIsUnknown, RemovesDead
<1>5. CASE Finalizes
  <2>1. PICK v \in Marked : FinalizerPuts(v)
    BY <1>0, <1>5, FinalizerKinds
  <2>2. fscW.req \in Cluster /\ fscW'.req = fscW.req /\ Live(fsc[fscW.req]) # None /\ UNCHANGED fscQ
    BY <1>0, <1>5, <2>1, FinalizerKinds DEF FinalizerPuts
  <2>3. /\ fsc'[fscW.req] = Append(fsc[fscW.req], v) /\ Live(fsc'[fscW.req]) = v
        /\ \A g \in Cluster \ {fscW.req} : fsc'[g] = fsc[g]
        /\ \A g \in Cluster : Cached(fsc'[g]) = Cached(fsc[g])
    BY <1>0, <2>1, <2>2, PutFamily DEF FinalizerPuts
  <2>4. NoReturn(Append(fsc[fscW.req], v))
    BY <1>0, <2>2, NoReturnAppend DEF RInv
  <2>5. \A g \in Cluster : NoReturn(fsc'[g])
    BY <2>3, <2>4 DEF RInv
  <2>6. NewIsUnknown'
    BY <2>2, <2>3 DEF RInv, NewIsUnknown
  <2>7. RemovesDead'
    BY <2>1, <2>2, <2>3 DEF FinalizerPuts, RemovesDead, Removing
  <2> QED BY <2>5, <2>6, <2>7
<1>6. CASE Quiet
  <2>1. NewIsUnknown'
    BY <1>6 DEF Quiet, SameWork, RInv, NewIsUnknown, CachedFscs
  <2> QED BY <1>6, <2>1 DEF Quiet, SameWork, RInv, RemovesDead, Removing
<1>7. ASSUME NEW f \in Cluster, Hears(f) PROVE Kept
  <2>1. /\ fsc'[f] = Tail(fsc[f]) /\ Cached(fsc'[f]) = fsc[f][2]
        /\ \A g \in Cluster \ {f} : fsc'[g] = fsc[g]
        /\ \A g \in Cluster : Live(fsc'[g]) = Live(fsc[g])
    <3>1. fsc \in [Cluster -> Log(Marked)] /\ ~Synced(fsc[f]) /\ Delivers(fsc', fsc, f)
      BY <1>0, <1>7 DEF Hears
    <3>2. fsc'[f] = Tail(fsc[f])
      BY <3>1 DEF Delivers
    <3>3. Cached(Tail(fsc[f])) = fsc[f][2]
      BY <3>1, TailHead
    <3>4. \A g \in Cluster \ {f} : fsc'[g] = fsc[g]
      BY <3>1, TailFamily
    <3>5. \A g \in Cluster : Live(fsc'[g]) = Live(fsc[g])
      BY <3>1, TailFamily
    <3> QED BY <3>2, <3>3, <3>4, <3>5
  <2>2. NoReturn(Tail(fsc[f])) /\ (fsc[f][2] = None => Live(fsc[f]) = None)
    BY <1>0, <1>7, NoReturnTail DEF Hears, RInv
  <2>3. \A g \in Cluster : NoReturn(fsc'[g])
    BY <2>1, <2>2 DEF RInv
  <2>4. NewIsUnknown'
    BY <1>7, <2>1, <2>2 DEF Hears, RInv, NewIsUnknown
  <2>5. RemovesDead'
    BY <1>7, <1>w, <2>1 DEF Hears, RInv, RemovesDead, Removing
  <2> QED BY <2>3, <2>4, <2>5
<1>8. ASSUME NEW f \in Cluster, NEW v \in Marked, UserPuts(f, v) PROVE Kept
  <2>1. /\ fsc'[f] = Append(fsc[f], v) /\ Live(fsc'[f]) = v
        /\ \A g \in Cluster \ {f} : fsc'[g] = fsc[g]
        /\ \A g \in Cluster : Cached(fsc'[g]) = Cached(fsc[g])
    BY <1>0, <1>8, PutFamily DEF UserPuts
  <2>2. v # None /\ Live(fsc[f]) = None => Synced(fsc[f]) /\ f \notin fscQ /\ fscW.req # f
    BY <1>8 DEF UserPuts, Forgotten
  <2>3. NoReturn(Append(fsc[f], v))
    BY <1>0, <2>2, NoReturnAppend DEF RInv
  <2>4. \A g \in Cluster : NoReturn(fsc'[g])
    BY <2>1, <2>3 DEF RInv
  <2>5. NewIsUnknown'
    BY <1>8, <2>1, <2>2 DEF UserPuts, RInv, NewIsUnknown
  <2>6. RemovesDead'
    BY <1>8, <1>w, <2>1, <2>2 DEF UserPuts, RInv, RemovesDead, Removing
  <2> QED BY <2>4, <2>5, <2>6
<1>9. CASE Rereading
  <2>1. \A g \in Cluster : Cached(fsc'[g]) = Live(fsc'[g]) /\ Len(fsc'[g]) = 1
    BY <1>0, <1>9, RestartFamily DEF Rereading
  <2>2. \A g \in Cluster : NoReturn(fsc'[g])
    BY <2>1, NoReturnOne
  <2> QED BY <1>9, <2>1, <2>2 DEF Rereading, NewIsUnknown, RemovesDead, Removing, FscIdle
<1> QED BY <1>0, <1>2, <1>3, <1>4, <1>5, <1>6, <1>7, <1>8, <1>9, StepKinds

\* The entry of a cluster that is there goes only with the whole ConfigMap.
LEMMA StepKeepsEntry ==
    ASSUME RInv, [Next]_vars, NEW f \in Cluster,
           HasEntry(f), Live(fsc[f]) # None, Live(cm') # None
    PROVE  HasEntry(f)'
<1>0. BInv /\ cm \in Log(CmVersion)
  BY DEF RInv, BInv, IInv, TypeOK, CmVersion
<1>1. CASE UNCHANGED cm
  BY <1>1 DEF HasEntry
<1>2. CASE GivesUp \/ Stops \/ (\E g \in Cluster : Starts(g) \/ Hears(g))
  BY <1>1, <1>2 DEF GivesUp, Stops, Starts, Hears
<1>3. CASE GoesOn
  BY <1>3 DEF GoesOn
<1>4. CASE Removes
  BY <1>4 DEF Removes, RInv, RemovesDead, Removing
<1>5. CASE Finalizes
  BY <1>1, <1>5 DEF Finalizes, FscUpdateFinalizer
<1>6. CASE Quiet
  BY <1>6 DEF Quiet, CmQuiet
<1>7. CASE \E g \in Cluster, v \in Marked : UserPuts(g, v)
  BY <1>1, <1>7 DEF UserPuts
<1>8. CASE Rereading
  <2>1. Live(cm') = Live(cm)
    BY <1>0, <1>8, LogVersions, LogRestart DEF Rereading
  <2> QED BY <2>1 DEF HasEntry
<1> QED BY <1>0, <1>2, <1>3, <1>4, <1>5, <1>6, <1>7, <1>8, StepKinds

\* In every reachable state.
LEMMA NamesInvariant == ASSUME ~NameReuse PROVE Spec => []RInv
BY NamesInit, NamesStep, PTL DEF Spec

\* When names are not reused, the reconciler never removes the entry of a
\* cluster that is there: neither a cache that is behind, nor a worker that
\* was under way when the cluster changed, makes it take a live cluster for
\* one that is gone.
THEOREM EntryIsKept == ASSUME ~NameReuse PROVE Spec => EntryKept
<1>1. ASSUME RInv, [Next]_vars
      PROVE  [\A f \in Cluster : HasEntry(f) /\ Live(fsc[f]) # None /\ Live(cm') # None
                                 => HasEntry(f)']_vars
  BY <1>1, StepKeepsEntry
<1> QED BY <1>1, NamesInvariant, PTL DEF Spec, EntryKept

----------------------------------------------------------------------------
(* A cluster at rest has its entry.                                        *)

\* No cached or held copy of the ConfigMap has an entry of a live cluster that
\* the live ConfigMap does not have, unless its deletion is on its way.
EntriesStay == \A f \in Cluster : Live(fsc[f]) # None => Stays(cm, f)

\* A cluster without an entry is queued or has an event, or the worker adds the
\* entry, or the deletion of the ConfigMap is on its way and queues it.
ListedSoon ==
    \A f \in Cluster : Live(fsc[f]) # None /\ Synced(fsc[f]) /\ f \notin fscQ
                       => HasEntry(f) \/ Coming(cm) \/ WillAdd(f)

LInv == RInv /\ EntriesStay /\ ListedSoon

\* At the start every cluster is queued.
LEMMA ListedInit == ASSUME Init PROVE LInv
<1>1. RInv /\ fsc \in [Cluster -> Log(Marked)]
  BY NamesInit DEF RInv, BInv
<1>2. Len(cm) = 1 /\ cm[1] = Live(cm)
  <2>1. PICK m : cm = <<m>>
    BY DEF Init
  <2> QED BY <2>1 DEF Live
<1>3. EntriesStay
  BY <1>2 DEF EntriesStay, Stays
<1>4. ListedSoon
  <2> SUFFICES ASSUME NEW f \in Cluster, Live(fsc[f]) # None, Synced(fsc[f]) PROVE f \in fscQ
    BY DEF ListedSoon
  <2>1. Cached(fsc[f]) # None
    BY <1>1, SyncedIsLive
  <2> QED BY <2>1 DEF Init, CachedFscs
<1> QED BY <1>1, <1>3, <1>4 DEF LInv

\* Every step keeps it: what loses an entry queues its cluster.
LEMMA ListedStep == ASSUME ~NameReuse, LInv, [Next]_vars PROVE LInv'
<1>0. /\ RInv /\ RInv' /\ BInv /\ fsc \in [Cluster -> Log(Marked)] /\ cm \in Log(CmVersion)
  BY NamesStep DEF LInv, RInv, BInv, IInv, TypeOK, CmVersion
<1>w. fscW.pc # "idle" => fscW.req \in Cluster
  BY <1>0 DEF BInv, IInv, WorkersHold
<1>1. SUFFICES EntriesStay' /\ ListedSoon'
  BY <1>0 DEF LInv
<1>2. ASSUME NEW f \in Cluster, Starts(f) PROVE EntriesStay' /\ ListedSoon'
  <2>1. EntriesStay'
    BY <1>2 DEF Starts, LInv, EntriesStay
  <2>2. ASSUME NEW g \in Cluster, Live(fsc'[g]) # None, Synced(fsc'[g]), g \notin fscQ'
        PROVE  HasEntry(g)' \/ Coming(cm') \/ WillAdd(g)'
    <3>1. CASE g = f
      <4>1. Cached(fsc[f]) # None
        BY <1>0, <1>2, <2>2, <3>1, SyncedIsLive DEF Starts
      <4> QED BY <1>2, <3>1, <4>1 DEF Starts, WillAdd
    <3>2. CASE g # f
      BY <1>2, <2>2, <3>2 DEF Starts, LInv, ListedSoon, WillAdd, HasEntry
    <3> QED BY <3>1, <3>2
  <2> QED BY <2>1, <2>2 DEF ListedSoon
<1>3. CASE GivesUp \/ Stops
  <2>1. UNCHANGED <<fsc, cm>> /\ fscQ' \in {fscQ, fscQ \cup {fscW.req}}
        /\ (fscQ' = fscQ => fscW.pc = "status" \/ fscW.req \in fscQ)
    BY <1>3 DEF GivesUp, Stops, FscReturn
  <2>2. EntriesStay'
    BY <2>1 DEF LInv, EntriesStay
  <2>3. ListedSoon'
    BY <2>1 DEF LInv, ListedSoon, WillAdd, HasEntry
  <2> QED BY <2>2, <2>3
<1>4. CASE GoesOn
  <2>1. EntriesStay'
    BY <1>4 DEF GoesOn, LInv, EntriesStay
  <2>2. ListedSoon'
    BY <1>4 DEF GoesOn, LInv, EntriesStay, ListedSoon
  <2> QED BY <2>1, <2>2
<1>5. CASE Removes
  <2>1. Live(fsc[fscW.req]) = None
    BY <1>0, <1>5 DEF Removes, RInv, RemovesDead, Removing
  <2>2. EntriesStay'
    BY <1>5, <2>1 DEF Removes, LInv, EntriesStay
  <2>3. ListedSoon'
    BY <1>5, <2>1 DEF Removes, LInv, ListedSoon, WillAdd
  <2> QED BY <2>2, <2>3
<1>6. CASE Finalizes
  <2>1. PICK v \in Marked : FinalizerPuts(v)
    BY <1>0, <1>6, FinalizerKinds
  <2>2. fscW.req \in Cluster /\ Live(fsc[fscW.req]) # None /\ UNCHANGED <<cm, fscQ>>
    BY <1>0, <1>6, <2>1, FinalizerKinds DEF FinalizerPuts
  <2>3. ~Synced(fsc'[fscW.req]) /\ \A g \in Cluster \ {fscW.req} : fsc'[g] = fsc[g]
    BY <1>0, <2>1, <2>2, PutFamily DEF FinalizerPuts
  <2>4. EntriesStay'
    BY <2>2, <2>3 DEF LInv, EntriesStay
  <2>5. ListedSoon'
    BY <2>2, <2>3 DEF LInv, ListedSoon, WillAdd, HasEntry
  <2> QED BY <2>4, <2>5
<1>7. CASE Quiet
  <2>1. EntriesStay'
    BY <1>7 DEF Quiet, CmQuiet, LInv, EntriesStay
  <2>2. ASSUME NEW g \in Cluster, Live(fsc'[g]) # None, Synced(fsc'[g]), g \notin fscQ'
        PROVE  HasEntry(g)' \/ Coming(cm') \/ WillAdd(g)'
    <3>1. Live(fsc[g]) # None /\ Synced(fsc[g]) /\ g \notin fscQ
      BY <1>7, <2>2 DEF Quiet
    <3>2. g \in CachedFscs
      BY <1>0, <3>1, SyncedIsLive DEF CachedFscs
    <3>3. HasEntry(g) \/ Coming(cm) \/ WillAdd(g)
      BY <3>1 DEF LInv, ListedSoon
    <3>4. WillAdd(g) => WillAdd(g)'
      BY <1>7 DEF Quiet, SameWork, WillAdd
    <3> QED BY <1>7, <2>2, <3>2, <3>3, <3>4 DEF Quiet, CmQuiet
  <2> QED BY <2>1, <2>2 DEF ListedSoon
<1>8. ASSUME NEW f \in Cluster, Hears(f) PROVE EntriesStay' /\ ListedSoon'
  <2>1. fsc \in [Cluster -> Log(Marked)] /\ ~Synced(fsc[f]) /\ Delivers(fsc', fsc, f)
    BY <1>0, <1>8 DEF Hears
  <2>2. \A g \in Cluster \ {f} : fsc'[g] = fsc[g]
    BY <2>1, TailFamily
  <2>3. \A g \in Cluster : Live(fsc'[g]) = Live(fsc[g])
    BY <2>1, TailFamily
  <2>4. EntriesStay'
    BY <1>8, <2>3 DEF Hears, LInv, EntriesStay
  <2>5. ListedSoon'
    BY <1>8, <2>2 DEF Hears, LInv, ListedSoon, WillAdd, HasEntry
  <2> QED BY <2>4, <2>5
<1>9. ASSUME NEW f \in Cluster, NEW v \in Marked, UserPuts(f, v) PROVE EntriesStay' /\ ListedSoon'
  <2>1. /\ Live(fsc'[f]) = v /\ ~Synced(fsc'[f])
        /\ \A g \in Cluster \ {f} : fsc'[g] = fsc[g]
    BY <1>0, <1>9, PutFamily DEF UserPuts
  <2>2. v # None => Stays(cm, f)
    BY <1>9 DEF UserPuts, Forgotten, LInv, EntriesStay, Stays, Has
  <2>3. EntriesStay'
    BY <1>9, <2>1, <2>2 DEF UserPuts, LInv, EntriesStay
  <2>4. ListedSoon'
    BY <1>9, <2>1 DEF UserPuts, LInv, ListedSoon, WillAdd, HasEntry
  <2> QED BY <2>3, <2>4
<1>10. CASE Rereading
  <2>1. \A g \in Cluster : Live(fsc'[g]) = Live(fsc[g])
    BY <1>0, <1>10, RestartFamily DEF Rereading
  <2>2. Len(cm') = 1 /\ cm'[1] = Live(cm')
    BY <1>10 DEF Rereading, Live
  <2>3. EntriesStay'
    BY <2>2 DEF EntriesStay, Stays
  <2>4. ListedSoon'
    BY <1>10, <2>1 DEF Rereading, ListedSoon, LiveFscs
  <2> QED BY <2>3, <2>4
<1> QED BY <1>0, <1>2, <1>3, <1>4, <1>5, <1>6, <1>7, <1>8, <1>9, <1>10, StepKinds

\* When names are not reused, a cluster that is neither queued nor in work and
\* whose events and those of the ConfigMap have all arrived has its entry:
\* whatever conflict, failure, restart or deletion of the ConfigMap lost it has
\* queued the cluster again.
THEOREM LiveFscIsListed == ASSUME ~NameReuse PROVE Spec => []LiveFscListed
<1>1. ASSUME LInv PROVE LiveFscListed
  <2> SUFFICES ASSUME Synced(cm), NEW f \in Cluster, Live(fsc[f]) # None, FscAtRest(f)
               PROVE  HasEntry(f)
    BY DEF LiveFscListed
  <2>1. ~Coming(cm)
    BY DEF Coming, Synced
  <2>2. HasEntry(f) \/ WillAdd(f)
    BY <1>1, <2>1 DEF LInv, ListedSoon, FscAtRest
  <2> QED BY <2>2 DEF WillAdd, FscAtRest
<1>2. Init => LInv
  BY ListedInit
<1>3. LInv /\ [Next]_vars => LInv'
  BY ListedStep
<1> QED BY <1>1, <1>2, <1>3, PTL DEF Spec

----------------------------------------------------------------------------
(* A cluster that is gone has no entry.                                    *)

\* A worker that took a cluster for one that is there, and has not heard of its
\* deletion, will: the cluster has an event on its way, or is queued.
WorkSeen ==
    fscW.pc # "idle" /\ ~Removing /\ Live(fsc[fscW.req]) = None /\ Synced(fsc[fscW.req])
        => fscW.req \in fscQ

\* An entry of a cluster that is gone has a queued name, an event or the worker
\* after it.
ForgottenSoon ==
    \A f \in Cluster : Live(fsc[f]) = None /\ Synced(fsc[f]) /\ f \notin fscQ /\ HasEntry(f)
                       => fscW.req = f /\ Removing

DInv == BInv /\ WorkSeen /\ ForgottenSoon

\* The ConfigMap the operator first finds has no entry of a cluster.
LEMMA NothingAtStart == ASSUME Init PROVE \A f \in Cluster : ~HasEntry(f)
<1>1. CASE cm = <<None>>
  BY <1>1 DEF HasEntry, Live
<1>2. ASSUME NEW m, cm = <<[Pools!EmptyMap EXCEPT ![PoolsKey] = m]>> PROVE \A f \in Cluster : ~HasEntry(f)
  <2>1. Live(cm) = [Pools!EmptyMap EXCEPT ![PoolsKey] = m]
    BY <1>2 DEF Live
  <2>2. \A f \in Cluster : Live(cm)[f] = None
    BY <2>1, ConstantsAssumption DEF Pools!EmptyMap, Pools!Key
  <2> QED BY <2>2 DEF HasEntry
<1> QED BY <1>1, <1>2 DEF Init

\* At the start no cluster has an entry.
LEMMA ForgottenInit == ASSUME Init PROVE DInv
<1>1. BInv
  BY BaseInit
<1>2. WorkSeen
  BY DEF WorkSeen, Init, FscIdle
<1>3. \A f \in Cluster : ~HasEntry(f)
  BY NothingAtStart
<1> QED BY <1>1, <1>2, <1>3 DEF DInv, ForgottenSoon

\* Every step keeps it, but for a restart.
LEMMA ForgottenStep == ASSUME "restart" \notin UserOps, DInv, [Next]_vars PROVE DInv'
<1>0. BInv /\ BInv' /\ fsc \in [Cluster -> Log(Marked)]
  BY BaseStep DEF DInv, BInv
<1>w. fscW.pc # "idle" => fscW.req \in Cluster
  BY <1>0 DEF BInv, IInv, WorkersHold
<1>1. SUFFICES WorkSeen' /\ ForgottenSoon'
  BY <1>0 DEF DInv
<1>2. ASSUME NEW f \in Cluster, Starts(f) PROVE WorkSeen' /\ ForgottenSoon'
  <2>1. Synced(fsc[f]) => (Cached(fsc[f]) = Live(fsc[f]))
    BY <1>0, SyncedIsLive
  <2>2. WorkSeen'
    BY <1>2, <2>1 DEF Starts, WorkSeen, Removing
  <2>3. ForgottenSoon'
    BY <1>2, <2>1 DEF Starts, DInv, ForgottenSoon, Removing, HasEntry
  <2> QED BY <2>2, <2>3
<1>3. CASE GivesUp \/ Stops
  <2>1. /\ UNCHANGED <<fsc, cm>> /\ fscQ \subseteq fscQ' /\ fscW' = FscIdle
        /\ ~Removing \/ fscW.req \in fscQ'
    BY <1>3 DEF GivesUp, Stops, FscReturn, Removing
  <2>2. WorkSeen'
    BY <2>1 DEF WorkSeen, FscIdle
  <2>3. ForgottenSoon'
    BY <2>1 DEF DInv, ForgottenSoon, HasEntry
  <2> QED BY <2>2, <2>3
<1>4. CASE GoesOn
  <2>1. WorkSeen'
    BY <1>4 DEF GoesOn, DInv, WorkSeen
  <2>2. ForgottenSoon'
    BY <1>4 DEF GoesOn, DInv, WorkSeen, ForgottenSoon
  <2> QED BY <2>1, <2>2
<1>5. CASE Removes
  <2>1. WorkSeen'
    BY <1>5 DEF Removes, WorkSeen, FscIdle
  <2>2. ForgottenSoon'
    BY <1>5 DEF Removes, DInv, ForgottenSoon
  <2> QED BY <2>1, <2>2
<1>6. CASE Finalizes
  <2>1. PICK v \in Marked : FinalizerPuts(v)
    BY <1>0, <1>6, FinalizerKinds
  <2>2. fscW.req \in Cluster /\ fscW.pc = "finalizer" /\ UNCHANGED <<cm, fscQ>> /\ fscW'.req = fscW.req
    BY <1>0, <1>6, <2>1, FinalizerKinds DEF FinalizerPuts
  <2>3. ~Synced(fsc'[fscW.req]) /\ \A g \in Cluster \ {fscW.req} : fsc'[g] = fsc[g]
    BY <1>0, <2>1, <2>2, PutFamily DEF FinalizerPuts
  <2>4. WorkSeen'
    BY <2>2, <2>3 DEF WorkSeen
  <2>5. ForgottenSoon'
    BY <2>2, <2>3 DEF DInv, ForgottenSoon, HasEntry
  <2> QED BY <2>4, <2>5
<1>7. CASE Quiet
  <2>1. WorkSeen'
    BY <1>7 DEF Quiet, SameWork, DInv, WorkSeen, Removing
  <2>2. ForgottenSoon'
    BY <1>7 DEF Quiet, SameWork, CmQuiet, DInv, ForgottenSoon, Removing
  <2> QED BY <2>1, <2>2
<1>8. ASSUME NEW f \in Cluster, Hears(f) PROVE WorkSeen' /\ ForgottenSoon'
  <2>1. fsc \in [Cluster -> Log(Marked)] /\ ~Synced(fsc[f]) /\ Delivers(fsc', fsc, f)
    BY <1>0, <1>8 DEF Hears
  <2>2. \A g \in Cluster \ {f} : fsc'[g] = fsc[g]
    BY <2>1, TailFamily
  <2>3. WorkSeen'
    BY <1>8, <1>w, <2>2 DEF Hears, DInv, WorkSeen, Removing
  <2>4. ForgottenSoon'
    BY <1>8, <2>2 DEF Hears, DInv, ForgottenSoon, Removing, HasEntry
  <2> QED BY <2>3, <2>4
<1>9. ASSUME NEW f \in Cluster, NEW v \in Marked, UserPuts(f, v) PROVE WorkSeen' /\ ForgottenSoon'
  <2>1. ~Synced(fsc'[f]) /\ \A g \in Cluster \ {f} : fsc'[g] = fsc[g]
    BY <1>0, <1>9, PutFamily DEF UserPuts
  <2>2. WorkSeen'
    BY <1>9, <1>w, <2>1 DEF UserPuts, DInv, WorkSeen, Removing
  <2>3. ForgottenSoon'
    BY <1>9, <2>1 DEF UserPuts, DInv, ForgottenSoon, Removing, HasEntry
  <2> QED BY <2>2, <2>3
<1>10. ~Rereading
  BY DEF Rereading
<1> QED BY <1>0, <1>2, <1>3, <1>4, <1>5, <1>6, <1>7, <1>8, <1>9, <1>10, StepKinds

\* While the operator runs, a cluster that is gone and whose deletion has been
\* processed has no entry, whether or not its name is used again: a worker that
\* was adding the entry when the cluster went has its name queued again.  (After
\* a restart a cluster deleted meanwhile is in no queue: see the run
\* "pools_fsc_leak".)
THEOREM DeadFscIsForgotten ==
    ASSUME "restart" \notin UserOps
    PROVE  Spec => []DeadFscForgotten
<1>1. ASSUME DInv PROVE DeadFscForgotten
  BY <1>1 DEF DInv, ForgottenSoon, DeadFscForgotten, FscAtRest
<1>2. Init => DInv
  BY ForgottenInit
<1>3. DInv /\ [Next]_vars => DInv'
  BY ForgottenStep
<1> QED BY <1>1, <1>2, <1>3, PTL DEF Spec
=============================================================================
