---------------------------- MODULE ConsoleProofs ---------------------------
(***************************************************************************)
(* Proofs about ConsolePlugin, for any other plugins, steps of users, stops *)
(* and crashes: the types, that the operator only appends its name to the   *)
(* Console's list, and that the Service and the ConsolePlugin are there     *)
(* when nobody is at work on them.                                         *)
(***************************************************************************)
EXTENDS ConsolePlugin, VersionLogProofs

\* Once a version of the log is in S, all later ones are.
Stays(log, S) == \A i, j \in 1..Len(log) : i <= j /\ log[i] \in S => log[j] \in S

\* A Service that is owned, or was deleted, does not come back without its
\* owner; and what is not dirty has not been deleted since the cached version.
CacheTells ==
    /\ Stays(service, {"none", "owned"})
    /\ ~dirty => Stays(service, {"owned"}) /\ Stays(plugin, {TRUE})

\* What is missing is still ahead of a reconcile.  (The startup Runnable is no
\* help: it may fail while the process stops.)
ReconcileWill ==
    ~dirty => /\ Live(service) = "owned" \/ queued \/ pc["reconcile"] \in {"deployment", "service"}
              /\ Live(plugin) \/ queued \/ pc["reconcile"] # "idle"

IInv == TypeOK /\ CacheTells /\ ReconcileWill

Services == {"none", "unowned", "owned"}
Lists == {l \in Seq(Other \cup {Plugin}) : IsInjective(l)}

----------------------------------------------------------------------------
(* Logs.                                                                   *)

\* A version that S does not miss can be appended.
LEMMA StaysAppend ==
    ASSUME NEW V, NEW log \in Log(V), NEW v, NEW S,
           Stays(log, S), Live(log) \in S => v \in S
    PROVE  Stays(Append(log, v), S)
<1>1. /\ log \in Seq(V) /\ Len(log) \in Nat \ {0}
      /\ Len(Append(log, v)) = Len(log) + 1
      /\ \A i \in 1..Len(log) : Append(log, v)[i] = log[i]
      /\ Append(log, v)[Len(log) + 1] = v
  BY LogVersions DEF Log
<1>2. \A i \in 1..Len(log) : log[i] \in S => v \in S
  BY <1>1 DEF Stays, Live
<1> QED BY <1>1, <1>2 DEF Stays

\* The cache may take the next version.
LEMMA StaysTail ==
    ASSUME NEW V, NEW log \in Log(V), NEW S, ~Synced(log), Stays(log, S)
    PROVE  Stays(Tail(log), S)
<1>1. log \in Seq(V) /\ Len(log) \in Nat /\ Len(log) > 1
  BY LogVersions DEF Log, Synced
<1>2. /\ Len(Tail(log)) = Len(log) - 1
      /\ \A i \in 1..Len(log) - 1 : Tail(log)[i] = log[i + 1]
  BY <1>1
<1> QED BY <1>1, <1>2 DEF Stays

\* A single version stays.
LEMMA StaysOne ==
    ASSUME NEW V, NEW log \in Log(V), NEW S, Synced(log)
    PROVE  Stays(log, S)
BY DEF Stays, Synced

\* If the cached version is in S, the live one is.
LEMMA StaysLive ==
    ASSUME NEW V, NEW log \in Log(V), NEW S, Stays(log, S), Cached(log) \in S
    PROVE  Live(log) \in S
BY LogVersions DEF Stays, Live, Cached, Log

\* The type of the Console's log, in one piece.
LEMMA ConsoleLog ==
    ASSUME NEW c
    PROVE  c \in Log(Lists) <=>
              c \in Log(Seq(Other \cup {Plugin})) /\ \A i \in DOMAIN c : IsInjective(c[i])
<1> SUFFICES c \in Seq(Lists) <=>
                c \in Seq(Seq(Other \cup {Plugin})) /\ \A i \in DOMAIN c : IsInjective(c[i])
  BY DEF Log
<1>1. ASSUME c \in Seq(Lists)
      PROVE  c \in Seq(Seq(Other \cup {Plugin})) /\ \A i \in DOMAIN c : IsInjective(c[i])
  <2>1. \A i \in 1..Len(c) : c[i] \in Seq(Other \cup {Plugin}) /\ IsInjective(c[i])
    BY <1>1 DEF Lists
  <2> QED BY <1>1, <2>1
<1>2. ASSUME c \in Seq(Seq(Other \cup {Plugin})), \A i \in DOMAIN c : IsInjective(c[i])
      PROVE  c \in Seq(Lists)
  <2>1. \A i \in 1..Len(c) : c[i] \in Lists
    BY <1>2 DEF Lists
  <2> QED BY <1>2, <2>1
<1> QED BY <1>1, <1>2

\* A name that is not in the list can be appended.
LEMMA AppendName ==
    ASSUME NEW l \in Lists, NEW o \in Other \cup {Plugin}, ~IsContain(l, o)
    PROVE  Append(l, o) \in Lists
<1>1. /\ l \in Seq(Other \cup {Plugin}) /\ Len(l) \in Nat /\ DOMAIN l = 1..Len(l)
      /\ Append(l, o) \in Seq(Other \cup {Plugin})
      /\ DOMAIN Append(l, o) = 1..Len(l) + 1
      /\ \A i \in 1..Len(l) : Append(l, o)[i] = l[i]
      /\ Append(l, o)[Len(l) + 1] = o
  BY DEF Lists
<1>2. \A i \in 1..Len(l) : l[i] # o
  BY <1>1 DEF IsContain, Range
<1>3. \A i, j \in 1..Len(l) : l[i] = l[j] => i = j
  BY <1>1 DEF Lists, IsInjective
<1>4. IsInjective(Append(l, o))
  BY <1>1, <1>2, <1>3 DEF IsInjective
<1> QED BY <1>1, <1>4 DEF Lists

\* A name can be taken out.
LEMMA RemoveName ==
    ASSUME NEW l \in Lists, NEW i \in DOMAIN l
    PROVE  SubSeq(l, 1, i - 1) \o SubSeq(l, i + 1, Len(l)) \in Lists
<1> DEFINE a == SubSeq(l, 1, i - 1)
           b == SubSeq(l, i + 1, Len(l))
           r == a \o b
<1>1. /\ l \in Seq(Other \cup {Plugin}) /\ Len(l) \in Nat /\ i \in 1..Len(l)
  BY DEF Lists
<1>2. /\ a \in Seq(Other \cup {Plugin}) /\ Len(a) = i - 1
      /\ \A k \in 1..i - 1 : a[k] = l[k]
  BY <1>1, SubSeqProperties
<1>3. /\ b \in Seq(Other \cup {Plugin}) /\ Len(b) = Len(l) - i
      /\ \A k \in 1..Len(l) - i : b[k] = l[k + i]
  BY <1>1, SubSeqProperties
<1> HIDE DEF a, b
<1>4. /\ r \in Seq(Other \cup {Plugin}) /\ Len(r) = Len(l) - 1
      /\ \A k \in 1..Len(l) - 1 : r[k] = IF k < i THEN l[k] ELSE l[k + 1]
  <2>1. /\ r \in Seq(Other \cup {Plugin}) /\ Len(r) = Len(a) + Len(b)
        /\ \A k \in 1..Len(a) + Len(b) : r[k] = IF k <= Len(a) THEN a[k] ELSE b[k - Len(a)]
    BY <1>2, <1>3, ConcatProperties
  <2>2. Len(r) = Len(l) - 1
    BY <1>1, <1>2, <1>3, <2>1
  <2>3. ASSUME NEW k \in 1..Len(l) - 1
        PROVE  r[k] = IF k < i THEN l[k] ELSE l[k + 1]
    <3>0. /\ k \in Nat /\ 1 <= k /\ k <= Len(l) - 1
          /\ i \in Nat /\ 1 <= i /\ i <= Len(l) /\ Len(l) \in Nat
      BY <1>1
    <3>1. CASE k < i
      <4>1. k \in 1..i - 1 /\ k \in 1..Len(a) + Len(b) /\ k <= Len(a)
        BY <1>1, <1>2, <1>3, <3>1
      <4> QED BY <1>2, <2>1, <3>1, <4>1
    <3>2. CASE ~(k < i)
      <4>1. k - (i - 1) \in 1..Len(l) - i /\ (k - (i - 1)) + i = k + 1
        BY <3>0, <3>2
      <4>2. k \in 1..Len(a) + Len(b) /\ ~(k <= Len(a)) /\ Len(a) = i - 1
        BY <1>2, <1>3, <3>0, <3>2
      <4>3. b[k - (i - 1)] = l[k + 1]
        BY <1>3, <4>1
      <4> QED BY <2>1, <3>2, <4>2, <4>3
    <3> QED BY <3>1, <3>2
  <2> HIDE DEF r
  <2> QED BY <2>1, <2>2, <2>3
<1>5. \A j, k \in 1..Len(l) : l[j] = l[k] => j = k
  BY <1>1 DEF Lists, IsInjective
<1> HIDE DEF r
<1>6. IsInjective(r)
  BY <1>1, <1>4, <1>5 DEF IsInjective
<1>7. r \in Lists
  BY <1>4, <1>6 DEF Lists
<1> QED BY <1>7 DEF r, a, b

----------------------------------------------------------------------------
(* The invariant holds initially and is kept by every step.                *)

LogTypes == /\ service \in Log(Services)
            /\ plugin \in Log(BOOLEAN)
            /\ console \in Log(Lists)

PlainTypes == /\ deployment \in BOOLEAN
              /\ pc \in [Caller -> {"idle", "deployment", "service", "plugin"}]
              /\ enable \in BOOLEAN
              /\ queued \in BOOLEAN
              /\ stopping \in BOOLEAN
              /\ dirty \in BOOLEAN
              /\ ops \in 0..MaxOps

\* TypeOK, in two parts.
LEMMA TypeParts == TypeOK <=> LogTypes /\ PlainTypes
BY ConsoleLog DEF TypeOK, LogTypes, PlainTypes, Services

\* The same of the next state.
LEMMA TypePartsPrime == TypeOK' <=> LogTypes' /\ PlainTypes'
BY ConsoleLog DEF TypeOK, LogTypes, PlainTypes, Services

\* The invariant holds when the first process starts.
LEMMA InitInv == Init => IInv
<1> SUFFICES ASSUME Init PROVE IInv
  OBVIOUS
<1>1. PICK s \in Services : service = <<s>>
  BY DEF Init, Services
<1>2. PICK b \in BOOLEAN : plugin = <<b>>
  BY DEF Init
<1>3. console \in Log(Lists)
  <2>1. <<>> \in Lists /\ <<Plugin>> \in Lists
    BY DEF Lists, IsInjective
  <2>2. ASSUME NEW o \in Other PROVE <<o>> \in Lists /\ <<o, Plugin>> \in Lists
    BY ConsoleConstants DEF Lists, IsInjective
  <2>3. \E l \in Lists : console = <<l>>
    BY <2>1, <2>2 DEF Init
  <2> QED BY <2>3, LogRestart
<1>4. /\ service \in Log(Services) /\ Synced(service)
      /\ plugin \in Log(BOOLEAN) /\ Synced(plugin)
  BY <1>1, <1>2, LogRestart
<1>5. PlainTypes
  <2>1. /\ deployment \in BOOLEAN /\ pc = Started /\ enable = TRUE /\ queued = TRUE
        /\ stopping = FALSE /\ dirty = FALSE /\ ops = 0
    BY DEF Init
  <2>2. ops \in 0..MaxOps
    BY <2>1, ConsoleConstants
  <2>3. pc \in [Caller -> {"idle", "deployment", "service", "plugin"}]
    BY <2>1 DEF Started, Caller
  <2> QED BY <2>1, <2>2, <2>3 DEF PlainTypes
<1>6. CacheTells
  BY <1>4, StaysOne DEF CacheTells
<1>7. ReconcileWill
  BY DEF Init, ReconcileWill
<1> QED BY <1>3, <1>4, <1>5, <1>6, <1>7, TypeParts DEF IInv, LogTypes

\* A new process starts with all of it ahead of its reconcile.
LEMMA BootInv ==
    ASSUME IInv, NEW left \in BOOLEAN, Boot(left), ops' \in 0..MaxOps
    PROVE  IInv'
<1>1. LogTypes /\ PlainTypes
  BY TypeParts DEF IInv
<1>2. /\ Live(service) \in Services
      /\ Live(console) \in Lists
  BY <1>1, LogVersions DEF LogTypes
<1>3. /\ service' \in Log(Services) /\ Synced(service')
      /\ plugin' \in Log(BOOLEAN) /\ Synced(plugin')
      /\ console' \in Log(Lists)
  BY <1>2, LogRestart DEF Boot
<1>4. PlainTypes'
  BY <1>1 DEF PlainTypes, Boot, Started, Caller
<1>5. CacheTells'
  BY <1>3, StaysOne DEF CacheTells
<1>6. ReconcileWill'
  BY DEF ReconcileWill, Boot
<1> QED BY <1>3, <1>4, <1>5, <1>6, TypePartsPrime DEF IInv, LogTypes

\* A process that ends takes nothing away.
LEMMA ExitInv ==
    ASSUME IInv, Exit, ops' \in 0..MaxOps
    PROVE  IInv'
<1>1. Live(plugin) \in BOOLEAN
  BY TypeParts, LogVersions DEF IInv, LogTypes
<1> QED BY <1>1, BootInv DEF Exit

\* A failed call of the reconciler is queued again.
LEMMA FailInv ==
    ASSUME IInv, NEW p \in Caller, Fail(p), ops' \in 0..MaxOps
    PROVE  IInv'
<1>1. CASE p = "startup" /\ ~stopping /\ Exit
  BY <1>1, ExitInv
<1>2. CASE /\ p = "startup" => stopping
           /\ pc' = [pc EXCEPT ![p] = "idle"]
           /\ queued' = (queued \/ p = "reconcile")
           /\ UNCHANGED <<objects, enable, stopping, dirty>>
  <2>1. LogTypes /\ PlainTypes
    BY TypeParts DEF IInv
  <2>2. LogTypes' /\ CacheTells'
    BY <1>2, <2>1 DEF LogTypes, CacheTells, IInv, objects
  <2>3. queued' \in BOOLEAN
    BY <1>2, <2>1 DEF PlainTypes
  <2>4. PlainTypes'
    BY <1>2, <2>1, <2>3 DEF PlainTypes, objects
  <2>5. ReconcileWill'
    BY <1>2, <2>1 DEF IInv, ReconcileWill, objects, PlainTypes, Caller
  <2> QED BY <2>2, <2>4, <2>5, TypePartsPrime DEF IInv
<1> QED BY <1>1, <1>2 DEF Fail

\* A reconcile that begins is one that is ahead.
LEMMA ReconcileInv ==
    ASSUME IInv, Reconcile
    PROVE  IInv'
<1>1. LogTypes /\ PlainTypes
  BY TypeParts DEF IInv
<1>2. LogTypes' /\ CacheTells'
  BY <1>1 DEF LogTypes, CacheTells, IInv, objects, Reconcile
<1>3. PlainTypes'
  BY <1>1 DEF PlainTypes, Reconcile, objects, Caller
<1>4. ReconcileWill'
  BY <1>1 DEF IInv, ReconcileWill, Reconcile, PlainTypes, objects, Caller
<1> QED BY <1>2, <1>3, <1>4, TypePartsPrime DEF IInv

\* A call that finds no Deployment fails and is tried again.
LEMMA GetDeploymentInv ==
    ASSUME IInv, NEW p \in Caller, GetDeployment(p)
    PROVE  IInv'
<1>1. LogTypes /\ PlainTypes
  BY TypeParts DEF IInv
<1>2. CASE Fail(p)
  BY <1>1, <1>2, FailInv DEF GetDeployment, PlainTypes
<1>3. CASE deployment /\ GoTo(p, "service") /\ UNCHANGED objects
  <2>1. LogTypes' /\ CacheTells'
    BY <1>1, <1>3 DEF LogTypes, CacheTells, IInv, objects, GoTo
  <2>2. PlainTypes'
    BY <1>1, <1>3 DEF PlainTypes, GetDeployment, GoTo, objects
  <2>3. ReconcileWill'
    BY <1>1, <1>3 DEF IInv, ReconcileWill, GoTo, PlainTypes, objects, Caller
  <2> QED BY <2>1, <2>2, <2>3, TypePartsPrime DEF IInv
<1> QED BY <1>2, <1>3 DEF GetDeployment

\* The call leaves a Service that has its owner, or fails.
LEMMA EnsureServiceInv ==
    ASSUME IInv, NEW p \in Caller, ensureService(p)
    PROVE  IInv'
<1>1. LogTypes /\ PlainTypes
  BY TypeParts DEF IInv
<1>2. CASE Fail(p)
  BY <1>1, <1>2, FailInv DEF ensureService, PlainTypes
<1>3. CASE /\ Cached(service) = "none" \/ Cached(service) = "owned" \/ Synced(service)
           /\ GoTo(p, "plugin")
           /\ service' = IF \/ Cached(service) = "none" /\ Live(service) = "none"
                            \/ Cached(service) = "unowned"
                         THEN Append(service, "owned") ELSE service
           /\ UNCHANGED <<deployment, plugin, console>>
  <2>1. /\ service \in Log(Services) /\ Cached(service) \in Services /\ Live(service) \in Services
        /\ "owned" \in Services
    BY <1>1, LogVersions DEF LogTypes, Services
  <2>2. service' \in Log(Services) /\ Stays(service', {"none", "owned"})
    BY <1>3, <2>1, LogAppend, StaysAppend DEF IInv, CacheTells
  <2>3. ~dirty => Stays(service', {"owned"})
    BY <1>3, <2>1, StaysAppend DEF IInv, CacheTells
  \* Whatever the cache said, the Service now has its owner.
  <2>4. ~dirty => Live(service') = "owned"
    <3>1. Live(Append(service, "owned")) = "owned"
      BY <2>1, LogAppend
    <3>2. Cached(service) \in {"none", "owned"} => Live(service) \in {"none", "owned"}
      BY <2>1, StaysLive DEF IInv, CacheTells
    <3>3. ~dirty /\ Cached(service) = "owned" => Live(service) = "owned"
      BY <2>1, StaysLive DEF IInv, CacheTells
    <3> QED BY <1>3, <2>1, <3>1, <3>2, <3>3 DEF Services
  <2>5. LogTypes' /\ CacheTells'
    BY <1>1, <1>3, <2>2, <2>3 DEF LogTypes, CacheTells, IInv, GoTo
  <2>6. PlainTypes'
    BY <1>1, <1>3 DEF PlainTypes, ensureService, GoTo
  <2>7. ReconcileWill'
    BY <1>1, <1>3, <2>4 DEF IInv, ReconcileWill, GoTo, PlainTypes, Caller
  <2> QED BY <2>5, <2>6, <2>7, TypePartsPrime DEF IInv
<1> QED BY <1>2, <1>3 DEF ensureService

\* The call leaves a ConsolePlugin.
LEMMA EnsurePluginInv ==
    ASSUME IInv, NEW p \in Caller, ensurePlugin(p)
    PROVE  IInv'
<1>1. LogTypes /\ PlainTypes
  BY TypeParts DEF IInv
<1>2. plugin \in Log(BOOLEAN) /\ Cached(plugin) \in BOOLEAN /\ Live(plugin) \in BOOLEAN
  BY <1>1, LogVersions DEF LogTypes
<1>3. plugin' \in Log(BOOLEAN)
  BY <1>2, LogAppend DEF ensurePlugin
<1>4. ~dirty => Stays(plugin', {TRUE})
  BY <1>2, StaysAppend DEF ensurePlugin, IInv, CacheTells
\* Whatever the cache said, the ConsolePlugin is there now.
<1>5. ~dirty => Live(plugin')
  <2>1. Live(Append(plugin, TRUE)) = TRUE
    BY <1>2, LogAppend
  <2>2. ~dirty /\ Cached(plugin) = TRUE => Live(plugin) = TRUE
    <3> SUFFICES ASSUME ~dirty, Cached(plugin) = TRUE PROVE Live(plugin) \in {TRUE}
      OBVIOUS
    <3>1. Stays(plugin, {TRUE}) /\ Cached(plugin) \in {TRUE}
      BY DEF IInv, CacheTells
    <3> QED BY <1>2, <3>1, StaysLive
  <2> QED BY <1>2, <2>1, <2>2 DEF ensurePlugin
<1>6. LogTypes' /\ CacheTells'
  BY <1>1, <1>3, <1>4 DEF LogTypes, CacheTells, IInv, GoTo, ensurePlugin
<1>7. PlainTypes'
  BY <1>1 DEF PlainTypes, ensurePlugin, GoTo
<1>8. ReconcileWill'
  BY <1>1, <1>5 DEF IInv, ReconcileWill, GoTo, PlainTypes, Caller, ensurePlugin
<1> QED BY <1>6, <1>7, <1>8, TypePartsPrime DEF IInv

\* The Update of the Console leaves the other objects alone.
LEMMA EnableInv ==
    ASSUME IInv, EnableIBMConsoleByDefault
    PROVE  IInv'
<1>1. LogTypes /\ PlainTypes
  BY TypeParts DEF IInv
<1>2. CASE Exit
  BY <1>1, <1>2, ExitInv DEF EnableIBMConsoleByDefault, PlainTypes
<1>3. CASE /\ enable' = FALSE
           /\ console' = IF IsContain(Cached(console), Plugin) THEN console
                         ELSE Append(console, Append(Cached(console), Plugin))
           /\ UNCHANGED <<deployment, service, plugin, pc, queued, stopping, dirty>>
  <2>1. console \in Log(Lists) /\ Cached(console) \in Lists
    BY <1>1, LogVersions DEF LogTypes
  <2>2. ~IsContain(Cached(console), Plugin) => Append(Cached(console), Plugin) \in Lists
    BY <2>1, AppendName
  <2>3. console' \in Log(Lists)
    BY <1>3, <2>1, <2>2, LogAppend
  <2>4. LogTypes' /\ CacheTells' /\ ReconcileWill'
    BY <1>1, <1>3, <2>3 DEF LogTypes, CacheTells, ReconcileWill, IInv
  <2>5. PlainTypes'
    BY <1>1, <1>3 DEF PlainTypes, EnableIBMConsoleByDefault
  <2> QED BY <2>4, <2>5, TypePartsPrime DEF IInv
<1> QED BY <1>2, <1>3 DEF EnableIBMConsoleByDefault

\* A ConsolePlugin that is taken away is missing for the next process.
LEMMA RemoveConsoleInv ==
    ASSUME IInv, RemoveConsole
    PROVE  IInv'
<1>1. PlainTypes /\ (Live(plugin) /\ ~Cached(plugin)) \in BOOLEAN
  BY TypeParts DEF IInv
<1> QED BY <1>1, BootInv DEF RemoveConsole, PlainTypes

\* The steps of the caches.
LEMMA DeliverInv ==
    ASSUME IInv, DeliverService \/ DeliverPlugin \/ DeliverConsole
    PROVE  IInv'
<1>1. LogTypes /\ PlainTypes
  BY TypeParts DEF IInv
<1>2. CASE DeliverService
  <2>1. /\ service' \in Log(Services) /\ Live(service') = Live(service)
        /\ \A S : Stays(service, S) => Stays(service', S)
    BY <1>1, <1>2, LogTail, StaysTail DEF LogTypes, DeliverService
  <2>2. LogTypes' /\ PlainTypes' /\ CacheTells' /\ ReconcileWill'
    BY <1>1, <1>2, <2>1 DEF LogTypes, PlainTypes, CacheTells, ReconcileWill, IInv, DeliverService, process
  <2> QED BY <2>2, TypePartsPrime DEF IInv
<1>3. CASE DeliverPlugin
  <2>1. /\ plugin' \in Log(BOOLEAN) /\ Live(plugin') = Live(plugin)
        /\ \A S : Stays(plugin, S) => Stays(plugin', S)
    BY <1>1, <1>3, LogTail, StaysTail DEF LogTypes, DeliverPlugin
  <2>2. LogTypes' /\ PlainTypes' /\ CacheTells' /\ ReconcileWill'
    BY <1>1, <1>3, <2>1 DEF LogTypes, PlainTypes, CacheTells, ReconcileWill, IInv, DeliverPlugin, process
  <2> QED BY <2>2, TypePartsPrime DEF IInv
<1>4. CASE DeliverConsole
  <2>1. console' \in Log(Lists)
    BY <1>1, <1>4, LogTail DEF LogTypes, DeliverConsole
  <2>2. LogTypes' /\ PlainTypes' /\ CacheTells' /\ ReconcileWill'
    BY <1>1, <1>4, <2>1 DEF LogTypes, PlainTypes, CacheTells, ReconcileWill, IInv, DeliverConsole, process
  <2> QED BY <2>2, TypePartsPrime DEF IInv
<1> QED BY <1>2, <1>3, <1>4

\* Steps of users stay within their bound.
LEMMA DisturbOps ==
    ASSUME PlainTypes, NEW op, Disturb(op)
    PROVE  ops' \in 0..MaxOps
BY ConsoleConstants DEF PlainTypes, Disturb

\* The steps of users that change no object.
LEMMA SignalInv ==
    ASSUME IInv, Deploy \/ DeliverVersion \/ Stop
    PROVE  IInv'
<1>1. LogTypes /\ PlainTypes
  BY TypeParts DEF IInv
<1>2. ops' \in 0..MaxOps
  BY <1>1, DisturbOps DEF Deploy, DeliverVersion, Stop
<1>3. CASE Deploy
  <2>1. LogTypes' /\ PlainTypes' /\ CacheTells' /\ ReconcileWill'
    BY <1>1, <1>2, <1>3 DEF LogTypes, PlainTypes, CacheTells, ReconcileWill, IInv, Deploy, process
  <2> QED BY <2>1, TypePartsPrime DEF IInv
<1>4. CASE Stop
  <2>1. LogTypes' /\ PlainTypes' /\ CacheTells' /\ ReconcileWill'
    BY <1>1, <1>2, <1>4 DEF LogTypes, PlainTypes, CacheTells, ReconcileWill, IInv, Stop, objects
  <2> QED BY <2>1, TypePartsPrime DEF IInv
<1>5. CASE DeliverVersion
  <2>1. LogTypes' /\ ReconcileWill'
    BY <1>1, <1>5 DEF LogTypes, ReconcileWill, DeliverVersion, objects
  <2>2. dirty' \in BOOLEAN
    BY <1>5 DEF DeliverVersion
  <2>3. PlainTypes'
    BY <1>1, <1>2, <1>5, <2>2 DEF PlainTypes, DeliverVersion, objects
  \* Nothing is dirty any more only if there is nothing but the live versions.
  <2>4. CacheSynced => Stays(service, {"owned"}) /\ Stays(plugin, {TRUE})
    BY <1>1, StaysOne DEF LogTypes, CacheSynced
  <2>5. ~dirty' => ~dirty \/ CacheSynced
    BY <1>5 DEF DeliverVersion
  <2>6. CacheTells'
    BY <1>5, <2>4, <2>5 DEF CacheTells, IInv, DeliverVersion, objects
  <2> QED BY <2>1, <2>3, <2>6, TypePartsPrime DEF IInv
<1> QED BY <1>3, <1>4, <1>5

\* The steps of users that change the Service or the ConsolePlugin.
LEMMA ObjectInv ==
    ASSUME IInv, TouchService \/ DeleteService \/ DeletePlugin
    PROVE  IInv'
<1>1. LogTypes /\ PlainTypes
  BY TypeParts DEF IInv
<1>2. ops' \in 0..MaxOps
  BY <1>1, DisturbOps DEF TouchService, DeleteService, DeletePlugin
<1>3. service \in Log(Services) /\ Live(service) \in Services /\ "none" \in Services
  BY <1>1, LogVersions DEF LogTypes, Services
<1>4. CASE TouchService
  <2>1. /\ service' \in Log(Services) /\ Live(service') = Live(service)
        /\ \A S : Stays(service, S) => Stays(service', S)
    BY <1>3, <1>4, LogAppend, StaysAppend DEF TouchService, PutService
  <2>2. LogTypes' /\ PlainTypes' /\ CacheTells' /\ ReconcileWill'
    BY <1>1, <1>2, <1>4, <2>1
    DEF LogTypes, PlainTypes, CacheTells, ReconcileWill, IInv, TouchService, PutService, process
  <2> QED BY <2>2, TypePartsPrime DEF IInv
<1>5. CASE DeleteService
  <2>1. service' \in Log(Services) /\ Stays(service', {"none", "owned"})
    BY <1>3, <1>5, LogAppend, StaysAppend DEF DeleteService, PutService, IInv, CacheTells
  <2>2. LogTypes' /\ PlainTypes' /\ CacheTells' /\ ReconcileWill'
    BY <1>1, <1>2, <1>5, <2>1
    DEF LogTypes, PlainTypes, CacheTells, ReconcileWill, IInv, DeleteService, PutService, process
  <2> QED BY <2>2, TypePartsPrime DEF IInv
<1>6. CASE DeletePlugin
  <2>1. plugin' \in Log(BOOLEAN)
    BY <1>1, <1>6, LogAppend DEF LogTypes, DeletePlugin
  <2>2. LogTypes' /\ PlainTypes' /\ CacheTells' /\ ReconcileWill'
    BY <1>1, <1>2, <1>6, <2>1
    DEF LogTypes, PlainTypes, CacheTells, ReconcileWill, IInv, DeletePlugin, process
  <2> QED BY <2>2, TypePartsPrime DEF IInv
<1> QED BY <1>4, <1>5, <1>6

\* Other operators change only the Console.
LEMMA ChangeListInv ==
    ASSUME IInv, NEW o \in Other, ChangeList(o)
    PROVE  IInv'
<1>1. LogTypes /\ PlainTypes
  BY TypeParts DEF IInv
<1>2. ops' \in 0..MaxOps
  BY <1>1, DisturbOps DEF ChangeList
<1> DEFINE items == Live(console)
<1>3. console \in Log(Lists) /\ items \in Lists
  BY <1>1, LogVersions DEF LogTypes
<1>4. PICK l \in Lists : console' = Append(console, l)
  <2>1. CASE ~IsContain(items, o) /\ console' = Append(console, Append(items, o))
    BY <1>3, <2>1, AppendName
  <2>2. CASE \E i \in DOMAIN items :
                console' = Append(console, SubSeq(items, 1, i - 1) \o SubSeq(items, i + 1, Len(items)))
    BY <1>3, <2>2, RemoveName
  <2> QED BY <2>1, <2>2 DEF ChangeList
<1>5. console' \in Log(Lists)
  BY <1>3, <1>4, LogAppend
<1>6. LogTypes' /\ PlainTypes' /\ CacheTells' /\ ReconcileWill'
  BY <1>1, <1>2, <1>5 DEF LogTypes, PlainTypes, CacheTells, ReconcileWill, IInv, ChangeList, process
<1> QED BY <1>6, TypePartsPrime DEF IInv

\* The mishaps.
LEMMA MishapInv ==
    ASSUME IInv, Crash \/ \E p \in Caller : Fault(p)
    PROVE  IInv'
<1>1. ops' \in 0..MaxOps
  BY TypeParts, DisturbOps DEF IInv, Crash, Fault
<1>2. CASE Crash
  BY <1>1, <1>2, ExitInv DEF Crash
<1>3. ASSUME NEW p \in Caller, Fault(p) PROVE IInv'
  BY <1>1, <1>3, FailInv DEF Fault
<1> QED BY <1>2, <1>3

\* Every step keeps the invariant.
LEMMA StepInv == IInv /\ [Next]_vars => IInv'
<1> SUFFICES ASSUME IInv, [Next]_vars PROVE IInv'
  OBVIOUS
<1>1. CASE UNCHANGED vars
  <2>1. LogTypes /\ PlainTypes
    BY TypeParts DEF IInv
  <2>2. LogTypes' /\ PlainTypes' /\ CacheTells' /\ ReconcileWill'
    BY <1>1, <2>1 DEF LogTypes, PlainTypes, CacheTells, ReconcileWill, IInv, vars, objects, process
  <2> QED BY <2>2, TypePartsPrime DEF IInv
<1>2. CASE \E p \in Caller : Step(p)
  BY <1>2, GetDeploymentInv, EnsureServiceInv, EnsurePluginInv DEF Step
<1>3. CASE Reconcile \/ EnableIBMConsoleByDefault \/ RemoveConsole
  BY <1>3, ReconcileInv, EnableInv, RemoveConsoleInv
<1>4. CASE DeliverService \/ DeliverPlugin \/ DeliverConsole
  BY <1>4, DeliverInv
<1>5. CASE Deploy \/ DeliverVersion \/ Stop
  BY <1>5, SignalInv
<1>6. CASE TouchService \/ DeleteService \/ DeletePlugin
  BY <1>6, ObjectInv
<1>7. CASE \E o \in Other : ChangeList(o)
  BY <1>7, ChangeListInv
<1>8. CASE Crash \/ \E p \in Caller : Fault(p)
  BY <1>8, MishapInv
<1> QED BY <1>1, <1>2, <1>3, <1>4, <1>5, <1>6, <1>7, <1>8 DEF Next

\* The invariant always holds.
LEMMA ConsoleInv == Spec => []IInv
BY InitInv, StepInv, PTL DEF Spec

----------------------------------------------------------------------------
(* What the invariant gives.                                               *)

\* The variables always have their types: no caller of ensureConsolePlugin, and
\* no Update of the Console, leaves what the others could not go on from, and a
\* name is never twice in the Console's list, although the operator looks for its
\* name in a version that may be old.
THEOREM ConsoleTypes == Spec => []TypeOK
BY ConsoleInv, PTL DEF IInv

\* When neither the startup Runnable nor a reconcile is left to do, the Service
\* has its owner and the ConsolePlugin is there, for any number of steps of
\* users, stops, crashes and failed calls, and caches that lag by any distance.
THEOREM ConsoleIsSettled == Spec => []ConsoleSettled
<1>1. IInv => ConsoleSettled
  <2> SUFFICES ASSUME IInv, pc = [p \in Caller |-> "idle"], ~queued, ~dirty PROVE Served
    BY DEF ConsoleSettled
  <2>1. pc["reconcile"] = "idle"
    BY DEF Caller
  <2> QED BY <2>1 DEF IInv, ReconcileWill, Served
<1> QED BY <1>1, ConsoleInv, PTL

\* No step of the operator changes the live list of the Console except by
\* appending the operator's own name: its Update replaces the whole object, but
\* is refused unless it was computed from the live version.
THEOREM PluginsAreKept == Spec => PluginsKept
<1> DEFINE Kept == Live(console') \in {Live(console), Append(Live(console), Plugin)}
<1>1. ASSUME IInv, [Next]_vars, ops' = ops PROVE Kept
  <2>1. console \in Log(Lists) /\ Cached(console) \in Lists /\ Live(console) \in Lists
    BY <1>1, TypeParts, LogVersions DEF IInv, LogTypes
  <2>2. ops \in Nat
    BY <1>1, TypeParts, ConsoleConstants DEF IInv, PlainTypes
  <2>3. ASSUME NEW left, Boot(left) PROVE Kept
    <3>1. console' = <<Live(console)>>
      BY <2>3 DEF Boot
    <3> QED BY <2>1, <3>1, LogRestart
  <2>4. ASSUME NEW p, Fail(p) PROVE Kept
    BY <2>3, <2>4 DEF Fail, Exit, objects
  <2>5. CASE UNCHANGED vars
    BY <2>5 DEF vars, objects
  <2>6. ASSUME NEW p \in Caller, Step(p) PROVE Kept
    BY <2>4, <2>6 DEF Step, GetDeployment, ensureService, ensurePlugin, objects
  <2>7. CASE Reconcile \/ RemoveConsole
    BY <2>3, <2>7 DEF Reconcile, RemoveConsole, objects
  <2>8. CASE EnableIBMConsoleByDefault
    <3>1. CASE Exit
      BY <2>3, <3>1 DEF Exit
    <3>2. CASE console' = console
      BY <3>2
    <3>3. CASE Synced(console) /\ console' = Append(console, Append(Cached(console), Plugin))
      <4>1. Cached(console) = Live(console)
        BY <2>1, <3>3, SyncedIsLive
      <4>2. Live(console') = Append(Cached(console), Plugin)
        BY <2>1, <3>3 DEF Live, Log
      <4> QED BY <4>1, <4>2
    <3> QED BY <2>8, <3>1, <3>2, <3>3 DEF EnableIBMConsoleByDefault
  <2>9. CASE DeliverService \/ DeliverPlugin \/ DeliverConsole
    BY <2>1, <2>9, LogTail DEF DeliverService, DeliverPlugin, DeliverConsole
  <2>10. ASSUME NEW op, Disturb(op) PROVE FALSE
    BY <1>1, <2>2, <2>10 DEF Disturb
  <2> QED BY <1>1, <2>5, <2>6, <2>7, <2>8, <2>9, <2>10
      DEF Next, Deploy, DeliverVersion, TouchService, DeleteService, DeletePlugin, ChangeList, Stop, Crash, Fault
<1>2. IInv /\ [Next]_vars => [ops' = ops => Kept]_vars
  BY <1>1
<1> QED BY <1>2, ConsoleInv, PTL DEF Spec, PluginsKept
=============================================================================
