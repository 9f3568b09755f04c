---------------------------- MODULE ConsolePlugin ---------------------------
(***************************************************************************)
(* The operator's part of the OpenShift console: the Service of the console *)
(* Deployment, the ConsolePlugin, and the plugin's name in the list of the  *)
(* Console "cluster".  Three activities of one process race for them: the   *)
(* startup Runnable and the reconciler of ClusterVersion, which both call   *)
(* ensureConsolePlugin, and the Runnable of EnableIBMConsoleByDefault.  A   *)
(* process that is told to stop takes the ConsolePlugin away; one that      *)
(* fails or crashes does not; in both cases another process follows.        *)
(*                                                                         *)
(* Service, ConsolePlugin and Console are logs of versions (VersionLog):    *)
(* they are read through a cache, but none of them is watched.              *)
(***************************************************************************)
EXTENDS VersionLog, Functions

CONSTANTS
    Plugin,   \* the name "ibm-storage-odf-plugin"
    Other,    \* the plugins of others
    UserOps,  \* the kinds of steps the users, and mishaps, may take
    MaxOps    \* bound on these steps

ASSUME ConsoleConstants ==
    /\ Plugin \notin Other
    /\ UserOps \subseteq {"deploy", "version", "touch", "deleteService", "deletePlugin",
                          "list", "stop", "crash", "fault"}
    /\ MaxOps \in Nat

VARIABLES
    deployment, \* is there the console's Deployment?
    service,    \* versions of the Service: "none", "unowned" or "owned" by the Deployment
    plugin,     \* versions of "is there the ConsolePlugin?"
    console,    \* versions of the Console's list of plugins
    pc,         \* where the two calls of ensureConsolePlugin are
    enable,     \* has EnableIBMConsoleByDefault yet to run?
    queued,     \* is the ClusterVersion queued?
    stopping,   \* has the process been told to stop?
    dirty,      \* has a user deleted something since the last ClusterVersion
                \* event or start of a process?  (history)
    ops

objects == <<deployment, service, plugin, console>>
process == <<pc, enable, queued, stopping>>
vars == <<objects, process, dirty, ops>>

Caller == {"startup", "reconcile"}

TypeOK == /\ deployment \in BOOLEAN
          /\ service \in Log({"none", "unowned", "owned"})
          /\ plugin \in Log(BOOLEAN)
          /\ console \in Log(Seq(Other \cup {Plugin}))
          /\ \A i \in DOMAIN console : IsInjective(console[i])
          /\ pc \in [Caller -> {"idle", "deployment", "service", "plugin"}]
          /\ enable \in BOOLEAN
          /\ queued \in BOOLEAN
          /\ stopping \in BOOLEAN
          /\ dirty \in BOOLEAN
          /\ ops \in 0..MaxOps

\* A process starts: the Runnables run, and the ClusterVersion is listed.
Started == [p \in Caller |-> IF p = "startup" THEN "deployment" ELSE "idle"]

Init == /\ deployment \in BOOLEAN
        /\ service \in {<<s>> : s \in {"none", "unowned", "owned"}}
        /\ plugin \in {<<b>> : b \in BOOLEAN}
        /\ console \in {<<<<>>>>, <<<<Plugin>>>>} \cup {<<<<o>>>> : o \in Other} \cup {<<<<o, Plugin>>>> : o \in Other}
        /\ pc = Started
        /\ enable = TRUE
        /\ queued = TRUE
        /\ stopping = FALSE
        /\ dirty = FALSE
        /\ ops = 0

\* The process ends and another one starts, with new caches; "left" is the
\* ConsolePlugin it leaves.
Boot(left) ==
    /\ service' = <<Live(service)>>
    /\ plugin' = <<left>>
    /\ console' = <<Live(console)>>
    /\ pc' = Started
    /\ enable' = TRUE
    /\ queued' = TRUE
    /\ stopping' = FALSE
    /\ dirty' = FALSE
    /\ UNCHANGED deployment

Exit == Boot(Live(plugin))

----------------------------------------------------------------------------
(* ensureConsolePlugin.                                                    *)

\* Its caller returns an error: a reconcile is retried, the manager ends with
\* its Runnable's error, except when it is stopping already.
Fail(p) ==
    \/ p = "startup" /\ ~stopping /\ Exit
    \/ /\ p = "startup" => stopping
       /\ pc' = [pc EXCEPT ![p] = "idle"]
       /\ queued' = (queued \/ p = "reconcile")
       /\ UNCHANGED <<objects, enable, stopping, dirty>>

GoTo(p, l) == pc' = [pc EXCEPT ![p] = l] /\ UNCHANGED <<enable, queued, stopping, dirty>>

\* A reconcile begins; a manager that stops lets none begin.
Reconcile ==
    /\ queued
    /\ pc["reconcile"] = "idle"
    /\ ~stopping
    /\ queued' = FALSE
    /\ pc' = [pc EXCEPT !["reconcile"] = "deployment"]
    /\ UNCHANGED <<objects, enable, stopping, dirty, ops>>

GetDeployment(p) ==
    /\ pc[p] = "deployment"
    /\ \/ deployment /\ GoTo(p, "service") /\ UNCHANGED objects
       \/ ~deployment /\ Fail(p)
    /\ UNCHANGED ops

\* Mutant of ensureService: a conflict is ignored as AlreadyExists is.
ensureServiceOnce(p) ==
    /\ pc[p] = "service"
    /\ GoTo(p, "plugin")
    /\ service' = IF \/ Cached(service) = "none" /\ Live(service) = "none"
                     \/ Cached(service) = "unowned" /\ Synced(service)
                  THEN Append(service, "owned") ELSE service
    /\ UNCHANGED <<deployment, plugin, console, ops>>

\* CreateOrUpdate of the Service, which is given its owner; a Service that is
\* already there when it is created is left as it is.
ensureService(p) ==
    /\ pc[p] = "service"
    /\ \/ /\ Cached(service) = "none" \/ Cached(service) = "owned" \/ Synced(service)
          /\ GoTo(p, "plugin")
          /\ service' = IF \/ Cached(service) = "none" /\ Live(service) = "none"
                           \/ Cached(service) = "unowned"
                        THEN Append(service, "owned") ELSE service
          /\ UNCHANGED <<deployment, plugin, console>>
       \/ Cached(service) = "unowned" /\ ~Synced(service) /\ Fail(p)
    /\ UNCHANGED ops

\* CreateOrUpdate of the ConsolePlugin: one that is there is never changed.
ensurePlugin(p) ==
    /\ pc[p] = "plugin"
    /\ GoTo(p, "idle")
    /\ plugin' = IF Cached(plugin) \/ Live(plugin) THEN plugin ELSE Append(plugin, TRUE)
    /\ UNCHANGED <<deployment, service, console, ops>>

----------------------------------------------------------------------------
(* The rest of the process.                                                *)

\* Mutant of IsContain: the loop ends after the first item.
IsContainFirst(items, item) == items # <<>> /\ items[1] = item

IsContain(items, item) == item \in Range(items)

\* Mutants of EnableIBMConsoleByDefault: the Update carries no resource
\* version; its error is only logged.
EnableBlindly ==
    /\ enable
    /\ enable' = FALSE
    /\ console' = IF IsContain(Cached(console), Plugin) THEN console
                  ELSE Append(console, Append(Cached(console), Plugin))
    /\ UNCHANGED <<deployment, service, plugin, pc, queued, stopping, dirty, ops>>
EnableOnce ==
    /\ enable
    /\ enable' = FALSE
    /\ console' = IF IsContain(Cached(console), Plugin) \/ ~Synced(console) THEN console
                  ELSE Append(console, Append(Cached(console), Plugin))
    /\ UNCHANGED <<deployment, service, plugin, pc, queued, stopping, dirty, ops>>

\* The name is appended to the list, unless it is in it; an Update that is
\* refused ends the process.
EnableIBMConsoleByDefault ==
    /\ enable
    /\ \/ /\ IsContain(Cached(console), Plugin) \/ Synced(console)
          /\ enable' = FALSE
          /\ console' = IF IsContain(Cached(console), Plugin) THEN console
                        ELSE Append(console, Append(Cached(console), Plugin))
          /\ UNCHANGED <<deployment, service, plugin, pc, queued, stopping, dirty>>
       \/ ~IsContain(Cached(console), Plugin) /\ ~Synced(console) /\ Exit
    /\ UNCHANGED ops

\* Once nothing runs any more, the manager returns and the ConsolePlugin is
\* deleted, if the cache has it; then the next process starts.
RemoveConsole ==
    /\ stopping
    /\ pc = [p \in Caller |-> "idle"]
    /\ ~enable
    /\ Boot(Live(plugin) /\ ~Cached(plugin))
    /\ UNCHANGED ops

----------------------------------------------------------------------------
(* The caches, the users, and what goes wrong.                             *)

CacheSynced == Synced(service) /\ Synced(plugin)

Disturb(op) == op \in UserOps /\ ops < MaxOps /\ ops' = ops + 1

DeliverService == /\ ~Synced(service)
                  /\ service' = Tail(service)
                  /\ UNCHANGED <<deployment, plugin, console, process, dirty, ops>>
DeliverPlugin == /\ ~Synced(plugin)
                 /\ plugin' = Tail(plugin)
                 /\ UNCHANGED <<deployment, service, console, process, dirty, ops>>
DeliverConsole == /\ ~Synced(console)
                  /\ console' = Tail(console)
                  /\ UNCHANGED <<deployment, service, plugin, process, dirty, ops>>

\* The Deployment of the console comes, perhaps after the operator.
Deploy ==
    /\ Disturb("deploy")
    /\ ~deployment
    /\ deployment' = TRUE
    /\ UNCHANGED <<service, plugin, console, process, dirty>>

\* An event of the ClusterVersion.
DeliverVersion ==
    /\ Disturb("version")
    /\ queued' = TRUE
    /\ dirty' = (dirty /\ ~CacheSynced)
    /\ UNCHANGED <<objects, pc, enable, stopping>>

\* Someone changes the Service in what is of no interest here, or deletes it.
PutService(s) == service' = Append(service, s) /\ UNCHANGED <<deployment, plugin, console, process>>

TouchService ==
    /\ Disturb("touch")
    /\ Live(service) # "none"
    /\ PutService(Live(service))
    /\ UNCHANGED dirty

DeleteService ==
    /\ Disturb("deleteService")
    /\ Live(service) # "none"
    /\ PutService("none")
    /\ dirty' = TRUE

DeletePlugin ==
    /\ Disturb("deletePlugin")
    /\ Live(plugin)
    /\ plugin' = Append(plugin, FALSE)
    /\ dirty' = TRUE
    /\ UNCHANGED <<deployment, service, console, process>>

\* Another operator puts its plugin into the list, or takes it out.
ChangeList(o) ==
    /\ Disturb("list")
    /\ LET items == Live(console)
       IN  \/ ~IsContain(items, o) /\ console' = Append(console, Append(items, o))
           \/ \E i \in DOMAIN items :
                 /\ items[i] = o
                 /\ console' = Append(console, SubSeq(items, 1, i - 1) \o SubSeq(items, i + 1, Len(items)))
    /\ UNCHANGED <<deployment, service, plugin, process, dirty>>

Stop ==
    /\ Disturb("stop")
    /\ ~stopping
    /\ stopping' = TRUE
    /\ UNCHANGED <<objects, pc, enable, queued, dirty>>

\* The process ends at once, also when it has taken too long to stop.
Crash == Disturb("crash") /\ Exit

\* A call fails for another reason.
Fault(p) == Disturb("fault") /\ pc[p] # "idle" /\ Fail(p)

Step(p) == GetDeployment(p) \/ ensureService(p) \/ ensurePlugin(p)

Next == \/ \E p \in Caller : Step(p) \/ Fault(p)
        \/ Reconcile \/ EnableIBMConsoleByDefault \/ RemoveConsole
        \/ DeliverService \/ DeliverPlugin \/ DeliverConsole
        \/ Deploy \/ DeliverVersion \/ TouchService \/ DeleteService \/ DeletePlugin
        \/ (\E o \in Other : ChangeList(o))
        \/ Stop \/ Crash

Spec == Init /\ [][Next]_vars

\* The goroutines of the process go on, and the caches catch up.
Fairness == /\ \A p \in Caller : WF_vars(Step(p))
            /\ WF_vars(Reconcile)
            /\ WF_vars(EnableIBMConsoleByDefault)
            /\ WF_vars(RemoveConsole)
            /\ WF_vars(DeliverService) /\ WF_vars(DeliverPlugin) /\ WF_vars(DeliverConsole)

FairSpec == Spec /\ Fairness

----------------------------------------------------------------------------
(* Properties.                                                             *)

Served == Live(service) = "owned" /\ Live(plugin)

\* When neither the startup Runnable nor a reconcile is left to do, the Service
\* has its owner and the ConsolePlugin is there, whichever of the two has made
\* them, and although each ignores AlreadyExists; what users have deleted is
\* there again after the next ClusterVersion event.
ConsoleSettled ==
    pc = [p \in Caller |-> "idle"] /\ ~queued /\ ~dirty => Served

\* All that this operator's whole-object Update of the Console, or anything else
\* it does, ever changes in the live list is that its own name is appended: what
\* others have put in or taken out meanwhile stays so (steps of others count in ops).
PluginsKept ==
    [][ops' = ops => Live(console') \in {Live(console), Append(Live(console), Plugin)}]_vars

\* In the end, whatever conflicts, stops and crashes there were, a deployed
\* console is and stays served, and its plugin enabled.
ConsoleConverges ==
    <>[](deployment /\ ~dirty => Served /\ IsContain(Live(console), Plugin))
=============================================================================
