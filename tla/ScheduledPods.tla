---------------------------- MODULE ScheduledPods ----------------------------
(***************************************************************************)
(* The Pods that follow a kernel module: the device plugin and DRA         *)
(* controllers (internal/controllers/device_plugin_reconciler.go and       *)
(* dra_reconciler.go), which keep one DaemonSet per Module version, mark   *)
(* the nodes it may use and, for DRA, keep the DeviceClasses.  One Module; *)
(* each controller has one worker and one action per group of API calls    *)
(* that nothing can observe half-way but a failure.  What becomes of the   *)
(* Pods is PodNodeLabels.                                                  *)
(***************************************************************************)
EXTENDS Integers, FiniteSets, Functions

CONSTANTS
    Nodes,          \* the nodes of the cluster
    Classes,        \* the DeviceClasses a Module may ask for
    SectionSets,    \* bound: the combinations of sections a Module may have
    SectionEdits,   \* bound: the pairs of them users edit one into the other
    MaxVersion,     \* bound: versions of the Module
    MaxChanges,     \* bound: changes users and nodes make
    MaxFailures     \* bound: API calls that fail

Roles == {"devicePlugin", "dra"}
Versions == 1..MaxVersion

ASSUME ScheduledPodsAssumption ==
    /\ Nodes # {} /\ IsFiniteSet(Nodes) /\ SectionSets \subseteq SUBSET Roles
    /\ SectionEdits \subseteq SectionSets \X SectionSets
    /\ MaxVersion \in Nat \ {0} /\ MaxChanges \in Nat /\ MaxFailures \in Nat

VARIABLES
    module,     \* the Module object
    node,       \* the Node objects
    daemonSet,  \* per role and version: whether it exists and its status
    classes,    \* the DeviceClasses labelled with the Module
    queue,      \* roles whose controller has the Module queued
    task,       \* per role: the Reconcile in progress
    changes,    \* how much of MaxChanges is used
    failures    \* how much of MaxFailures is used

vars == <<module, node, daemonSet, classes, queue, task, changes, failures>>

-----------------------------------------------------------------------------
(* Objects                                                                 *)

Count == 0..(MaxVersion * Cardinality(Nodes))

ModuleObject == [phase: {"none", "live", "deleting"}, version: Versions,
                 sections: SUBSET Roles, classes: SUBSET Classes, finalizers: SUBSET Roles,
                 matching: Count,   \* written by the Module controller
                 status: [Roles -> [matching: Count, available: Count]]]

NoStatus == [matching |-> 0, available |-> 0]

Absent == [phase |-> "none", version |-> 1, sections |-> {}, classes |-> {},
           finalizers |-> {}, matching |-> 0, status |-> [r \in Roles |-> NoStatus]]

(* selected: the Module's selector matches; tainted: not tolerated;        *)
(* schedule: the version whose Pods may run there, that is, the version-   *)
(* schedule-pod label together with the kernel module ready label, 0 if    *)
(* one is missing; target: the labels of these controllers.                *)
NodeObject == [selected: BOOLEAN, tainted: BOOLEAN, schedule: Versions \cup {0},
               target: SUBSET Roles]

DaemonSet == [exists: BOOLEAN, desired: Count, available: Count]

NoDaemonSet == [exists |-> FALSE, desired |-> 0, available |-> 0]

Idle == [step |-> "idle", mod |-> Absent, existing |-> [v \in Versions |-> NoDaemonSet],
         existingClasses |-> {}]

Steps == {"idle", "removeTargetLabels", "deleteResources", "clearStatus", "setFinalizer",
          "targetLabels", "daemonSets", "deviceClasses", "updateStatus"}

TypeOK ==
    /\ module \in ModuleObject
    /\ node \in [Nodes -> NodeObject]
    /\ daemonSet \in [Roles -> [Versions -> DaemonSet]]
    /\ classes \subseteq Classes
    /\ queue \subseteq Roles
    /\ \A r \in Roles : /\ task[r].step \in Steps /\ task[r].mod \in ModuleObject
                        /\ task[r].existing \in [Versions -> DaemonSet]
                        /\ task[r].existingClasses \subseteq Classes
    /\ changes \in 0..MaxChanges /\ failures \in 0..MaxFailures

Init ==
    /\ module = Absent
    /\ node = [n \in Nodes |-> [selected |-> TRUE, tainted |-> FALSE,
                                schedule |-> 0, target |-> {}]]
    /\ daemonSet = [r \in Roles |-> [v \in Versions |-> NoDaemonSet]]
    /\ classes = {}
    /\ queue = {} /\ task = [r \in Roles |-> Idle]
    /\ changes = 0 /\ failures = 0

-----------------------------------------------------------------------------
(* Events.  FindModulesForNode names the Module if its selector matches    *)
(* the node before or after the change.  ModuleReconcilerNodePredicate     *)
(* (DRA) lets taints and labels through, DevicePluginReconcilerNodePredicate *)
(* only taints: a newly selected node reaches that controller only through *)
(* the status the Module controller writes.                                *)

NodeEvents(old, new) ==
    IF ~(old.selected \/ new.selected) \/ module.phase = "none" \/ old = new THEN {}
    ELSE IF old.tainted # new.tainted THEN Roles ELSE {"dra"}

NodesEvents(new) == UNION {NodeEvents(node[n], new[n]) : n \in Nodes}

Working(r, step) == task[r].step = step

Step(r, step) == task' = [task EXCEPT ![r].step = step]

(* The end of a Reconcile; changed are the roles its last call queued.     *)
End(r, failed, changed) ==
    /\ task' = [task EXCEPT ![r] = Idle]
    /\ queue' = queue \cup changed \cup (IF failed THEN {r} ELSE {})

(* A loop of API calls goes on after one that fails, or stops there; the   *)
(* error ends the Reconcile and queues the Module again.                   *)
Loop(r, complete, next, changed) ==
    IF complete
    THEN /\ Step(r, next)
         /\ queue' = queue \cup changed
         /\ UNCHANGED failures
    ELSE /\ failures < MaxFailures
         /\ failures' = failures + 1
         /\ End(r, TRUE, changed)

-----------------------------------------------------------------------------
(* Device plugin and DRA controllers                                       *)

(* The DaemonSets and DeviceClasses labelled with the Module.              *)
ModuleDaemonSets(r) == {v \in Versions : daemonSet[r][v].exists}

ModuleDeviceClasses(r) == IF r = "dra" THEN classes ELSE {}

(* The Module has nothing of r: the calls of finalizeModule and of         *)
(* clearStatus would change nothing.                                       *)
NothingOf(r) ==
    /\ r \notin module.sections \cup module.finalizers
    /\ module.status[r] = NoStatus
    /\ ModuleDaemonSets(r) = {}
    /\ \A n \in Nodes : r \notin node[n].target

StartReconcile(r) ==
    /\ Working(r, "idle")
    /\ r \in queue
    /\ queue' = queue \ {r}
    /\ task' = [task EXCEPT ![r] =
          IF module.phase = "none" \/ NothingOf(r) THEN Idle
          ELSE [Idle EXCEPT !.step = IF module.phase = "live" /\ r \in module.sections
                                     THEN "setFinalizer" ELSE "removeTargetLabels",
                            !.mod = module]]
    /\ UNCHANGED <<module, node, daemonSet, classes, changes, failures>>

(* finalizeModule.  The DRA controller returns at once without its         *)
(* finalizer; the device plugin controller also cleans up after Modules of *)
(* before the finalizer.                                                   *)
NothingToFinalize(r) == r = "dra" /\ r \notin task[r].mod.finalizers

Untargeted(n, r) == [node[n] EXCEPT !.target = @ \ {r}]

removeTargetLabels(r) ==
    /\ Working(r, "removeTargetLabels")
    /\ \/ /\ NothingToFinalize(r)
          /\ Step(r, "clearStatus")
          /\ UNCHANGED <<node, queue, failures>>
       \/ /\ ~NothingToFinalize(r)
          /\ \E done \in SUBSET Nodes :
                /\ node' = [n \in Nodes |-> IF n \in done THEN Untargeted(n, r) ELSE node[n]]
                /\ Loop(r, done = Nodes, "deleteResources", NodesEvents(node'))
    /\ UNCHANGED <<module, daemonSet, classes, changes>>

(* Mutant: the controller does not own its DaemonSets and misses their deletion. *)
deleteResourcesUnwatched(r) ==
    /\ Working(r, "deleteResources")
    /\ LET found == ModuleDaemonSets(r)
           foundClasses == ModuleDeviceClasses(r)
       IN /\ found # {} \/ foundClasses # {}
          /\ \E gone \in SUBSET found, goneClasses \in SUBSET foundClasses :
                /\ daemonSet' = [daemonSet EXCEPT ![r] =
                                   [v \in Versions |-> IF v \in gone THEN NoDaemonSet ELSE @[v]]]
                /\ classes' = classes \ goneClasses
                /\ Loop(r, gone = found /\ goneClasses = foundClasses, "clearStatus",
                        {})
    /\ UNCHANGED <<module, node, changes>>

(* DaemonSets, and for DRA DeviceClasses, are deleted; their events bring  *)
(* the controller back, and the finalizer goes when it finds none.         *)
deleteResources(r) ==
    /\ Working(r, "deleteResources")
    /\ LET found == ModuleDaemonSets(r)
           foundClasses == ModuleDeviceClasses(r)
       IN /\ found # {} \/ foundClasses # {}
          /\ \E gone \in SUBSET found, goneClasses \in SUBSET foundClasses :
                /\ daemonSet' = [daemonSet EXCEPT ![r] =
                                   [v \in Versions |-> IF v \in gone THEN NoDaemonSet ELSE @[v]]]
                /\ classes' = classes \ goneClasses
                /\ Loop(r, gone = found /\ goneClasses = foundClasses, "clearStatus",
                        (IF gone = {} THEN {} ELSE Roles) \cup (IF goneClasses = {} THEN {} ELSE {"dra"}))
    /\ UNCHANGED <<module, node, changes>>

(* Mutant: the finalizer does not wait for the DaemonSets to go. *)
removeFinalizerEarly(r) ==
    /\ Working(r, "deleteResources")
    /\ ModuleDeviceClasses(r) = {}
    /\ LET held == r \in task[r].mod.finalizers
           released == [task[r].mod EXCEPT !.finalizers = @ \ {r}]
       IN \/ /\ held /\ module # task[r].mod
             /\ End(r, TRUE, {})
             /\ UNCHANGED module
          \/ /\ ~held
             /\ Step(r, "clearStatus")
             /\ UNCHANGED <<module, queue>>
          \/ /\ held /\ module = task[r].mod
             /\ module' = IF released.phase = "deleting" /\ released.finalizers = {}
                          THEN Absent ELSE released
             /\ queue' = queue \cup Roles
             /\ task' = [task EXCEPT ![r].step = "clearStatus", ![r].mod = released]
    /\ UNCHANGED <<node, daemonSet, classes, changes, failures>>

removeFinalizer(r) ==
    /\ Working(r, "deleteResources")
    /\ ModuleDaemonSets(r) = {} /\ ModuleDeviceClasses(r) = {}
    /\ LET held == r \in task[r].mod.finalizers
           released == [task[r].mod EXCEPT !.finalizers = @ \ {r}]
       IN \/ /\ held /\ module # task[r].mod
             /\ End(r, TRUE, {})
             /\ UNCHANGED module
          \/ /\ ~held
             /\ Step(r, "clearStatus")
             /\ UNCHANGED <<module, queue>>
          \/ /\ held /\ module = task[r].mod
             /\ module' = IF released.phase = "deleting" /\ released.finalizers = {}
                          THEN Absent ELSE released
             /\ queue' = queue \cup Roles
             /\ task' = [task EXCEPT ![r].step = "clearStatus", ![r].mod = released]
    /\ UNCHANGED <<node, daemonSet, classes, changes, failures>>

(* Mutant: the status of a removed section stays. *)
clearStatusSkipped(r) ==
    /\ Working(r, "clearStatus")
    /\ End(r, FALSE, {})
    /\ UNCHANGED <<module, node, daemonSet, classes, changes, failures>>

(* A Module that lives on without the section gets an empty status.        *)
clearStatus(r) ==
    /\ Working(r, "clearStatus")
    /\ LET clear == /\ task[r].mod.phase = "live" /\ module.phase # "none"
                    /\ task[r].mod.status[r] # NoStatus
       IN /\ module' = IF clear THEN [module EXCEPT !.status[r] = NoStatus] ELSE module
          /\ End(r, FALSE, IF module' = module THEN {} ELSE Roles)
    /\ UNCHANGED <<node, daemonSet, classes, changes, failures>>

(* What the rest of Reconcile reads of the Module.                         *)
SpecOf(m) == [Absent EXCEPT !.phase = m.phase, !.version = m.version, !.sections = m.sections,
                            !.classes = m.classes]

(* setFinalizer, with the resource version; then the DaemonSets and        *)
(* DeviceClasses are listed once for the whole Reconcile.                  *)
setFinalizer(r) ==
    /\ Working(r, "setFinalizer")
    /\ LET has == r \in task[r].mod.finalizers
           patched == [task[r].mod EXCEPT !.finalizers = @ \cup {r}]
       IN \/ /\ ~has /\ module # task[r].mod
             /\ End(r, TRUE, {})
             /\ UNCHANGED module
          \/ /\ has \/ module = task[r].mod
             /\ module' = IF has THEN module ELSE patched
             /\ queue' = IF has THEN queue ELSE queue \cup Roles
             /\ task' = [task EXCEPT ![r] = [step |-> "targetLabels", mod |-> SpecOf(patched),
                                             existing |-> daemonSet[r],
                                             existingClasses |-> ModuleDeviceClasses(r)]]
    /\ UNCHANGED <<node, daemonSet, classes, changes, failures>>

(* Only nodes the selector matches are reconciled.                         *)
Targeted(n, r) ==
    IF ~node[n].selected THEN node[n].target
    ELSE IF node[n].tainted THEN node[n].target \ {r} ELSE node[n].target \cup {r}

handleTargetLabels(r) ==
    /\ Working(r, "targetLabels")
    /\ \E done \in SUBSET Nodes :
          /\ node' = [n \in Nodes |-> IF n \in done
                                      THEN [node[n] EXCEPT !.target = Targeted(n, r)] ELSE node[n]]
          /\ Loop(r, done = Nodes, "daemonSets", NodesEvents(node'))
    /\ UNCHANGED <<module, daemonSet, classes, changes>>

(* isOlderVersionUnusedDevicePluginDaemonset, isOlderVersionUnusedDRADaemonSet: *)
(* unused is what the status of the listed DaemonSet says.                 *)
OlderVersionUnused(r, v) ==
    /\ task[r].existing[v].exists
    /\ v # task[r].mod.version
    /\ task[r].existing[v].desired = 0

(* What garbageCollect is left to delete of the list.                      *)
Unused(r) == {v \in Versions : OlderVersionUnused(r, v)}

(* The DaemonSet of the version is in the list, or else made anew.         *)
Deployed(ds) == [ds EXCEPT !.exists = TRUE]

(* handleDevicePlugin, handleDRA: the DaemonSet of the Module's version is *)
(* patched, or created under a generated name if the list has none; then   *)
(* garbageCollect deletes the unused ones of the list.                     *)
handleDaemonSets(r) ==
    /\ Working(r, "daemonSets")
    /\ \E gone \in SUBSET Unused(r) :
             /\ daemonSet' = [daemonSet EXCEPT ![r] =
                    [v \in Versions |-> CASE v \in gone -> NoDaemonSet
                                         [] v = task[r].mod.version -> Deployed(@[v])
                                         [] OTHER -> @[v]]]
             /\ Loop(r, gone = Unused(r), IF r = "dra" THEN "deviceClasses" ELSE "updateStatus",
                     IF daemonSet' = daemonSet THEN {} ELSE Roles)
    /\ UNCHANGED <<module, node, classes, changes>>

(* Mutant: DeviceClasses that are no longer asked for stay. *)
handleDeviceClassesKeeps ==
    /\ Working("dra", "deviceClasses")
    /\ LET missing == task["dra"].mod.classes \ classes
           extra == {}
       IN \E made \in SUBSET missing, gone \in SUBSET extra :
             /\ classes' = (classes \cup made) \ gone
             /\ Loop("dra", made = missing /\ gone = extra, "updateStatus",
                     IF classes' = classes THEN {} ELSE {"dra"})
    /\ UNCHANGED <<module, node, daemonSet, changes>>

(* Missing ones are created, listed ones that are not wanted deleted.      *)
handleDeviceClasses ==
    /\ Working("dra", "deviceClasses")
    /\ LET missing == task["dra"].mod.classes \ classes
           extra == task["dra"].existingClasses \ task["dra"].mod.classes
       IN \E made \in SUBSET missing, gone \in SUBSET extra :
             /\ classes' = (classes \cup made) \ gone
             /\ Loop("dra", made = missing /\ gone = extra, "updateStatus",
                     IF classes' = classes THEN {} ELSE {"dra"})
    /\ UNCHANGED <<module, node, daemonSet, changes>>

NumTargeted == Cardinality({n \in Nodes : node[n].selected /\ ~node[n].tainted})

(* The nodes are counted now, the available Pods in the DaemonSets listed  *)
(* at the start.                                                           *)
AvailableNumber(r) == SumFunction([v \in Versions |-> task[r].existing[v].available])

moduleUpdateStatus(r) ==
    /\ Working(r, "updateStatus")
    /\ LET status == [matching |-> NumTargeted, available |-> AvailableNumber(r)]
           found == module.phase # "none"
       IN /\ module' = IF found THEN [module EXCEPT !.status[r] = status] ELSE module
          /\ End(r, ~found, IF module' = module THEN {} ELSE Roles)
    /\ UNCHANGED <<node, daemonSet, classes, changes, failures>>

(* A call outside the loops over nodes fails and is retried.               *)
CallFails(r) ==
    /\ failures < MaxFailures
    /\ task[r].step \in {"setFinalizer", "daemonSets", "updateStatus", "clearStatus"}
    /\ failures' = failures + 1
    /\ End(r, TRUE, {})
    /\ UNCHANGED <<module, node, daemonSet, classes, changes>>

Controller(r) ==
    \/ StartReconcile(r)
    \/ removeTargetLabels(r) \/ deleteResources(r) \/ removeFinalizer(r) \/ clearStatus(r)
    \/ setFinalizer(r) \/ handleTargetLabels(r) \/ handleDaemonSets(r)
    \/ r = "dra" /\ handleDeviceClasses
    \/ moduleUpdateStatus(r)

-----------------------------------------------------------------------------
(* The DaemonSet controller, and the status that the Module controller     *)
(* writes                                                                  *)

(* The node selector of setDevicePluginAsDesired and setDRAAsDesired.      *)
Matches(r, v, n) == r \in node[n].target /\ node[n].schedule = v

Desired(r, v) == Cardinality({n \in Nodes : Matches(r, v, n)})

(* The Pods of the matching nodes become available, all or none.           *)
DaemonSetStatus(r, v) ==
    /\ daemonSet[r][v].exists
    /\ \E available \in {0, Desired(r, v)} :
          /\ daemonSet' = [daemonSet EXCEPT ![r][v] = [exists |-> TRUE, desired |-> Desired(r, v),
                                                        available |-> available]]
          /\ daemonSet[r][v].desired # Desired(r, v) \/ daemonSet[r][v].available < available
    /\ queue' = queue \cup Roles
    /\ UNCHANGED <<module, node, classes, task, changes, failures>>

ModuleStatus ==
    /\ module.phase # "none" /\ module.matching # NumTargeted
    /\ module' = [module EXCEPT !.matching = NumTargeted]
    /\ queue' = queue \cup Roles
    /\ UNCHANGED <<node, daemonSet, classes, task, changes, failures>>

Cluster ==
    \/ \E r \in Roles, v \in Versions : DaemonSetStatus(r, v)
    \/ ModuleStatus

-----------------------------------------------------------------------------
(* Users and nodes                                                         *)

WriteModule(m) ==
    /\ changes < MaxChanges /\ changes' = changes + 1
    /\ module' = m
    /\ queue' = queue \cup Roles
    /\ UNCHANGED <<node, daemonSet, classes, task, failures>>

CreateModule ==
    /\ module.phase = "none"
    /\ \E s \in SectionSets, c \in SUBSET Classes :
          /\ "dra" \in s \/ c = {}
          /\ WriteModule([Absent EXCEPT !.phase = "live", !.sections = s, !.classes = c])

(* The webhook keeps a DRA section; a device plugin may give way to one.   *)
EditModule ==
    /\ module.phase = "live"
    /\ \/ \E v \in Versions \ {module.version} : WriteModule([module EXCEPT !.version = v])
       \/ \E s \in SectionSets \ {module.sections} :
             /\ <<module.sections, s>> \in SectionEdits
             /\ "dra" \in module.sections => "dra" \in s
             /\ WriteModule([module EXCEPT !.sections = s])
       \/ \E c \in (SUBSET Classes) \ {module.classes} :
             "dra" \in module.sections /\ WriteModule([module EXCEPT !.classes = c])

DeleteModule ==
    /\ module.phase = "live"
    /\ WriteModule(IF module.finalizers = {} THEN Absent ELSE [module EXCEPT !.phase = "deleting"])

UpdateNode(n, new) ==
    /\ node' = [node EXCEPT ![n] = new]
    /\ queue' = queue \cup NodesEvents(node')
    /\ UNCHANGED <<module, daemonSet, classes, task, failures>>

WriteNode(n, new) == changes < MaxChanges /\ changes' = changes + 1 /\ UpdateNode(n, new)

RelabelNode(n) == WriteNode(n, [node[n] EXCEPT !.selected = ~@])

TaintNode(n) == WriteNode(n, [node[n] EXCEPT !.tainted = ~@])

(* The NMC controller and the version label controller let the Pods of a   *)
(* version on the node, take them off for an upgrade, or because the       *)
(* kernel module is no longer ready.                                       *)
SchedulePods(n) ==
    /\ node[n].schedule = 0 /\ module.phase = "live"
    /\ UpdateNode(n, [node[n] EXCEPT !.schedule = module.version])
    /\ UNCHANGED changes

UnschedulePods(n) ==
    /\ node[n].schedule # 0
    /\ \/ /\ module.phase = "live" /\ node[n].schedule # module.version
          /\ UpdateNode(n, [node[n] EXCEPT !.schedule = 0])
          /\ UNCHANGED changes
       \/ /\ node[n].schedule = module.version
          /\ WriteNode(n, [node[n] EXCEPT !.schedule = 0])

Users ==
    \/ CreateModule \/ EditModule \/ DeleteModule
    \/ \E n \in Nodes : \/ RelabelNode(n) \/ TaintNode(n)
                       \/ SchedulePods(n) \/ UnschedulePods(n)

-----------------------------------------------------------------------------

Next ==
    \/ \E r \in Roles : Controller(r) \/ CallFails(r)
    \/ Cluster
    \/ Users

(* Each controller's worker and the cluster's own controllers keep         *)
(* running; users and failures owe nothing.                                *)
Fairness == /\ \A r \in Roles : WF_vars(Controller(r))
            /\ WF_vars(Cluster)

Spec == Init /\ [][Next]_vars /\ Fairness

-----------------------------------------------------------------------------
(* Properties                                                              *)

Wanted(r) == module.phase = "live" /\ r \in module.sections

(* Nothing is left for the controllers or the cluster to do.               *)
AtRest ==
    /\ queue = {} /\ \A r \in Roles : Working(r, "idle")
    /\ module.phase # "none" => module.matching = NumTargeted
    /\ \A r \in Roles, v \in Versions : daemonSet[r][v].exists =>
          daemonSet[r][v].desired = Desired(r, v) /\ daemonSet[r][v].available = Desired(r, v)

(* When the Module is gone, nothing of it is left in the cluster: no       *)
(* DaemonSet, no target label, no DeviceClass.  That is what the           *)
(* finalizers of both controllers are for, whichever of them ends first,   *)
(* whatever failed and whenever the Module was deleted or its section      *)
(* removed.                                                                *)
NoLeftovers ==
    module.phase = "none" =>
        /\ \A r \in Roles, v \in Versions : ~daemonSet[r][v].exists
        /\ \A n \in Nodes : node[n].target = {}
        /\ classes = {}

(* At rest a section that the Module has is deployed: the DaemonSet of its *)
(* version exists, older ones only while they have a node, and for DRA the *)
(* selected nodes carry the target label unless they are tainted and the   *)
(* DeviceClasses are the ones asked for.  A section it has not, or no      *)
(* longer, leaves nothing.                                                 *)
SectionsRestRight ==
    AtRest => \A r \in Roles :
        IF Wanted(r)
        THEN /\ daemonSet[r][module.version].exists
             /\ \A v \in Versions \ {module.version} :
                   daemonSet[r][v].exists => daemonSet[r][v].desired > 0
             /\ r = "dra" => /\ classes = module.classes
                             /\ \A n \in Nodes : node[n].selected =>
                                   ("dra" \in node[n].target <=> ~node[n].tainted)
        ELSE /\ \A v \in Versions : ~daemonSet[r][v].exists
             /\ \A n \in Nodes : r \notin node[n].target
             /\ r = "dra" => classes = {}

(* At rest the status of a section counts its Pods, and for DRA the nodes  *)
(* it targets, though it is computed from DaemonSets listed at the         *)
(* start of a Reconcile; the status of a removed section is empty.  The    *)
(* device plugin's node count is not covered: no event of its own brings   *)
(* the controller back when a node stops being selected.                   *)
CountsRestRight ==
    (AtRest /\ module.phase = "live") => \A r \in Roles :
        IF r \in module.sections
        THEN /\ module.status[r].available =
                    SumFunction([v \in Versions |-> IF daemonSet[r][v].exists THEN Desired(r, v) ELSE 0])
             /\ r = "dra" => module.status[r].matching = NumTargeted
        ELSE module.status[r] = NoStatus

(* A Module that is deleted goes: neither controller waits for the other,  *)
(* for an event that never comes, or for a Pod.                            *)
TeardownCompletes == module.phase = "deleting" ~> module.phase = "none"

=============================================================================
