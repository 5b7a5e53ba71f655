-------------------------- MODULE ModuleScheduling --------------------------
(***************************************************************************)
(* The Module controller (internal/controllers/module_reconciler.go): one  *)
(* worker that turns every Module into entries of the NodeModulesConfig    *)
(* (NMC) of each node, into the image list of the Module's MIC, and into   *)
(* the label that protects the Module's namespace.  One action per API     *)
(* call of Reconcile; users, nodes, the NMC controller and the image       *)
(* pipeline change the objects in between.  The client reads Modules, NMCs *)
(* and Namespaces from caches that lag behind, the controller's own writes *)
(* included.                                                               *)
(***************************************************************************)
EXTENDS Naturals, FiniteSets

CONSTANTS
    Nodes,          \* the nodes of the cluster
    Modules,        \* the Module names
    Namespaces,     \* their namespaces
    NamespaceOf,    \* [Modules -> Namespaces]
    Versioned,      \* Modules whose spec has a container version
    Loaderless,     \* Modules without a moduleLoader section
    Kernels,        \* kernel versions of the nodes
    MaxRev,         \* bound: revisions of a Module's spec (a version, if Versioned)
    Mapping,        \* [(1..MaxRev) \X Kernels -> {"image", "none", "error"}]
    Booted,         \* [Nodes -> Kernels]: what each node runs when the manager starts
    MaxDisturbances, \* bound: changes users and nodes make, API calls that fail, and
                    \* writes the watches do not deliver at once
    None            \* no value

Revs == 1..MaxRev
Images == Revs \X Kernels

ASSUME SchedulingAssumption ==
    /\ Nodes # {} /\ IsFiniteSet(Nodes) /\ IsFiniteSet(Modules)
    /\ NamespaceOf \in [Modules -> Namespaces]
    /\ Versioned \subseteq Modules /\ Loaderless \subseteq Modules
    /\ MaxRev \in Nat \ {0} /\ MaxDisturbances \in Nat
    /\ Booted \in [Nodes -> Kernels]
    /\ Mapping \in [Images -> {"image", "none", "error"}]
    /\ None \notin Images /\ None \notin Modules /\ None \notin Revs

VARIABLES
    module,     \* the Module objects
    node,       \* the Node objects: selecting Modules, taint, kernel, worker version labels
    nmc,        \* the NMC objects: spec and status entries, configured and in-use labels
    mic,        \* per Module: whether its MIC is there, the images it asks for and those
                \* reported to exist
    label,      \* namespaces that carry constants.NamespaceLabelKey
    cached,     \* the client's copies of Modules, NMCs and Namespace labels
    moduleEvents, \* Modules with an event that is not delivered yet
    nmcEvents,  \* Modules named by the NMC events that are not delivered yet
    queue,      \* the work queue
    task,       \* the Reconcile in progress
    disturbances, \* how much of MaxDisturbances is used
    \* History: no action looks at these.
    misjudged,  \* <<node, Module>>: what an old copy of the NMC made go wrong
    unset,      \* namespaces whose label setLabel took to be there and was not
    leaked      \* namespaces whose label nobody will remove

objects == <<module, node, nmc, mic, label>>

events == <<moduleEvents, nmcEvents>>

history == <<misjudged, unset, leaked>>

vars == <<objects, cached, events, queue, task, disturbances, history>>

-----------------------------------------------------------------------------
(* Objects                                                                 *)

NoStatus == [matching |-> 0, desired |-> 0, available |-> 0]

ModuleObject == [phase: {"none", "live", "deleting"}, finalizer: BOOLEAN, rev: Revs,
                 status: [matching: 0..Cardinality(Nodes), desired: 0..Cardinality(Nodes),
                          available: 0..Cardinality(Nodes)]]

Absent == [phase |-> "none", finalizer |-> FALSE, rev |-> 1, status |-> NoStatus]

NodeObject == [selected: SUBSET Modules, tainted: BOOLEAN, kernel: Kernels,
               worker: [Modules -> Revs \cup {None}]]

(* spec.modules and status.modules by Module; the two kinds of labels.     *)
NMCObject == [exists: BOOLEAN, spec: [Modules -> Images \cup {None}],
              status: [Modules -> Images \cup {None}],
              configured: SUBSET Modules, inUse: SUBSET Modules]

EmptyNMC == [exists |-> FALSE, spec |-> [m \in Modules |-> None],
             status |-> [m \in Modules |-> None], configured |-> {}, inUse |-> {}]

NoMIC == [made |-> FALSE, spec |-> {}, exists |-> {}]

(* stale: the Module has changed since the Reconcile got its copy, mod.    *)
Idle == [step |-> "idle", m |-> None, mod |-> Absent, stale |-> FALSE, matching |-> 0,
         todo |-> [n \in Nodes |-> "nothing"],
         targeted |-> [n \in Nodes |-> None], failed |-> FALSE]

Steps == {"idle", "tryRemovingLabel", "finalizeModule", "setLabel", "setFinalizer",
          "handleMIC", "schedule"}

TypeOK ==
    /\ module \in [Modules -> ModuleObject]
    /\ node \in [Nodes -> NodeObject]
    /\ nmc \in [Nodes -> NMCObject]
    /\ mic \in [Modules -> [made: BOOLEAN, spec: SUBSET Images, exists: SUBSET Images]]
    /\ label \subseteq Namespaces
    /\ cached \in [module: [Modules -> ModuleObject], nmc: [Nodes -> NMCObject],
                   label: SUBSET Namespaces]
    /\ moduleEvents \subseteq Modules
    /\ nmcEvents \in [Nodes -> SUBSET Modules]
    /\ queue \subseteq Modules
    /\ task \in [step: Steps, m: Modules \cup {None}, mod: ModuleObject, stale: BOOLEAN,
                 matching: 0..Cardinality(Nodes),
                 todo: [Nodes -> {"nothing", "add", "delete"}],
                 targeted: [Nodes -> Images \cup {None}], failed: BOOLEAN]
    /\ disturbances \in 0..MaxDisturbances
    /\ misjudged \subseteq Nodes \X Modules
    /\ unset \subseteq Namespaces /\ leaked \subseteq Namespaces

Created == [Absent EXCEPT !.phase = "live"]

(* The manager starts, with or without Modules there already.              *)
Init ==
    /\ module \in [Modules -> {Absent, Created}]
    /\ node = [n \in Nodes |-> [selected |-> Modules, tainted |-> FALSE, kernel |-> Booted[n],
                                worker |-> [m \in Modules |-> None]]]
    /\ nmc = [n \in Nodes |-> EmptyNMC]
    /\ mic = [m \in Modules |-> NoMIC]
    /\ label = {}
    /\ cached = [module |-> module, nmc |-> nmc, label |-> {}]
    /\ moduleEvents = {}
    /\ nmcEvents = [n \in Nodes |-> {}]
    /\ queue = {m \in Modules : module[m] = Created} /\ task = Idle
    /\ disturbances = 0
    /\ misjudged = {} /\ unset = {} /\ leaked = {}

-----------------------------------------------------------------------------
(* Events: which changes queue which Modules                               *)

\* Mutants: the in-use labels are forgotten; only a change of labels counts.
ListModulesForNMCConfigured(old, new) == old.configured \cup new.configured
ListModulesForNMCLabels(old, new) ==
    IF old.configured = new.configured /\ old.inUse = new.inUse THEN {}
    ELSE old.configured \cup old.inUse \cup new.configured \cup new.inUse

(* ListModulesForNMC: the Modules an NMC event names by its labels, of the *)
(* object before and after the change.                                     *)
ListModulesForNMC(old, new) ==
    old.configured \cup old.inUse \cup new.configured \cup new.inUse

(* A write of an NMC.  The watch delivers it, with the events it makes, at *)
(* once or later.                                                          *)
WriteNMC(n, new) ==
    LET named == nmcEvents[n] \cup ListModulesForNMC(nmc[n], new)
    IN /\ nmc' = [nmc EXCEPT ![n] = new]
       /\ \/ /\ new = nmc[n]
             /\ UNCHANGED <<cached, nmcEvents, queue>>
          \/ /\ new # nmc[n]
             /\ nmcEvents' = [nmcEvents EXCEPT ![n] = named]
             /\ UNCHANGED <<cached, queue>>
          \/ /\ new # nmc[n]
             /\ cached' = [cached EXCEPT !.nmc[n] = new]
             /\ nmcEvents' = [nmcEvents EXCEPT ![n] = {}]
             /\ queue' = queue \cup named

(* ModuleReconcilerNodePredicate: only taints and labels count, not the    *)
(* kernel.                                                                 *)
NodeEvent(old, new) ==
    old.tainted # new.tainted \/ old.selected # new.selected \/ old.worker # new.worker

(* FindModulesForNMCNodeChange, for the node before and after the change:  *)
(* the Modules that select it and those its NMC holds.                     *)
FindModulesForNMCNodeChange(n, old, new) ==
    {m \in Modules : cached.module[m].phase # "none" /\ m \in old.selected \cup new.selected}
    \cup {m \in Modules : cached.nmc[n].spec[m] # None}

WriteNode(n, new) ==
    /\ node' = [node EXCEPT ![n] = new]
    /\ queue' = IF NodeEvent(node[n], new)
                THEN queue \cup FindModulesForNMCNodeChange(n, node[n], new) ELSE queue

(* A write of a Module, its status included, delivered at once or later.   *)
WriteModule(m, new, waiting) ==
    /\ module' = [module EXCEPT ![m] = new]
    /\ \/ /\ new = module[m]
          /\ queue' = waiting
          /\ UNCHANGED <<cached, moduleEvents>>
       \/ /\ new # module[m]
          /\ moduleEvents' = moduleEvents \cup {m}
          /\ queue' = waiting
          /\ UNCHANGED cached
       \/ /\ new # module[m]
          /\ cached' = [cached EXCEPT !.module[m] = new]
          /\ moduleEvents' = moduleEvents \ {m}
          /\ queue' = waiting \cup {m}

(* It makes a Reconcile's copy of the Module old.                          *)
Outdated(m) == IF task.m = m THEN [task EXCEPT !.stale = TRUE] ELSE task

(* A write of a Namespace, whose events the controller does not watch.     *)
WriteLabel(new) ==
    /\ label' = new
    /\ cached' \in {cached, [cached EXCEPT !.label = new]}

Disturbance == disturbances < MaxDisturbances /\ disturbances' = disturbances + 1

(* A write delivered late is one.                                          *)
CountDelay ==
    IF <<module, nmc, label>>' # <<module, nmc, label>> /\ cached' = cached
    THEN Disturbance ELSE UNCHANGED disturbances

(* The watches deliver what happened to a Module...                        *)
DeliverModule(m) ==
    /\ m \in moduleEvents
    /\ cached' = [cached EXCEPT !.module[m] = module[m]]
    /\ moduleEvents' = moduleEvents \ {m}
    /\ queue' = queue \cup {m}
    /\ UNCHANGED <<objects, nmcEvents, task, disturbances, history>>

(* ...to a node's NMC...                                                   *)
DeliverNMC(n) ==
    /\ cached.nmc[n] # nmc[n] \/ nmcEvents[n] # {}
    /\ cached' = [cached EXCEPT !.nmc[n] = nmc[n]]
    /\ queue' = queue \cup nmcEvents[n]
    /\ nmcEvents' = [nmcEvents EXCEPT ![n] = {}]
    /\ UNCHANGED <<objects, moduleEvents, task, disturbances, history>>

(* ...and to a Namespace.                                                  *)
DeliverNamespace(ns) ==
    /\ ns \in cached.label <=> ns \notin label
    /\ cached' = [cached EXCEPT !.label = IF ns \in label THEN @ \cup {ns} ELSE @ \ {ns}]
    /\ UNCHANGED <<objects, events, queue, task, disturbances, history>>

-----------------------------------------------------------------------------
(* Reconcile                                                               *)

Working(step) == task.step = step

End(failed) ==
    /\ task' = Idle
    /\ queue' = IF failed THEN queue \cup {task.m} ELSE queue

\* Mutant: a live Module goes straight to its finalizer.
StartReconcileNoLabel(m) ==
    /\ Working("idle")
    /\ m \in queue
    /\ queue' = queue \ {m}
    /\ LET mod == cached.module[m]
           started == [Idle EXCEPT !.m = m, !.mod = mod, !.stale = m \in moduleEvents]
       IN task' = CASE mod.phase = "none" -> Idle
                    [] mod.phase = "deleting" -> [started EXCEPT !.step = "tryRemovingLabel"]
                    [] OTHER -> [started EXCEPT !.step = "setFinalizer"]
    /\ UNCHANGED <<objects, cached, events, disturbances, history>>

(* Reconcile is given the cached Module.                                   *)
StartReconcile(m) ==
    /\ Working("idle")
    /\ m \in queue
    /\ queue' = queue \ {m}
    /\ LET mod == cached.module[m]
           started == [Idle EXCEPT !.m = m, !.mod = mod, !.stale = m \in moduleEvents]
       IN task' = CASE mod.phase = "none" -> Idle
                    [] mod.phase = "deleting" -> [started EXCEPT !.step = "tryRemovingLabel"]
                    [] OTHER -> [started EXCEPT !.step = "setLabel"]
    /\ UNCHANGED <<objects, cached, events, disturbances, history>>

\* Mutant: Modules that are being deleted keep the label too.
AllModules(ns) == {m \in Modules : NamespaceOf[m] = ns /\ cached.module[m].phase # "none"}

(* Only Modules that are not being deleted keep the label.                 *)
LiveModules(ns) == {m \in Modules : NamespaceOf[m] = ns /\ cached.module[m].phase = "live"}

(* The Modules and the Namespace come from the cache; where that copy has  *)
(* no label the patch is empty.                                            *)
tryRemovingLabel ==
    /\ Working("tryRemovingLabel")
    /\ LET namespace == NamespaceOf[task.m]
           unused == LiveModules(namespace) = {}
           seen == namespace \in cached.label
       IN /\ WriteLabel(IF unused /\ seen THEN label \ {namespace} ELSE label)
          /\ leaked' = CASE unused /\ seen -> leaked \ {namespace}
                         [] unused /\ ~seen /\ namespace \in label -> leaked \cup {namespace}
                         [] OTHER -> leaked
    /\ task' = [task EXCEPT !.step = "finalizeModule",
                            !.todo = [n \in Nodes |-> IF task.m \in cached.nmc[n].configured
                                                      THEN "delete" ELSE "nothing"]]
    /\ UNCHANGED <<module, node, nmc, mic, events, queue, misjudged, unset>>
    /\ CountDelay

(* CreateOrPatch of an NMC: the merge patch is the difference between the  *)
(* cached object and the wanted one.  spec.modules is a list and goes into *)
(* the patch as a whole; labels go one by one.                             *)
Patched(cur, copy, want) ==
    [cur EXCEPT !.exists = TRUE,
                !.spec = IF want.spec = copy.spec THEN @ ELSE want.spec,
                !.configured = (@ \cup (want.configured \ copy.configured))
                                  \ (copy.configured \ want.configured),
                !.inUse = @ \cup (want.inUse \ copy.inUse)]

(* A patch made from an old copy may change another Module's entry, or not *)
(* have the effect it was meant to have on Module m: image or no image.    *)
Judge(n, m, new, image) ==
    LET right == /\ new.spec[m] = image
                 /\ m \in new.configured <=> image # None
                 /\ image # None => m \in new.inUse
        hit == IF cached.nmc[n] = nmc[n] THEN {}
               ELSE {k \in Modules \ {m} : new.spec[k] # nmc[n].spec[k]}
                        \cup (IF right THEN {} ELSE {m})
    IN misjudged' = (misjudged \ (IF right /\ image # None THEN {<<n, m>>} ELSE {}))
                        \cup ({n} \X hit)

PatchNMC(n, m, want, image) ==
    LET new == Patched(nmc[n], cached.nmc[n], want)
    IN WriteNMC(n, new) /\ Judge(n, m, new, image)

(* An NMC the cache does not know yet is created, which fails if it        *)
(* exists.                                                                 *)
CreateConflict(n) == nmc[n].exists /\ ~cached.nmc[n].exists

(* RemoveModuleConfig and the configured label.                            *)
removeModuleFromNMC(n, m) ==
    PatchNMC(n, m, [cached.nmc[n] EXCEPT !.spec[m] = None, !.configured = @ \ {m}], None)

FinalizeNode(n) ==
    /\ Working("finalizeModule")
    /\ task.todo[n] = "delete"
    /\ removeModuleFromNMC(n, task.m)
    /\ task' = [task EXCEPT !.todo[n] = "nothing"]
    /\ UNCHANGED <<module, node, mic, label, moduleEvents, unset, leaked>>
    /\ CountDelay

(* The finalizer goes, and with it the Module and the MIC it owns.  The    *)
(* patch carries the resource version of the Reconcile's copy.             *)
Release(m, inUse) ==
    LET release == ~task.failed /\ ~inUse /\ ~task.stale
        again == task.failed \/ (~inUse /\ task.stale)
    IN /\ task' = Idle
       /\ WriteModule(m, IF release THEN Absent ELSE module[m],
                      IF again THEN queue \cup {m} ELSE queue)
       /\ mic' = IF release THEN [mic EXCEPT ![m] = NoMIC] ELSE mic
       /\ misjudged' = IF release
                       THEN misjudged \cup ({n \in Nodes : m \in nmc[n].inUse \ cached.nmc[n].inUse}
                                                 \X {m})
                       ELSE misjudged

\* Mutant: the configured label is looked at instead of the in-use label.
finalizeModuleEarly ==
    /\ Working("finalizeModule")
    /\ \A n \in Nodes : task.todo[n] = "nothing"
    /\ Release(task.m, \E n \in Nodes : task.m \in cached.nmc[n].configured)
    /\ UNCHANGED <<node, nmc, label, nmcEvents, unset, leaked>>
    /\ CountDelay

(* After the last node: an error ends the Reconcile, an NMC that is still  *)
(* in use keeps the finalizer.                                             *)
finalizeModule ==
    /\ Working("finalizeModule")
    /\ \A n \in Nodes : task.todo[n] = "nothing"
    /\ Release(task.m, \E n \in Nodes : task.m \in cached.nmc[n].inUse)
    /\ UNCHANGED <<node, nmc, label, nmcEvents, unset, leaked>>
    /\ CountDelay

(* The label is not set where the cached Namespace has it.                 *)
setLabel ==
    /\ Working("setLabel")
    /\ LET namespace == NamespaceOf[task.m]
       IN IF namespace \in cached.label
          THEN /\ UNCHANGED <<label, cached>>
               /\ unset' = IF namespace \in label THEN unset ELSE unset \cup {namespace}
          ELSE WriteLabel(label \cup {namespace}) /\ unset' = unset \ {namespace}
    /\ task' = [task EXCEPT !.step = "setFinalizer"]
    /\ UNCHANGED <<module, node, nmc, mic, events, queue, misjudged, leaked>>
    /\ CountDelay

(* The finalizer patch carries the resource version.  A Module without     *)
(* moduleLoader ends here with an empty status.                            *)
setFinalizerAndStatus ==
    /\ Working("setFinalizer")
    /\ LET m == task.m
           patched == [task.mod EXCEPT !.finalizer = TRUE]
       IN \/ /\ ~task.mod.finalizer /\ task.stale
             /\ End(TRUE)
             /\ UNCHANGED <<module, cached, moduleEvents>>
          \/ /\ task.mod.finalizer \/ ~task.stale
             /\ WriteModule(m, IF task.mod.finalizer THEN module[m] ELSE patched, queue)
             /\ task' = IF m \in Loaderless THEN Idle
                        ELSE [task EXCEPT !.step = "handleMIC", !.mod = patched]
    /\ UNCHANGED <<node, nmc, mic, label, nmcEvents, history>>
    /\ CountDelay

(* GetSchedulableNodesBySelector and IsNodeSchedulable.                    *)
TargetedNodes(m) == {n \in Nodes : m \in node[n].selected /\ ~node[n].tainted}

\* Mutant: a node whose kernel has no mapping is left alone.
prepareNodeSchedulingDataKeeps(n, m, mld, current) ==
    CASE mld = None -> "nothing"
      [] mld # None /\ (m \notin Versioned \/ node[n].worker[m] = mld[1]) -> "add"
      [] mld # None /\ m \in Versioned /\ node[n].worker[m] = None -> "delete"
      [] OTHER -> "nothing"

(* prepareNodeSchedulingData; mld is None when no mapping fits the kernel. *)
prepareNodeSchedulingData(n, m, mld, current) ==
    CASE mld = None -> IF n \in current THEN "delete" ELSE "nothing"
      [] mld # None /\ m \notin Versioned -> "add"
      [] mld # None /\ m \in Versioned /\ node[n].worker[m] = mld[1] -> "add"
      [] mld # None /\ m \in Versioned /\ node[n].worker[m] = None -> "delete"
      [] OTHER -> "nothing"

(* The image of a revision for a node's kernel.                            *)
Mld(n, rev) == IF Mapping[<<rev, node[n].kernel>>] = "image" THEN <<rev, node[n].kernel>> ELSE None

(* handleMIC writes the images of the targeted nodes into the MIC.  A node *)
(* whose mapping cannot be evaluated ends the Reconcile with an error, so  *)
(* prepareSchedulingData only sees nodes that can be.  An update of the    *)
(* MIC queues the Module, its creation does not.                           *)
handleMIC ==
    /\ Working("handleMIC")
    /\ LET m == task.m
           targeted == TargetedNodes(m)
           rev == task.mod.rev
           error == \E n \in targeted : Mapping[<<rev, node[n].kernel>>] = "error"
           images == {Mld(n, rev) : n \in targeted} \ {None}
           current == {n \in Nodes : m \in cached.nmc[n].configured}
       IN /\ mic' = [mic EXCEPT ![m].made = TRUE, ![m].spec = images]
          /\ \/ error /\ End(TRUE)
             \/ /\ ~error
                /\ task' = [task EXCEPT
                       !.step = "schedule",
                       !.targeted = [n \in Nodes |-> IF n \in targeted THEN Mld(n, rev) ELSE None],
                       !.matching = Cardinality(targeted),
                       !.todo = [n \in Nodes |->
                           IF n \in targeted
                           THEN prepareNodeSchedulingData(n, m, Mld(n, rev), current)
                           ELSE IF n \in current THEN "delete" ELSE "nothing"]]
                /\ queue' = IF mic[m].made /\ images # mic[m].spec THEN queue \cup {m} ELSE queue
    /\ UNCHANGED <<module, node, nmc, label, cached, events, disturbances, history>>

(* SetModuleConfig and both labels.                                        *)
enableModuleOnNode(n, m, image) ==
    PatchNMC(n, m, [cached.nmc[n] EXCEPT !.spec[m] = image, !.configured = @ \cup {m},
                                         !.inUse = @ \cup {m}], image)

disableModuleOnNode(n, m) == removeModuleFromNMC(n, m)

(* An image that is not reported to exist leaves the NMC alone.            *)
ImageMissing(n) == task.todo[n] = "add" /\ task.targeted[n] \notin mic[task.m].exists

ScheduleNode(n) ==
    /\ Working("schedule")
    /\ task.todo[n] # "nothing"
    /\ \/ /\ ImageMissing(n) \/ CreateConflict(n)
          /\ UNCHANGED <<nmc, cached, nmcEvents, queue, misjudged>>
       \/ /\ ~ImageMissing(n) /\ ~CreateConflict(n)
          /\ task.todo[n] = "add"
          /\ enableModuleOnNode(n, task.m, task.targeted[n])
       \/ /\ ~CreateConflict(n)
          /\ task.todo[n] = "delete"
          /\ disableModuleOnNode(n, task.m)
    /\ task' = [task EXCEPT !.todo[n] = "nothing",
                            !.failed = @ \/ (CreateConflict(n) /\ ~ImageMissing(n))]
    /\ UNCHANGED <<module, node, mic, label, moduleEvents, unset, leaked>>
    /\ CountDelay

(* updateModuleLoaderStatus, then the status patch: the fields that differ *)
(* from the Reconcile's copy are merged into whatever the Module has       *)
(* become.                                                                 *)
updateModuleStatus ==
    /\ Working("schedule")
    /\ \A n \in Nodes : task.todo[n] = "nothing"
    /\ LET m == task.m
           nmcs == {n \in Nodes : m \in cached.nmc[n].configured}
           loaded == {n \in nmcs : /\ cached.nmc[n].spec[m] # None
                                   /\ cached.nmc[n].status[m] = cached.nmc[n].spec[m]}
           status == [matching |-> task.matching,
                      desired |-> Cardinality(nmcs), available |-> Cardinality(loaded)]
           found == module[m].phase # "none"
           merged == [f \in {"matching", "desired", "available"} |->
                         IF status[f] = task.mod.status[f] THEN module[m].status[f] ELSE status[f]]
           new == [module[m] EXCEPT !.status = merged]
       IN /\ task' = Idle
          /\ WriteModule(m, IF found THEN new ELSE module[m],
                         IF task.failed \/ ~found THEN queue \cup {m} ELSE queue)
    /\ UNCHANGED <<node, nmc, mic, label, nmcEvents, history>>
    /\ CountDelay

(* An API call fails: for a node the loop goes on and the error is kept,   *)
(* elsewhere the Reconcile ends; both are retried.                         *)
CallFails ==
    /\ Disturbance
    /\ \/ /\ Working("finalizeModule") \/ Working("schedule")
          /\ \E n \in Nodes : /\ task.todo[n] # "nothing"
                              /\ task' = [task EXCEPT !.todo[n] = "nothing", !.failed = TRUE]
          /\ UNCHANGED queue
       \/ /\ ~Working("idle") /\ \A n \in Nodes : task.todo[n] = "nothing"
          /\ End(TRUE)
    /\ UNCHANGED <<objects, cached, events, history>>

ModuleController ==
    \/ \E m \in Modules : StartReconcile(m)
    \/ tryRemovingLabel
    \/ \E n \in Nodes : FinalizeNode(n)
    \/ finalizeModule
    \/ setLabel
    \/ setFinalizerAndStatus
    \/ handleMIC
    \/ \E n \in Nodes : ScheduleNode(n)
    \/ updateModuleStatus

-----------------------------------------------------------------------------
(* Users, nodes, the NMC controller and the image pipeline                 *)

CreateModule(m) ==
    /\ Disturbance
    /\ module[m].phase = "none"
    /\ WriteModule(m, Created, queue)
    /\ task' = Outdated(m)
    /\ UNCHANGED <<node, nmc, mic, label, nmcEvents, history>>

EditModule(m) ==
    /\ Disturbance
    /\ module[m].phase = "live" /\ module[m].rev < MaxRev
    /\ WriteModule(m, [module[m] EXCEPT !.rev = @ + 1], queue)
    /\ task' = Outdated(m)
    /\ UNCHANGED <<node, nmc, mic, label, nmcEvents, history>>

(* Without a finalizer the object is gone at once, its MIC with it, and no *)
(* Reconcile of it looks at the namespace's label again.                   *)
DeleteModule(m) ==
    /\ Disturbance
    /\ module[m].phase = "live"
    /\ \/ /\ module[m].finalizer
          /\ WriteModule(m, [module[m] EXCEPT !.phase = "deleting"], queue)
          /\ UNCHANGED <<mic, leaked>>
       \/ /\ ~module[m].finalizer
          /\ WriteModule(m, Absent, queue)
          /\ mic' = [mic EXCEPT ![m] = NoMIC]
          /\ leaked' = leaked \cup {NamespaceOf[m]}
    /\ task' = Outdated(m)
    /\ UNCHANGED <<node, nmc, label, nmcEvents, misjudged, unset>>

(* A node's labels stop or start matching a selector.                      *)
RelabelNode(n, m) ==
    /\ Disturbance
    /\ WriteNode(n, [node[n] EXCEPT !.selected = IF m \in @ THEN @ \ {m} ELSE @ \cup {m}])
    /\ UNCHANGED <<module, nmc, mic, label, cached, events, task, history>>

(* A taint no Module tolerates: a cordon, or a node that is not ready.     *)
TaintNode(n) ==
    /\ Disturbance
    /\ ~node[n].tainted
    /\ WriteNode(n, [node[n] EXCEPT !.tainted = TRUE])
    /\ UNCHANGED <<module, nmc, mic, label, cached, events, task, history>>

(* It comes back, perhaps rebooted into another kernel.                    *)
UntaintNode(n) ==
    /\ node[n].tainted
    /\ \E k \in Kernels : WriteNode(n, [node[n] EXCEPT !.tainted = FALSE, !.kernel = k])
    /\ UNCHANGED <<module, nmc, mic, label, cached, events, task, disturbances, history>>

(* The ordered upgrade sets or removes the worker version label.           *)
WorkerLabel(n, m) ==
    /\ Disturbance
    /\ m \in Versioned
    /\ \E v \in Revs \cup {None} :
          /\ v # node[n].worker[m]
          /\ WriteNode(n, [node[n] EXCEPT !.worker[m] = v])
    /\ UNCHANGED <<module, nmc, mic, label, cached, events, task, history>>

(* The image pipeline reports an image of the MIC; the MIC's update queues *)
(* its Module.                                                             *)
ImageAppears(m) ==
    /\ mic[m].spec \ mic[m].exists # {}
    /\ \E i \in mic[m].spec \ mic[m].exists : mic' = [mic EXCEPT ![m].exists = @ \cup {i}]
    /\ queue' = queue \cup {m}
    /\ UNCHANGED <<module, node, nmc, label, cached, events, task, disturbances, history>>

(* The NMC controller brings the node to what the spec says...             *)
NodeFollows(n, m) ==
    /\ nmc[n].status[m] # nmc[n].spec[m]
    /\ WriteNMC(n, [nmc[n] EXCEPT !.status[m] = nmc[n].spec[m]])
    /\ UNCHANGED <<module, node, mic, label, moduleEvents, task, history>>
    /\ CountDelay

(* ...and drops the in-use label of a Module in neither spec nor status.   *)
CollectInUse(n, m) ==
    /\ m \in nmc[n].inUse /\ nmc[n].spec[m] = None /\ nmc[n].status[m] = None
    /\ WriteNMC(n, [nmc[n] EXCEPT !.inUse = @ \ {m}])
    /\ UNCHANGED <<module, node, mic, label, moduleEvents, task, history>>
    /\ CountDelay

Users ==
    \/ \E m \in Modules : CreateModule(m) \/ EditModule(m) \/ DeleteModule(m)
    \/ \E n \in Nodes : TaintNode(n) \/ UntaintNode(n)
    \/ \E n \in Nodes, m \in Modules : RelabelNode(n, m) \/ WorkerLabel(n, m)

Cluster ==
    \/ \E m \in Modules : DeliverModule(m)
    \/ \E n \in Nodes : DeliverNMC(n)
    \/ \E ns \in Namespaces : DeliverNamespace(ns)
    \/ \E m \in Modules : ImageAppears(m)
    \/ \E n \in Nodes, m \in Modules : NodeFollows(n, m) \/ CollectInUse(n, m)

Next == ModuleController \/ CallFails \/ Cluster \/ Users

Spec == Init /\ [][Next]_vars

-----------------------------------------------------------------------------
(* Properties                                                              *)

(* Nothing is queued, running or on its way.                               *)
Quiet ==
    /\ task = Idle /\ queue = {} /\ moduleEvents = {}
    /\ \A n \in Nodes : nmcEvents[n] = {} /\ cached.nmc[n] = nmc[n]

(* What a node's NMC should hold for a Module that is left alone.          *)
Wanted(n, m) ==
    IF /\ module[m].phase = "live" /\ m \notin Loaderless
       /\ n \in TargetedNodes(m) /\ Mld(n, module[m].rev) # None
       /\ m \in Versioned => node[n].worker[m] # None
    THEN Mld(n, module[m].rev) ELSE None

(* When the controller rests, each NMC holds exactly the Modules that      *)
(* select its node, tolerate it, have a mapping for its kernel and an      *)
(* image that exists; only a node with an older worker version keeps what  *)
(* it had.  The configured label tells the entries, for that is how they   *)
(* are found again (getNMCsByModuleSet, finalizeModule).  Excepted are     *)
(* entries a patch made from an old copy of the NMC has spoilt.            *)
EntriesRestRight ==
    Quiet => \A n \in Nodes, m \in Modules :
        <<n, m>> \notin misjudged =>
            /\ nmc[n].spec[m] # None <=> m \in nmc[n].configured
            /\ Wanted(n, m) = None => nmc[n].spec[m] = None
            /\ \/ Wanted(n, m) \in mic[m].exists \cup {None} => nmc[n].spec[m] = Wanted(n, m)
               \/ m \in Versioned /\ node[n].worker[m] # module[m].rev

(* An NMC holds no Module that does not exist: the finalizer is only       *)
(* released when every entry, and what it loaded, is gone.  Excepted are   *)
(* entries that a patch from an old copy wrote back, and a finalizer       *)
(* released on a copy that did not have the in-use label yet.              *)
NoOrphanEntries ==
    \A n \in Nodes, m \in Modules :
        nmc[n].spec[m] # None \/ nmc[n].status[m] # None
            => module[m].phase # "none" \/ <<n, m>> \in misjudged

(* From its first complete Reconcile to its deletion a Module's namespace  *)
(* is protected by the label, whichever other Modules are deleted          *)
(* meanwhile (tryRemovingLabel), unless the last setLabel met a cached     *)
(* Namespace that still had the label just removed.                        *)
NamespaceProtected ==
    \A m \in Modules : module[m].phase = "live" /\ module[m].finalizer
        => NamespaceOf[m] \in label \cup unset

(* When the controller rests, the label is gone with the last Module that  *)
(* is not being deleted, also when several are deleted together            *)
(* (MGMT-25441).  Excepted is a label that a Module deleted before its     *)
(* finalizer leaves behind, and one the cached Namespace did not have when *)
(* it was to be removed.                                                   *)
NamespaceReleased ==
    Quiet => \A ns \in label \ leaked :
        \E m \in Modules : NamespaceOf[m] = ns /\ module[m].phase = "live"

(* When the controller rests, the Module's status counts its nodes: those  *)
(* it matches, those with its configured label and those that run what     *)
(* their NMC asks for, whatever changed between the Reconcile's lists and  *)
(* its merge patch.                                                        *)
StatusRestsRight ==
    Quiet => \A m \in Modules \ Loaderless :
        module[m].phase = "live" =>
            module[m].status =
                [matching |-> Cardinality(TargetedNodes(m)),
                 desired |-> Cardinality({n \in Nodes : m \in nmc[n].configured}),
                 available |-> Cardinality({n \in Nodes : /\ m \in nmc[n].configured
                                                          /\ nmc[n].spec[m] # None
                                                          /\ nmc[n].status[m] = nmc[n].spec[m]})]

(* The NMC controller has nothing left to do either.                       *)
Settled ==
    /\ Quiet
    /\ \A n \in Nodes, m \in Modules :
          /\ nmc[n].status[m] = nmc[n].spec[m]
          /\ m \in nmc[n].inUse => nmc[n].spec[m] # None

(* When the NMC controller has done its part too, no Module waits for its  *)
(* finalizer to be released: no in-use label is left and the event that    *)
(* took the last one away was not lost.  Excepted is a Module one of whose *)
(* entries an old copy has spoilt: its in-use label holds the finalizer.   *)
FinalizerReleased ==
    Settled => \A m \in Modules :
        module[m].phase = "deleting" => \E n \in Nodes : <<n, m>> \in misjudged

=============================================================================
