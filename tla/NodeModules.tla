----------------------------- MODULE NodeModules -----------------------------
(***************************************************************************)
(* One node and its NodeModulesConfig (NMC): the NMC controller            *)
(* (internal/controllers/nmc_reconciler.go), the worker Pods it runs       *)
(* (internal/pod/workerpodmanager.go, internal/worker), the part of the    *)
(* Module controller that writes the NMC and waits for it                  *)
(* (internal/controllers/module_reconciler.go), and the kubelet, the       *)
(* kernel and reboots around them.                                         *)
(*                                                                         *)
(* A Reconcile of the NMC is a sequence of API calls on a local copy of    *)
(* the NMC and of the Node; between two calls anything else may happen.    *)
(* Each API call is a step of its own, and each may fail.                  *)
(***************************************************************************)
EXTENDS Naturals, FiniteSets

CONSTANTS
    Modules,       \* Modules (namespace and name) that may be on the node
    NameOf,        \* the name of each Module, without its namespace
    Kernels,       \* kernel versions
    Images,        \* values of the mandatory part of a ModuleConfig
    Options,       \* values of its optional ("omitempty") part
    NoOption,      \* the optional part is omitted
    NoConfig,      \* no entry for the Module
    MaxBoot,       \* bound: how often the node reboots
    KernelAt,      \* the kernel version each boot runs
    RebootAnytime, \* the node may reboot while a completed loader Pod is on it
    LateEffects    \* a worker may change the kernel without its Pod being seen to
                   \* succeed: killed after modprobe, or running on after deletion

Config == [kernel : Kernels, image : Images, option : Options \cup {NoOption}]

Boots == 0 .. MaxBoot

ASSUME ConstantsAssumption ==
    /\ MaxBoot \in Nat
    /\ KernelAt \in [Boots -> Kernels]
    /\ NoConfig \notin Config
    /\ NoOption \notin Options
    /\ RebootAnytime \in BOOLEAN
    /\ LateEffects \in BOOLEAN

VARIABLES
    spec,        \* NMC .spec.modules: config of each Module, or NoConfig
    status,      \* NMC .status.modules: config and boot ID of each Module
    configured,  \* Modules with the module-configured label on the NMC
    inUse,       \* Modules with the module-in-use label on the NMC
    pod,         \* worker Pod of each Module (its name is fixed: at most one)
    kernelMod,   \* config each kernel module was inserted with, or NoConfig
    boot,        \* number of the node's current boot
    node,        \* the Node object: what the API server knows of the node
    module,      \* the Module objects: "live", "deleting" or "gone"
    pc,          \* next call of the running Reconcile, or "idle"
    copy,        \* local copy of the NMC (spec, status, in-use labels)
    nodeCopy,    \* local copy of the Node
    doomed,      \* podsToDelete of SyncStatus
    dirty        \* an event has queued the NMC's key

nmcVars == <<spec, status, configured, inUse>>
hostVars == <<kernelMod, boot>>
localVars == <<copy, nodeCopy, doomed>>
vars == <<spec, status, configured, inUse, pod, kernelMod, boot, node, module,
          pc, copy, nodeCopy, doomed, dirty>>

------------------------------------------------------------------------------
\* Data

ConfigOrNone == Config \cup {NoConfig}

NoStatus == [config |-> NoConfig, boot |-> 0]

StatusEntry == [config : Config, boot : Boots] \cup {NoStatus}

NoPod == [kind |-> "none", config |-> NoConfig, phase |-> "Pending",
          restarted |-> FALSE, life |-> "live"]

\* life: "evicted" is deleted by somebody else and held by the KMM finalizer;
\* "deleted" is deleted by DeletePod and waits for the kubelet.
PodRecord == [kind      : {"load", "unload"},
              config    : Config,
              phase     : {"Pending", "Running", "Succeeded", "Failed"},
              restarted : BOOLEAN,
              life      : {"live", "evicted", "deleted"}] \cup {NoPod}

NewPod(kind, config) ==
    [kind |-> kind, config |-> config, phase |-> "Pending",
     restarted |-> FALSE, life |-> "live"]

\* boot ID, Ready condition, Modules that tolerate the taints, ready labels
NodeObject == [boot : Boots, ready : BOOLEAN, tolerated : SUBSET Modules,
               labels : SUBSET Modules]

NMCCopy == [spec : [Modules -> ConfigOrNone], status : [Modules -> StatusEntry],
            inUse : SUBSET Modules]

EmptyCopy == [spec |-> [m \in Modules |-> NoConfig],
              status |-> [m \in Modules |-> NoStatus], inUse |-> {}]

EmptyNode == [boot |-> 0, ready |-> FALSE, tolerated |-> {}, labels |-> {}]

Steps == {"idle", "patchStatus", "deletePods", "process", "dropLabels",
          "gcInUse", "gcPods", "nodeLabels"}

TypeOK ==
    /\ spec \in [Modules -> ConfigOrNone]
    /\ status \in [Modules -> StatusEntry]
    /\ configured \in SUBSET Modules
    /\ inUse \in SUBSET Modules
    /\ pod \in [Modules -> PodRecord]
    /\ kernelMod \in [Modules -> ConfigOrNone]
    /\ boot \in Boots
    /\ node \in NodeObject
    /\ module \in [Modules -> {"live", "deleting", "gone"}]
    /\ pc \in Steps
    /\ copy \in NMCCopy
    /\ nodeCopy \in NodeObject
    /\ doomed \in SUBSET Modules
    /\ dirty \in BOOLEAN

Exists(m) == pod[m].kind # "none"

InSpec(c, m) == c.spec[m] # NoConfig

HasStatus(c, m) == c.status[m] # NoStatus

Up == node.boot = boot

------------------------------------------------------------------------------
\* Helpers of the NMC controller

\* yaml.UnmarshalStrict into an existing entry leaves omitted fields as they were.
Unmarshal(old, new) ==
    IF old # NoConfig /\ new.option = NoOption
    THEN [new EXCEPT !.option = old.option] ELSE new

\* node.IsNodeRebooted
IsNodeRebooted(n, bootId) == n.ready /\ bootId # n.boot

\* DeletePod: the finalizer is removed, then the Pod deleted.
DeletePods(ms) ==
    [m \in Modules |-> IF m \in ms /\ Exists(m)
                       THEN [pod[m] EXCEPT !.life = "deleted"] ELSE pod[m]]

currentNMC == [spec |-> spec, status |-> status, inUse |-> inUse]

\* Mutant: the error of a Reconcile is swallowed.
FinishNoRetry(retry) ==
    /\ pc' = "idle"
    /\ copy' = EmptyCopy
    /\ nodeCopy' = EmptyNode
    /\ doomed' = {}
    /\ dirty' = dirty

\* Reconcile returns; an error puts the key back in the work queue.
Finish(retry) ==
    /\ pc' = "idle"
    /\ copy' = EmptyCopy
    /\ nodeCopy' = EmptyNode
    /\ doomed' = {}
    /\ dirty' = (dirty \/ retry)

------------------------------------------------------------------------------
\* Reconcile: get the NMC and the Node, list the Pods (SyncStatus)

\* A Pod of a Module the NMC has no entry for
Orphan(m) == ~InSpec(currentNMC, m) /\ ~HasStatus(currentNMC, m)

PodsToDelete ==
    {m \in Modules : /\ Exists(m)
                     /\ \/ pod[m].phase = "Running" /\ Orphan(m)
                        \/ pod[m].phase \in {"Failed", "Succeeded"}}

\* Mutants: a completed unloader clears the entry's config, or leaves the entry.
SyncedStatusCleared(m) ==
    IF Exists(m) /\ pod[m].phase = "Succeeded"
    THEN IF pod[m].kind = "unload" THEN [status[m] EXCEPT !.config = NoConfig]
         ELSE [config |-> Unmarshal(status[m].config, pod[m].config), boot |-> node.boot]
    ELSE status[m]

SyncedStatusKept(m) ==
    IF Exists(m) /\ pod[m].phase = "Succeeded" /\ pod[m].kind = "load"
    THEN [config |-> Unmarshal(status[m].config, pod[m].config), boot |-> node.boot]
    ELSE status[m]

\* The status entry SyncStatus makes of a Pod of the list
SyncedStatus(m) ==
    IF Exists(m) /\ pod[m].phase = "Succeeded"
    THEN IF pod[m].kind = "unload" THEN NoStatus
         ELSE [config |-> Unmarshal(status[m].config, pod[m].config), boot |-> node.boot]
    ELSE status[m]

Reconcile ==
    /\ pc = "idle"
    /\ dirty
    /\ dirty' = FALSE
    /\ nodeCopy' = node
    /\ copy' = [currentNMC EXCEPT !.status = [m \in Modules |-> SyncedStatus(m)]]
    /\ doomed' = PodsToDelete
    /\ pc' = IF \E m \in Modules : Exists(m) THEN "patchStatus" ELSE "process"
    /\ UNCHANGED <<nmcVars, hostVars, pod, node, module>>

\* The status is patched; the answer refreshes the local copy of the NMC.
SyncStatusPatch ==
    /\ pc = "patchStatus"
    /\ status' = copy.status
    /\ copy' = [copy EXCEPT !.spec = spec, !.inUse = inUse]
    /\ pc' = "deletePods"
    /\ dirty' = (dirty \/ status' # status)
    /\ UNCHANGED <<spec, configured, inUse, hostVars, pod, node, module,
                   nodeCopy, doomed>>

\* Only then are the Pods deleted; a failure ends the Reconcile.
SyncStatusDelete(failed) ==
    /\ pc = "deletePods"
    /\ failed \subseteq doomed
    /\ pod' = DeletePods(doomed \ failed)
    /\ IF failed # {} THEN Finish(TRUE)
       ELSE /\ pc' = "process"
            /\ dirty' = (dirty \/ pod' # pod)
            /\ UNCHANGED localVars
    /\ UNCHANGED <<nmcVars, hostVars, node, module>>

------------------------------------------------------------------------------
\* Reconcile: ProcessModuleSpec and ProcessUnconfiguredModuleStatus

\* The Pod's template has changed since the Pod was created.
HashAnnotationDiffer(m, kind, config) ==
    pod[m].kind # kind \/ pod[m].config # config

\* Mutants: a changed config is loaded without an unload, or only acted on when
\* the kernel is the same.
ProcessModuleSpecNoUnload(m) ==
    LET s == copy.spec[m]
        t == copy.status[m]
    IN  IF Exists(m) THEN pod[m]
        ELSE IF t = NoStatus \/ s # t.config \/ IsNodeRebooted(nodeCopy, t.boot)
             THEN NewPod("load", s) ELSE NoPod

ProcessModuleSpecSameKernel(m) ==
    LET s == copy.spec[m]
        t == copy.status[m]
    IN  IF Exists(m) THEN pod[m]
        ELSE CASE t = NoStatus -> NewPod("load", s)
               [] t # NoStatus /\ s # t.config /\ s.kernel = t.config.kernel -> NewPod("unload", t.config)
               [] t # NoStatus /\ s = t.config /\ IsNodeRebooted(nodeCopy, t.boot) -> NewPod("load", s)
               [] OTHER -> NoPod

\* Worker Pod of a Module of the spec after ProcessModuleSpec
ProcessModuleSpec(m) ==
    LET s == copy.spec[m]
        t == copy.status[m]
    IN  IF ~Exists(m)
        THEN CASE t = NoStatus -> NewPod("load", s)
               [] t # NoStatus /\ s # t.config /\ s.kernel = t.config.kernel -> NewPod("unload", t.config)
               [] t # NoStatus /\ s # t.config /\ s.kernel # t.config.kernel -> NewPod("load", s)
               [] t # NoStatus /\ s = t.config /\ IsNodeRebooted(nodeCopy, t.boot) -> NewPod("load", s)
               [] OTHER -> NoPod
        ELSE IF pod[m].kind = "load" /\ pod[m].restarted /\ HashAnnotationDiffer(m, "load", s)
             THEN [pod[m] EXCEPT !.life = "deleted"] ELSE pod[m]

\* The status of a Module without spec is dropped after a reboot.
DropsStatus(m) ==
    /\ ~InSpec(copy, m)
    /\ HasStatus(copy, m)
    /\ IsNodeRebooted(nodeCopy, copy.status[m].boot)

\* Worker Pod of a Module with a status and no spec, when the status is kept
ProcessUnconfiguredModuleStatus(m) ==
    LET t == copy.status[m]
    IN  IF ~Exists(m) THEN NewPod("unload", t.config)
        ELSE IF \/ pod[m].kind = "load"
                \/ pod[m].restarted /\ HashAnnotationDiffer(m, "unload", t.config)
             THEN [pod[m] EXCEPT !.life = "deleted"] ELSE pod[m]

ProcessedPod(m) ==
    IF InSpec(copy, m)
    THEN IF m \in nodeCopy.tolerated THEN ProcessModuleSpec(m) ELSE pod[m]
    ELSE IF HasStatus(copy, m) /\ ~DropsStatus(m)
         THEN ProcessUnconfiguredModuleStatus(m) ELSE pod[m]

\* The spec entries the node does not tolerate: their ready labels are removed.
Unschedulable == {m \in Modules : InSpec(copy, m) /\ m \notin nodeCopy.tolerated}

Dropped == {m \in Modules : DropsStatus(m)}

\* The loops over the spec and over the statuses left.  An error of one Module is
\* collected and the loops go on; it is retried unless UpdateLabels ends the pass.
ProcessModules(failed) ==
    /\ pc = "process"
    /\ pod' = [m \in Modules |-> IF m \in failed THEN pod[m] ELSE ProcessedPod(m)]
    /\ status' = [m \in Modules |-> IF m \in Dropped \ failed THEN NoStatus ELSE status[m]]
    \* an entry is dropped from the copy first; each patch refreshes the copy
    /\ copy' = [spec |-> IF Dropped \subseteq failed THEN copy.spec ELSE spec,
                status |-> [m \in Modules |-> IF m \in Dropped THEN NoStatus
                                              ELSE copy.status[m]],
                inUse |-> IF Dropped \subseteq failed THEN copy.inUse ELSE inUse]
    /\ dirty' = (\/ dirty \/ pod' # pod \/ status' # status
                 \* the early return of UpdateLabels loses the errors
                 \/ failed # {} /\ Unschedulable = {})
    /\ pc' = IF Unschedulable # {} THEN "dropLabels" ELSE "gcInUse"
    /\ doomed' = Unschedulable
    /\ UNCHANGED <<spec, configured, inUse, hostVars, node, module, nodeCopy>>

\* The node is unschedulable for a Module: drop the ready labels and stop there.
UpdateLabels(ok) ==
    /\ pc = "dropLabels"
    /\ node' = IF ok THEN [node EXCEPT !.labels = @ \ (doomed \cap nodeCopy.labels)]
               ELSE node
    /\ Finish(~ok \/ node' # node)
    /\ UNCHANGED <<nmcVars, hostVars, pod, module>>

------------------------------------------------------------------------------
\* Reconcile: garbage collection and node labels

\* Mutant: the entries of the spec are compared the wrong way round.
UnusedLabelsInverted ==
    {m \in copy.inUse : InSpec(copy, m) /\ ~HasStatus(copy, m)}

\* Labels without a spec or status entry.  Worker Pods are listed too, but the
\* label built for them has the Pod's name where the namespace belongs
\* (nmc.ModuleInUseLabel(pod.Name, ...)), so they protect no label.
UnusedLabels ==
    {m \in copy.inUse : ~InSpec(copy, m) /\ ~HasStatus(copy, m)}

GarbageCollectInUseLabels(ok) ==
    /\ pc = "gcInUse"
    /\ IF ok /\ UnusedLabels # {}
       THEN /\ inUse' = inUse \ UnusedLabels
            /\ copy' = [spec |-> spec, status |-> status, inUse |-> inUse']
            /\ dirty' = (dirty \/ inUse' # inUse)
       ELSE /\ UNCHANGED <<inUse, copy>>
            /\ dirty' = (dirty \/ ~ok)
    /\ pc' = "gcPods"
    /\ UNCHANGED <<spec, status, configured, hostVars, pod, node, module,
                   nodeCopy, doomed>>

\* Modules are compared by name, without the namespace.
PresentNames ==
    {NameOf[m] : m \in {k \in Modules : InSpec(copy, k) \/ HasStatus(copy, k)}}

\* Mutant: the test is inverted.
OrphanPodsInverted == {m \in Modules : Exists(m) /\ NameOf[m] \in PresentNames}

OrphanPods == {m \in Modules : Exists(m) /\ NameOf[m] \notin PresentNames}

GarbageCollectWorkerPods(failed) ==
    /\ pc = "gcPods"
    /\ failed \subseteq OrphanPods
    /\ pod' = DeletePods(OrphanPods \ failed)
    /\ dirty' = (dirty \/ failed # {} \/ pod' # pod)
    /\ pc' = "nodeLabels"
    /\ UNCHANGED <<nmcVars, hostVars, node, module, localVars>>

\* Mutant: the label of a Module without spec goes only while it has a status.
LabelsToRemoveInverted ==
    {m \in nodeCopy.labels : ~InSpec(copy, m) /\ HasStatus(copy, m)}

\* removeOrphanedLabels and addEqualLabels, on the local copies
LabelsToRemove ==
    {m \in nodeCopy.labels : ~InSpec(copy, m) /\ ~HasStatus(copy, m)}

LabelsToAdd ==
    {m \in Modules \ nodeCopy.labels :
        InSpec(copy, m) /\ HasStatus(copy, m) /\ copy.spec[m] = copy.status[m].config}

UpdateNodeLabels(ok) ==
    /\ pc = "nodeLabels"
    /\ node' = IF ok THEN [node EXCEPT !.labels = (@ \ LabelsToRemove) \cup LabelsToAdd]
               ELSE node
    /\ Finish(~ok \/ node' # node)
    /\ UNCHANGED <<nmcVars, hostVars, pod, module>>

\* A call fails and Reconcile returns its error at once.
ReconcileFails ==
    /\ pc = "patchStatus"
    /\ Finish(TRUE)
    /\ UNCHANGED <<nmcVars, hostVars, pod, node, module>>

NMCController ==
    \/ Reconcile
    \/ SyncStatusPatch
    \/ ReconcileFails
    \/ \E failed \in SUBSET Modules :
          SyncStatusDelete(failed) \/ ProcessModules(failed) \/ GarbageCollectWorkerPods(failed)
    \/ \E ok \in BOOLEAN :
          UpdateLabels(ok) \/ GarbageCollectInUseLabels(ok) \/ UpdateNodeLabels(ok)

------------------------------------------------------------------------------
\* The Module controller, as far as it touches this NMC

\* enableModuleOnNode: the config is made for the kernel the Node reports.
EnableModule(m, c) ==
    /\ module[m] = "live"
    /\ m \in node.tolerated
    /\ c.kernel = KernelAt[node.boot]
    /\ spec[m] # c \/ m \notin inUse
    /\ spec' = [spec EXCEPT ![m] = c]
    /\ configured' = configured \cup {m}
    /\ inUse' = inUse \cup {m}
    /\ dirty' = TRUE
    /\ UNCHANGED <<status, hostVars, pod, node, module, pc, localVars>>

\* removeModuleFromNMC: the entry and the configured label; not the in-use label.
RemoveModuleFromNMC(m) ==
    /\ m \in configured
    /\ spec' = [spec EXCEPT ![m] = NoConfig]
    /\ configured' = configured \ {m}
    /\ dirty' = TRUE
    /\ UNCHANGED <<status, inUse, hostVars, pod, node, module, pc, localVars>>

\* disableModuleOnNode: the node left the selector, lost its version label, is
\* not schedulable, or no kernel mapping matches any more.
DisableModule(m) ==
    /\ module[m] = "live"
    /\ RemoveModuleFromNMC(m)

\* finalizeModule, first half
FinalizeRemove(m) ==
    /\ module[m] = "deleting"
    /\ RemoveModuleFromNMC(m)

\* finalizeModule, second half: no NMC has the in-use label, drop the finalizer.
FinalizeRelease(m) ==
    /\ module[m] = "deleting"
    /\ m \notin configured
    /\ m \notin inUse
    /\ module' = [module EXCEPT ![m] = "gone"]
    /\ UNCHANGED <<nmcVars, hostVars, pod, node, pc, localVars, dirty>>

\* The user creates or deletes the Module.
CreateModule(m) ==
    /\ module[m] = "gone"
    /\ module' = [module EXCEPT ![m] = "live"]
    /\ UNCHANGED <<nmcVars, hostVars, pod, node, pc, localVars, dirty>>

DeleteModule(m) ==
    /\ module[m] = "live"
    /\ module' = [module EXCEPT ![m] = "deleting"]
    /\ UNCHANGED <<nmcVars, hostVars, pod, node, pc, localVars, dirty>>

ModuleController ==
    \E m \in Modules :
        \/ \E c \in Config : EnableModule(m, c)
        \/ DisableModule(m) \/ FinalizeRemove(m) \/ FinalizeRelease(m)
        \/ CreateModule(m) \/ DeleteModule(m)

------------------------------------------------------------------------------
\* The worker Pods on the node

PodMoves(m, p) ==
    /\ pod' = [pod EXCEPT ![m] = p]
    /\ dirty' = TRUE
    /\ UNCHANGED <<nmcVars, boot, node, module, pc, localVars>>

PodStarts(m) ==
    /\ Up /\ Exists(m) /\ pod[m].phase = "Pending" /\ pod[m].life = "live"
    /\ PodMoves(m, [pod[m] EXCEPT !.phase = "Running"])
    /\ UNCHANGED kernelMod

\* restartPolicy OnFailure: the worker container failed and is started again.
PodRestarts(m) ==
    /\ Up /\ Exists(m) /\ pod[m].phase = "Running" /\ pod[m].life = "live"
    /\ ~pod[m].restarted
    /\ PodMoves(m, [pod[m] EXCEPT !.restarted = TRUE])
    /\ UNCHANGED kernelMod

\* The Pod fails as a whole: evicted by the kubelet, node shutting down.
PodFails(m) ==
    /\ Exists(m) /\ pod[m].phase \in {"Pending", "Running"}
    /\ PodMoves(m, [pod[m] EXCEPT !.phase = "Failed"])
    /\ UNCHANGED kernelMod

\* modprobe for the config of the Pod can work: it is built for this kernel.
RightKernel(m) == pod[m].config.kernel = KernelAt[boot]

\* LoadKmod: modprobe of a module that is in the kernel already changes nothing.
LoadKmod(m) ==
    IF kernelMod[m] = NoConfig THEN [kernelMod EXCEPT ![m] = pod[m].config]
    ELSE kernelMod

\* UnloadKmod: modprobe -r
UnloadKmod(m) == [kernelMod EXCEPT ![m] = NoConfig]

WorkerEffect(m) == IF pod[m].kind = "load" THEN LoadKmod(m) ELSE UnloadKmod(m)

\* The worker does its work and exits with 0, and the kubelet reports it.
PodSucceeds(m) ==
    /\ Up /\ Exists(m) /\ pod[m].phase = "Running" /\ pod[m].life = "live"
    /\ RightKernel(m)
    /\ PodMoves(m, [pod[m] EXCEPT !.phase = "Succeeded"])
    /\ kernelMod' = WorkerEffect(m)

\* The worker does its work but its Pod's success is never reported.
WorkerActsUnseen(m) ==
    /\ LateEffects
    /\ Up /\ Exists(m) /\ pod[m].phase = "Running"
    /\ RightKernel(m)
    /\ kernelMod' = WorkerEffect(m)
    /\ kernelMod' # kernelMod
    /\ UNCHANGED <<nmcVars, boot, node, module, pc, localVars, pod, dirty>>

\* Somebody else deletes the Pod: the KMM finalizer keeps the object.
PodEvicted(m) ==
    /\ Exists(m) /\ pod[m].life = "live"
    /\ PodMoves(m, [pod[m] EXCEPT !.life = "evicted",
                                  !.phase = IF @ = "Succeeded" THEN @ ELSE "Failed"])
    /\ UNCHANGED kernelMod

\* The kubelet has stopped the containers and the API server drops the object.
PodGone(m) ==
    /\ Exists(m) /\ pod[m].life = "deleted"
    /\ PodMoves(m, NoPod)
    /\ UNCHANGED kernelMod

Kubelet ==
    \E m \in Modules :
        \/ PodStarts(m) \/ PodRestarts(m) \/ PodFails(m) \/ PodSucceeds(m)
        \/ WorkerActsUnseen(m) \/ PodEvicted(m) \/ PodGone(m)

------------------------------------------------------------------------------
\* The node

\* Nothing is loaded after a reboot; containers that were running start again.
\* The Node object learns of it later (NodeReports).
Reboot ==
    /\ Up
    /\ boot < MaxBoot
    /\ RebootAnytime \/ \A m \in Modules : ~(pod[m].kind = "load" /\ pod[m].phase = "Succeeded")
    /\ boot' = boot + 1
    /\ kernelMod' = [m \in Modules |-> NoConfig]
    /\ pod' = [m \in Modules |-> IF pod[m].phase = "Running"
                                 THEN [pod[m] EXCEPT !.restarted = TRUE] ELSE pod[m]]
    /\ dirty' = TRUE
    /\ UNCHANGED <<nmcVars, node, module, pc, localVars>>

NodeReports ==
    /\ ~Up
    /\ node' = [node EXCEPT !.boot = boot, !.ready = FALSE]
    /\ dirty' = TRUE
    /\ UNCHANGED <<nmcVars, hostVars, pod, module, pc, localVars>>

NodeReady ==
    /\ Up /\ ~node.ready
    /\ node' = [node EXCEPT !.ready = TRUE]
    /\ dirty' = TRUE
    /\ UNCHANGED <<nmcVars, hostVars, pod, module, pc, localVars>>

\* Taints come and go; Modules tolerate them or not.
TaintsChange(ms) ==
    /\ ms # node.tolerated
    /\ node' = [node EXCEPT !.tolerated = ms]
    /\ dirty' = TRUE
    /\ UNCHANGED <<nmcVars, hostVars, pod, module, pc, localVars>>

Host ==
    \/ Reboot
    \/ NodeReports
    \/ NodeReady
    \/ \E ms \in SUBSET Modules : TaintsChange(ms)

------------------------------------------------------------------------------

Init ==
    /\ spec = [m \in Modules |-> NoConfig]
    /\ status = [m \in Modules |-> NoStatus]
    /\ configured = {}
    /\ inUse = {}
    /\ pod = [m \in Modules |-> NoPod]
    /\ kernelMod = [m \in Modules |-> NoConfig]
    /\ boot = 0
    /\ node = [boot |-> 0, ready |-> TRUE, tolerated |-> Modules, labels |-> {}]
    /\ module = [m \in Modules |-> "gone"]
    /\ pc = "idle"
    /\ copy = EmptyCopy
    /\ nodeCopy = EmptyNode
    /\ doomed = {}
    /\ dirty = FALSE

Next == NMCController \/ ModuleController \/ Kubelet \/ Host

Spec == Init /\ [][Next]_vars

(***************************************************************************)
(* Fairness.  The work queue hands out a queued key and the controllers    *)
(* run; the API server does not fail a call forever; the kubelet of a      *)
(* node that is up starts, finishes and removes Pods, and a worker that    *)
(* keeps being run succeeds eventually; a rebooted node reports and        *)
(* becomes ready.  Nothing makes the user, taints or reboots happen.       *)
(***************************************************************************)
Finalize(m) == FinalizeRemove(m) \/ FinalizeRelease(m)

Fairness ==
    /\ WF_vars(NMCController)
    /\ SF_vars(SyncStatusPatch)
    /\ SF_vars(SyncStatusDelete({}))
    /\ SF_vars(ProcessModules({}))
    /\ SF_vars(GarbageCollectInUseLabels(TRUE))
    /\ SF_vars(UpdateNodeLabels(TRUE))
    /\ \A m \in Modules :
        /\ SF_vars(PodStarts(m))
        /\ SF_vars(PodSucceeds(m))
        /\ WF_vars(PodGone(m))
        /\ WF_vars(Finalize(m))
    /\ WF_vars(NodeReports \/ NodeReady)

FairSpec == Spec /\ Fairness

------------------------------------------------------------------------------
\* Properties

\* The worker Pod has unloaded the module and the status does not know it yet.
UnloadPending(m) == pod[m].kind = "unload" /\ pod[m].phase = "Succeeded"

(***************************************************************************)
(* A status entry of the current boot tells the truth: unless an unloader  *)
(* has just completed, the kernel module is in the kernel.  ProcessModuleSpec *)
(* does nothing for a Module whose status entry matches its spec, so a     *)
(* false entry means a module that is never loaded.                        *)
(***************************************************************************)
StatusLoaded ==
    \A m \in Modules :
        status[m] # NoStatus /\ status[m].boot = boot /\ ~UnloadPending(m)
            => kernelMod[m] # NoConfig

(***************************************************************************)
(* Nothing is left to do: no Reconcile runs and no event is queued.        *)
(***************************************************************************)
Quiescent == pc = "idle" /\ ~dirty

\* The node is schedulable for every Module of the spec.  If it is not, the pass
\* ends with UpdateLabels: errors are lost and nothing is garbage collected.
AllTolerated == \A m \in Modules : spec[m] # NoConfig => m \in node.tolerated

(***************************************************************************)
(* No wake-up is lost: when the controller rests on a node every Module    *)
(* tolerates, a configured Module has a worker Pod or, if the node is up   *)
(* and ready, a status entry for its config and the current boot; and a    *)
(* Module that is no longer configured has a worker Pod or no status       *)
(* entry.                                                                  *)
(***************************************************************************)
RestsOnlyWhenDone ==
    Quiescent /\ AllTolerated => \A m \in Modules :
        \/ Exists(m)
        \/ spec[m] # NoConfig /\ (Up /\ node.ready => status[m] = [config |-> spec[m], boot |-> boot])
        \/ spec[m] = NoConfig /\ status[m] = NoStatus

(***************************************************************************)
(* When the controller rests on a node every Module tolerates, the ready   *)
(* labels are those of the loaded Modules (equal spec and status), plus    *)
(* those of Modules in transition; and the in-use labels that hold up the  *)
(* deletion of a Module have an entry behind them.                         *)
(***************************************************************************)
LabelsRestRight ==
    Quiescent /\ AllTolerated =>
        \A m \in Modules :
            /\ spec[m] # NoConfig /\ spec[m] = status[m].config => m \in node.labels
            /\ m \in node.labels \cup inUse => spec[m] # NoConfig \/ status[m] # NoStatus

(***************************************************************************)
(* A loader Pod runs next to a status entry only if the entry is for the   *)
(* Pod's own config (reload after a reboot) or for another kernel: a       *)
(* config change within a kernel goes through an unloader Pod first.  The  *)
(* entry a completed loader leaves is for its config too, but for options  *)
(* the config omits and an earlier entry had (Unmarshal).                  *)
(***************************************************************************)
LoaderMatchesStatus ==
    \A m \in Modules :
        pod[m].kind = "load" /\ status[m] # NoStatus
            => \/ status[m].config = pod[m].config
               \/ status[m].config.kernel # pod[m].config.kernel
               \/ /\ pod[m].phase = "Succeeded" /\ pod[m].config.option = NoOption
                  /\ status[m].config = [pod[m].config EXCEPT !.option = status[m].config.option]

(***************************************************************************)
(* When the controller rests, every worker Pod that is not on its way out  *)
(* belongs to an entry of the NMC, whatever the Pod was doing when its     *)
(* Module went away.  Only a Pod that has not started can be left over:    *)
(* SyncStatus takes the others, and GarbageCollectWorkerPods those that    *)
(* have no namesake in another namespace, unless an unschedulable Module   *)
(* ends the pass before.                                                   *)
(***************************************************************************)
OrphanPodsCollected ==
    Quiescent => \A m \in Modules :
        Exists(m) /\ pod[m].life # "deleted" =>
            \/ spec[m] # NoConfig \/ status[m] # NoStatus
            \/ /\ pod[m].phase = "Pending"
               /\ \/ ~AllTolerated
                  \/ \E k \in Modules \ {m} : /\ NameOf[k] = NameOf[m]
                                              /\ spec[k] # NoConfig \/ status[k] # NoStatus

(***************************************************************************)
(* A Module that stays configured on a tolerating node ends up with its    *)
(* status entry and its ready label, however Pods fail and restart.  That  *)
(* the entry is true is StatusLoaded.                                      *)
(***************************************************************************)
EventuallyLoaded ==
    \A m \in Modules, c \in Config :
        <>[](spec[m] = c /\ m \in node.tolerated)
            => <>[](status[m].config = c /\ m \in node.labels)

(***************************************************************************)
(* The deletion of a Module goes through: the in-use label does not hold   *)
(* its finalizer forever.                                                  *)
(***************************************************************************)
DeletionCompletes ==
    \A m \in Modules : module[m] = "deleting" ~> module[m] = "gone"

==============================================================================
