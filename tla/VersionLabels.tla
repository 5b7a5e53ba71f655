---------------------------- MODULE VersionLabels ----------------------------
(***************************************************************************)
(* The ordered-upgrade label controller of one node                        *)
(* (internal/controllers/node_label_module_version_reconciler.go).         *)
(*                                                                         *)
(* The administrator asks for a version of a Module on the node with the   *)
(* version-module label.  The controller answers with two labels of its    *)
(* own: version-worker-pod, which lets the Module controller put the       *)
(* module in the node's NodeModulesConfig, and version-schedule-pod, which *)
(* lets the device plugin and DRA DaemonSets run on the node.  It moves    *)
(* the two one patch at a time, following labelActionTable.                *)
(*                                                                         *)
(* The rest of the system is an environment constrained only by what the   *)
(* labels promise: a DaemonSet Pod of version v is started only while      *)
(* version-schedule-pod = v, and the kernel-module-ready label comes and   *)
(* goes.                                                                   *)
(***************************************************************************)
EXTENDS FiniteSets

CONSTANTS
    Modules,         \* Modules labelled on the node (namespace/name pairs)
    Versions,        \* values of Module.spec.moduleLoader.container.version
    NoVersion        \* the label is missing

ASSUME NoVersionAssumption == NoVersion \notin Versions

VARIABLES
    moduleLabel,    \* version-module label of each Module, set by the administrator
    workerLabel,    \* version-worker-pod label
    scheduleLabel,  \* version-schedule-pod label
    readyLabel,     \* Modules whose kernel-module-ready label is on the node
    schedulePods,   \* versions of the device plugin / DRA Pods bound to the node,
                    \* terminating ones included
    nodeCache,      \* the Node as the informer last delivered it
    podCache,       \* the Pods as the informer last delivered them
    queued,         \* the node's key is in the controller's work queue
    busy,           \* a Reconcile is between its reads and its patch
    todo,           \* what that Reconcile decided, per Module
    \* History: no action of the controller looks at these.
    hurried,        \* Modules whose label was changed before the last change was
                    \* carried out
    overtaken,      \* hurried Modules decided about on a Node copy that lacked the
                    \* controller's own last patch
    missed          \* Pods on the node that the list a worker label's removal was
                    \* decided on did not have yet

history == <<hurried, overtaken, missed>>

vars == <<moduleLabel, workerLabel, scheduleLabel, readyLabel, schedulePods,
          nodeCache, podCache, queued, busy, todo, history>>

LabelValue == Versions \cup {NoVersion}

LabelMap == [Modules -> LabelValue]

Ops == {"none", "addWorker", "deleteWorker", "addSchedule", "deleteSchedule"}

Decision == [op : Ops, value : LabelValue]

NoDecision == [op |-> "none", value |-> NoVersion]

NodeLabels == [module : LabelMap, worker : LabelMap, schedule : LabelMap,
               ready : SUBSET Modules]

TypeOK ==
    /\ moduleLabel \in LabelMap
    /\ workerLabel \in LabelMap
    /\ scheduleLabel \in LabelMap
    /\ readyLabel \in SUBSET Modules
    /\ schedulePods \in [Modules -> SUBSET Versions]
    /\ nodeCache \in NodeLabels
    /\ podCache \in [Modules -> SUBSET Versions]
    /\ queued \in BOOLEAN
    /\ busy \in BOOLEAN
    /\ todo \in [Modules -> Decision]
    /\ hurried \in SUBSET Modules
    /\ overtaken \in SUBSET Modules
    /\ missed \in [Modules -> SUBSET Versions]

------------------------------------------------------------------------------
\* What the controller reads

currentNode == [module |-> moduleLabel, worker |-> workerLabel,
                schedule |-> scheduleLabel, ready |-> readyLabel]

\* getModuleVersionLabelsState: an internal label compared with the module label
labelState(value, moduleVersion) ==
    IF value = NoVersion THEN "missing"
    ELSE IF moduleVersion # NoVersion /\ value # moduleVersion THEN "different"
    ELSE "present"

\* Mutant: the row {present, different, missing} overwrites the worker label.
labelActionTableOverwrite(module, worker, schedule) ==
    CASE <<module, worker, schedule>> = <<"missing", "present", "present">>     -> "deleteSchedule"
      [] <<module, worker, schedule>> = <<"missing", "present", "missing">>     -> "deleteWorker"
      [] module = "present" /\ worker # "present" /\ schedule = "missing"       -> "addWorker"
      [] <<module, worker, schedule>> = <<"present", "present", "missing">>     -> "addSchedule"
      [] <<module, worker, schedule>> = <<"present", "different", "different">> -> "deleteSchedule"
      [] OTHER -> "none"

\* The table, with the label and the action in one word; keys it does not list
\* mean no action.
labelActionTable(module, worker, schedule) ==
    CASE <<module, worker, schedule>> = <<"missing", "present", "present">>     -> "deleteSchedule"
      [] <<module, worker, schedule>> = <<"missing", "present", "missing">>     -> "deleteWorker"
      [] <<module, worker, schedule>> = <<"present", "missing", "missing">>     -> "addWorker"
      [] <<module, worker, schedule>> = <<"present", "present", "missing">>     -> "addSchedule"
      [] <<module, worker, schedule>> = <<"present", "different", "different">> -> "deleteSchedule"
      [] <<module, worker, schedule>> = <<"present", "different", "missing">>   -> "deleteWorker"
      [] OTHER -> "none"

\* Mutant: the label's state is returned for its value.
getLabelAndActionState(m, node) ==
    [op |-> labelActionTable(labelState(node.module[m], node.module[m]),
                             labelState(node.worker[m], node.module[m]),
                             labelState(node.schedule[m], node.module[m])),
     value |-> labelState(node.module[m], node.module[m])]

getLabelAndAction(m, node) ==
    [op |-> labelActionTable(labelState(node.module[m], node.module[m]),
                             labelState(node.worker[m], node.module[m]),
                             labelState(node.schedule[m], node.module[m])),
     value |-> node.module[m]]

\* Mutant: the Pods are not looked at.
deleteAlwaysValid(m, pods) == TRUE

\* No device plugin or DRA Pod of the Module on the node, whatever its state
verifyLabelDeleteValidity(m, pods) == pods[m] = {}

\* The Module's kernel module is not (or no longer) marked ready
verifyLabelAddValidity(m, node) == m \notin node.ready

\* The decision is put off and the node's key queued again
MustWait(m, node, pods) ==
    \/ /\ getLabelAndAction(m, node).op = "deleteWorker"
       /\ ~verifyLabelDeleteValidity(m, pods)
    \/ /\ getLabelAndAction(m, node).op = "addWorker"
       /\ ~verifyLabelAddValidity(m, node)

reconcileLabels(node, pods) ==
    [m \in Modules |-> IF MustWait(m, node, pods)
                       THEN NoDecision
                       ELSE getLabelAndAction(m, node)]

------------------------------------------------------------------------------

Init ==
    /\ moduleLabel = [m \in Modules |-> NoVersion]
    /\ workerLabel = [m \in Modules |-> NoVersion]
    /\ scheduleLabel = [m \in Modules |-> NoVersion]
    /\ readyLabel = {}
    /\ schedulePods = [m \in Modules |-> {}]
    /\ nodeCache = currentNode
    /\ podCache = schedulePods
    /\ queued = FALSE
    /\ busy = FALSE
    /\ todo = [m \in Modules |-> NoDecision]
    /\ hurried = {}
    /\ overtaken = {}
    /\ missed = [m \in Modules |-> {}]

\* The labels this controller wrote for m are in its copy of the Node.
OwnWritesSeen(m) ==
    nodeCache.worker[m] = workerLabel[m] /\ nodeCache.schedule[m] = scheduleLabel[m]

\* What a decision leaves in the history
RecordDecision(decided) ==
    /\ overtaken' = overtaken \cup
           {m \in hurried : decided[m].op # "none" /\ ~OwnWritesSeen(m)}
    /\ missed' = [m \in Modules |->
           IF decided[m].op = "deleteWorker" THEN schedulePods[m] \ podCache[m]
                                             ELSE missed[m]]
    /\ UNCHANGED hurried

\* Mutant: a decision put off is not queued again.
StartReconcileNoRequeue ==
    /\ queued
    /\ ~busy
    /\ busy' = TRUE
    /\ todo' = reconcileLabels(nodeCache, podCache)
    /\ queued' = FALSE
    /\ RecordDecision(todo')
    /\ UNCHANGED <<moduleLabel, workerLabel, scheduleLabel, readyLabel,
                   schedulePods, nodeCache, podCache>>

\* Reconcile up to the patch: read the Node, list the Pods, decide.
StartReconcile ==
    /\ queued
    /\ ~busy
    /\ busy' = TRUE
    /\ todo' = reconcileLabels(nodeCache, podCache)
    /\ queued' = (\E m \in Modules : MustWait(m, nodeCache, podCache))
    /\ RecordDecision(todo')
    /\ UNCHANGED <<moduleLabel, workerLabel, scheduleLabel, readyLabel,
                   schedulePods, nodeCache, podCache>>

\* A merge patch writes a label only where the copy it was computed on differs.
Merged(current, copy, target) ==
    IF copy = target THEN current ELSE target

PatchedWorker(m, copy) ==
    CASE todo[m].op = "addWorker"    -> Merged(workerLabel[m], copy.worker[m], todo[m].value)
      [] todo[m].op = "deleteWorker" -> Merged(workerLabel[m], copy.worker[m], NoVersion)
      [] OTHER                       -> workerLabel[m]

\* Mutant: the label is given the version the Node asks for when it is read again.
PatchedScheduleReread(m, copy) ==
    CASE todo[m].op = "addSchedule"    -> Merged(scheduleLabel[m], copy.schedule[m], copy.module[m])
      [] todo[m].op = "deleteSchedule" -> Merged(scheduleLabel[m], copy.schedule[m], NoVersion)
      [] OTHER                         -> scheduleLabel[m]

PatchedSchedule(m, copy) ==
    CASE todo[m].op = "addSchedule"    -> Merged(scheduleLabel[m], copy.schedule[m], todo[m].value)
      [] todo[m].op = "deleteSchedule" -> Merged(scheduleLabel[m], copy.schedule[m], NoVersion)
      [] OTHER                         -> scheduleLabel[m]

\* The Node is read again, then patched without a resource version.
updateNodeLabels ==
    /\ busy
    /\ busy' = FALSE
    /\ workerLabel' = [m \in Modules |-> PatchedWorker(m, nodeCache)]
    /\ scheduleLabel' = [m \in Modules |-> PatchedSchedule(m, nodeCache)]
    /\ todo' = [m \in Modules |-> NoDecision]
    /\ UNCHANGED <<moduleLabel, readyLabel, schedulePods, nodeCache, podCache, queued, history>>

\* The patch is refused or lost: Reconcile returns an error and is retried.
updateNodeLabelsFails ==
    /\ busy
    /\ busy' = FALSE
    /\ todo' = [m \in Modules |-> NoDecision]
    /\ queued' = TRUE
    /\ UNCHANGED <<moduleLabel, workerLabel, scheduleLabel, readyLabel,
                   schedulePods, nodeCache, podCache, history>>

------------------------------------------------------------------------------
\* The environment

\* The last change of the version-module label has been carried out; nothing about
\* it is under way.
CarriedOut(m) == workerLabel[m] = moduleLabel[m] /\ scheduleLabel[m] = moduleLabel[m]

AtRest(m) ==
    CarriedOut(m) /\ OwnWritesSeen(m) /\ nodeCache.module[m] = moduleLabel[m] /\ ~busy

\* The administrator adds, changes or removes the version-module label.
SetModuleLabel(m, v) ==
    /\ moduleLabel[m] # v
    /\ moduleLabel' = [moduleLabel EXCEPT ![m] = v]
    /\ hurried' = IF ~CarriedOut(m) THEN hurried \cup {m}
                  ELSE IF AtRest(m) THEN hurried \ {m}
                  ELSE hurried
    /\ UNCHANGED <<workerLabel, scheduleLabel, readyLabel, schedulePods,
                   nodeCache, podCache, queued, busy, todo, overtaken, missed>>

\* The NodeModulesConfig controller marks the kernel module ready, or unready.
KmodReady(m) ==
    /\ m \notin readyLabel
    /\ readyLabel' = readyLabel \cup {m}
    /\ UNCHANGED <<moduleLabel, workerLabel, scheduleLabel, schedulePods,
                   nodeCache, podCache, queued, busy, todo, history>>

KmodUnready(m) ==
    /\ m \in readyLabel
    /\ readyLabel' = readyLabel \ {m}
    /\ UNCHANGED <<moduleLabel, workerLabel, scheduleLabel, schedulePods,
                   nodeCache, podCache, queued, busy, todo, history>>

\* A DaemonSet selects the node by version-schedule-pod = v.
SchedulePodStarts(m) ==
    /\ scheduleLabel[m] # NoVersion
    /\ scheduleLabel[m] \notin schedulePods[m]
    /\ schedulePods' = [schedulePods EXCEPT ![m] = @ \cup {scheduleLabel[m]}]
    /\ UNCHANGED <<moduleLabel, workerLabel, scheduleLabel, readyLabel,
                   nodeCache, podCache, queued, busy, todo, history>>

SchedulePodGone(m, v) ==
    /\ v \in schedulePods[m]
    /\ schedulePods' = [schedulePods EXCEPT ![m] = @ \ {v}]
    /\ missed' = [missed EXCEPT ![m] = @ \ {v}]
    /\ UNCHANGED <<moduleLabel, workerLabel, scheduleLabel, readyLabel,
                   nodeCache, podCache, queued, busy, todo, hurried, overtaken>>

\* The informer delivers the Node; NodeLabelModuleVersionUpdatePredicate lets the
\* event queue the node's key only when a version label changed.
SyncNodeCache ==
    /\ nodeCache # currentNode
    /\ nodeCache' = currentNode
    /\ queued' = (queued \/ nodeCache.module # moduleLabel
                         \/ nodeCache.worker # workerLabel
                         \/ nodeCache.schedule # scheduleLabel)
    /\ UNCHANGED <<moduleLabel, workerLabel, scheduleLabel, readyLabel,
                   schedulePods, podCache, busy, todo, history>>

SyncPodCache ==
    /\ podCache # schedulePods
    /\ podCache' = schedulePods
    /\ UNCHANGED <<moduleLabel, workerLabel, scheduleLabel, readyLabel,
                   schedulePods, nodeCache, queued, busy, todo, history>>

Environment ==
    \/ \E m \in Modules, v \in LabelValue : SetModuleLabel(m, v)
    \/ \E m \in Modules : KmodReady(m) \/ KmodUnready(m) \/ SchedulePodStarts(m)
    \/ \E m \in Modules, v \in Versions : SchedulePodGone(m, v)
    \/ SyncNodeCache
    \/ SyncPodCache

Controller ==
    \/ StartReconcile
    \/ updateNodeLabels
    \/ updateNodeLabelsFails

Next == Controller \/ Environment

Spec == Init /\ [][Next]_vars

(***************************************************************************)
(* Fairness.  The work queue hands out a queued key and the API server     *)
(* does not refuse every patch; informers deliver; a DaemonSet removes its *)
(* Pod from a node it no longer selects; a kernel module whose worker      *)
(* label is gone loses its ready label (the Module controller drops it     *)
(* from the NodeModulesConfig and it is unloaded).                         *)
(***************************************************************************)
StalePodGone(m, v) == v # scheduleLabel[m] /\ SchedulePodGone(m, v)

UnloadedUnready(m) == workerLabel[m] = NoVersion /\ KmodUnready(m)

Fairness ==
    /\ WF_vars(StartReconcile)
    /\ SF_vars(updateNodeLabels)
    /\ WF_vars(SyncNodeCache)
    /\ WF_vars(SyncPodCache)
    /\ \A m \in Modules, v \in Versions : WF_vars(StalePodGone(m, v))
    /\ \A m \in Modules : WF_vars(UnloadedUnready(m))

FairSpec == Spec /\ Fairness

------------------------------------------------------------------------------
\* Properties.  None of them speaks of an overtaken Module: the code neither waits
\* for its own patch to reach its copy of the Node nor patches with a resource
\* version, and an administrator who changes the version-module label again in the
\* middle of an upgrade can make it act on such a copy.

(***************************************************************************)
(* The schedule label never outlives or disagrees with the worker label:   *)
(* the label combinations the controller produces stay inside              *)
(* labelActionTable, so it cannot leave the node in a combination for      *)
(* which the table has no action.                                          *)
(***************************************************************************)
ScheduleWithinWorker ==
    \A m \in Modules \ overtaken :
        scheduleLabel[m] # NoVersion => scheduleLabel[m] = workerLabel[m]

(***************************************************************************)
(* While a device plugin or DRA Pod of a version is on the node, terminating *)
(* or not, the worker label still holds that version: the kernel module is *)
(* not taken from under its Pod (verifyLabelDeleteValidity), unless the    *)
(* cached list of Pods did not have that Pod yet.  Node and Pods are read  *)
(* from caches of any age; decisions are repeated on copies that lack the  *)
(* patch they led to, and do no harm as long as each change of the         *)
(* version-module label is carried out before the next.                    *)
(***************************************************************************)
PodsKeepWorkerVersion ==
    \A m \in Modules \ overtaken :
        \A v \in schedulePods[m] \ missed[m] : workerLabel[m] = v

(***************************************************************************)
(* The worker label never jumps from one version to another: it is removed *)
(* first, with nothing scheduled and no Pod left but those the cached list *)
(* lacked, so the old kernel module is unloaded before the new version is  *)
(* asked for, whatever the age of the copy each patch is computed on.      *)
(***************************************************************************)
WorkerLabelStep ==
    \A m \in Modules \ overtaken :
        workerLabel[m] # NoVersion /\ workerLabel'[m] # workerLabel[m]
            => /\ workerLabel'[m] = NoVersion
               /\ scheduleLabel[m] = NoVersion
               /\ schedulePods[m] \subseteq missed[m]

WorkerVersionNeverJumps == [][WorkerLabelStep]_vars

(***************************************************************************)
(* Once the administrator settles on a version, and the ready label of an  *)
(* unscheduled module stays off, both internal labels reach that version   *)
(* for good; once the label is removed for good, both are removed.  It     *)
(* holds however often the label was changed before, as long as no         *)
(* decision of a hurried Module fell on a copy without the last patch.     *)
(***************************************************************************)
UpgradeConverges ==
    \A m \in Modules, v \in LabelValue :
        (/\ <>[](moduleLabel[m] = v)
         /\ <>[](workerLabel[m] = NoVersion => m \notin readyLabel)
         /\ [](m \notin overtaken))
        => <>[](workerLabel[m] = v /\ scheduleLabel[m] = v)

(***************************************************************************)
(* The labels, moved one merge patch at a time by decisions taken on       *)
(* copies of the Node and of the list of Pods, implement OrderedUpgrade:   *)
(* no step of the controller does two of its steps to a Module at once or  *)
(* takes one before its time.  Pods count until a list that lacked them    *)
(* has been acted on, Modules until they are overtaken.                    *)
(***************************************************************************)
CountedPods == [m \in Modules |-> schedulePods[m] \ missed[m]]

Upgrade == INSTANCE OrderedUpgrade
           WITH granted <- workerLabel, open <- scheduleLabel, users <- CountedPods,
                waived <- overtaken

ImplementsUpgrade == Upgrade!Spec

------------------------------------------------------------------------------
\* The inductive invariant

\* The labels are what the decision on the cached Node makes of the cached ones:
\* the copy lacks one patch, and deciding on it again changes nothing.
OnePatchAhead(m) ==
    LET d == getLabelAndAction(m, nodeCache)
    IN  /\ workerLabel[m] = CASE d.op = "addWorker"    -> d.value
                              [] d.op = "deleteWorker" -> NoVersion
                              [] OTHER                 -> nodeCache.worker[m]
        /\ scheduleLabel[m] = CASE d.op = "addSchedule"    -> d.value
                                [] d.op = "deleteSchedule" -> NoVersion
                                [] OTHER                   -> nodeCache.schedule[m]

\* How far the copy of an unhurried Module's labels can be behind
CopyClose ==
    \A m \in Modules \ (overtaken \cup hurried) :
        /\ OwnWritesSeen(m) \/ OnePatchAhead(m)
        /\ nodeCache.module[m] # moduleLabel[m] =>
               workerLabel[m] = nodeCache.module[m] /\ scheduleLabel[m] = nodeCache.module[m]

\* The decision taken was carried out before.
Moot(m) ==
    \/ todo[m].op = "addWorker" /\ workerLabel[m] = todo[m].value
    \/ todo[m].op = "deleteWorker" /\ workerLabel[m] = NoVersion
    \/ todo[m].op = "addSchedule" /\ scheduleLabel[m] = todo[m].value
    \/ todo[m].op = "deleteSchedule" /\ scheduleLabel[m] = NoVersion

\* What a decision taken on an accurate copy still promises when it is applied
StillValid(m) ==
    /\ OwnWritesSeen(m)
    /\ todo[m].op = "addWorker" =>
           workerLabel[m] = NoVersion /\ todo[m].value # NoVersion
    /\ todo[m].op = "deleteWorker" =>
           scheduleLabel[m] = NoVersion /\ schedulePods[m] \subseteq missed[m]
    /\ todo[m].op = "addSchedule" =>
           workerLabel[m] = todo[m].value /\ todo[m].value # NoVersion
    /\ m \notin hurried =>
           /\ nodeCache.module[m] = moduleLabel[m]
           /\ todo[m] = getLabelAndAction(m, nodeCache)

TodoFits ==
    busy => \A m \in Modules \ overtaken :
                todo[m].op = "none" \/ Moot(m) \/ StillValid(m)

IInv ==
    /\ TypeOK
    /\ ScheduleWithinWorker
    /\ PodsKeepWorkerVersion
    /\ CopyClose
    /\ TodoFits
    /\ \A m \in Modules : missed[m] \subseteq schedulePods[m]

==============================================================================
